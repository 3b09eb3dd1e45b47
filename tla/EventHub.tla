------------------------------ MODULE EventHub ------------------------------
(***************************************************************************)
(* The event broker (src/broker.ts) with its two kinds of listener: MCP    *)
(* sessions, which subscribe and may ask for a replay, and the raw SSE     *)
(* streams of /events/sse, which read history and then listen.             *)
(*                                                                         *)
(* A publish appends the event and starts one delivery per subscriber in   *)
(* one synchronous step; each delivery settles on its own or times out     *)
(* after five seconds, and only then do the raw listeners hear the event.  *)
(* Events are numbered in log order.  Which kinds a session wants is       *)
(* abstracted to whether it wants the events at all; a client subscribes   *)
(* once per session.                                                       *)
(***************************************************************************)
EXTENDS Naturals, Sequences, FiniteSets, SequencesExt

CONSTANTS
  Sessions, Streams,
  Publishers,     \* bound: publish calls at a time
  PageLimit,      \* getEvents' limit: 500 unless the caller says more
  MaxEvents       \* bound: events published

VARIABLES
  made,      \* number of the newest event
  stored,    \* the events that reached the events table
  pub,       \* per publish call: its event (0: none) and the deliveries under way
  session,   \* per MCP session: its state, and where its subscription began
  replay,    \* per session: the events of the page replayTo has yet to send
  wire,      \* per session: notifications sent and not yet taken
  got,       \* per session: how often the client took each event since it subscribed
  last,      \* per client: the id it would resume after
  stream     \* per SSE connection: whether it listens, from where, what it was sent

vars == <<made, stored, pub, session, replay, wire, got, last, stream>>

Idle == [ev |-> 0, waits |-> {}]
Gone == [at |-> "gone", since |-> 0, from |-> 0, cut |-> FALSE]
None == [e \in 1 .. MaxEvents |-> 0]
Silent == [on |-> FALSE, since |-> 0, from |-> 0, cut |-> FALSE, sent |-> {}]

Init ==
  /\ made = 0 /\ stored = {}
  /\ pub = [p \in Publishers |-> Idle]
  /\ session = [s \in Sessions |-> Gone]
  /\ replay = [s \in Sessions |-> {}]
  /\ wire = [s \in Sessions |-> <<>>]
  /\ got = [s \in Sessions |-> None]
  /\ last = [s \in Sessions |-> 0]
  /\ stream = [k \in Streams |-> Silent]

\* The broker's map holds the sessions that opened and were not dropped.
Subscribers == {s \in Sessions : session[s].at = "subscribed"}

-----------------------------------------------------------------------------
(* persistence.getEvents: an id that is not in the table counts as seq 0.   *)

Position(id) == IF id \in stored THEN id ELSE 0
From(id) == {e \in stored : e >= Position(id)}
After(id) == {e \in stored : e > Position(id)}
\* The first events in log order, as many as the limit allows.
Page(evs) == {e \in evs : Cardinality({x \in evs : x < e}) < PageLimit}
HasMore(evs) == Page(evs) # evs

-----------------------------------------------------------------------------
(* publish and fanout.                                                      *)

Sent(e, p) == [ev |-> e, by |-> p]

\* An event the table refuses is fanned out all the same.
Publish(p, kept) ==
  /\ pub[p].ev = 0 /\ made < MaxEvents
  /\ made' = made + 1
  /\ stored' = IF kept THEN stored \cup {made'} ELSE stored
  /\ pub' = [pub EXCEPT ![p] = [ev |-> made', waits |-> Subscribers]]
  /\ wire' = [s \in Sessions |-> IF s \in Subscribers
                                 THEN Append(wire[s], Sent(made', p)) ELSE wire[s]]
  /\ UNCHANGED <<session, replay, got, last, stream>>

\* The client takes the next notification: whoever sent it stops waiting.
Takes(s) ==
  /\ wire[s] # <<>>
  /\ LET m == Head(wire[s]) IN
       /\ got' = [got EXCEPT ![s][m.ev] = @ + 1]
       /\ last' = [last EXCEPT ![s] = m.ev]
       /\ pub' = [p \in Publishers |->
                    IF p = m.by /\ pub[p].ev = m.ev
                    THEN [pub[p] EXCEPT !.waits = @ \ {s}] ELSE pub[p]]
  /\ wire' = [wire EXCEPT ![s] = Tail(@)]
  /\ UNCHANGED <<made, stored, session, replay, stream>>

Dropped(s) ==
  session' = [session EXCEPT ![s].at = IF @ = "subscribed" THEN "dropped" ELSE @]
Untaken(p, s) == Sent(pub[p].ev, p) \in ToSet(wire[s])

\* A mutation of TimesOut: the subscriber is dropped and the wait goes on.
OnlyDrops(p, s) ==
  /\ s \in pub[p].waits /\ session[s].at = "subscribed" /\ Dropped(s)
  /\ UNCHANGED <<made, stored, pub, replay, wire, got, last, stream>>

\* A delivery throws or takes five seconds: the subscriber is dropped.  The
\* session stays open, without the broker's entry.  The entry of a session that
\* closed meanwhile is gone already.
TimesOut(p, s) ==
  /\ s \in pub[p].waits
  /\ pub' = [pub EXCEPT ![p].waits = @ \ {s}]
  /\ IF Untaken(p, s) THEN Dropped(s) ELSE UNCHANGED session
  /\ UNCHANGED <<made, stored, replay, wire, got, last, stream>>

\* Every delivery settled: the raw listeners hear the event, publish returns.
RawListeners(p) ==
  /\ pub[p].ev # 0 /\ pub[p].waits = {}
  /\ pub' = [pub EXCEPT ![p] = Idle]
  /\ stream' = [k \in Streams |->
                  IF stream[k].on THEN [stream[k] EXCEPT !.sent = @ \cup {pub[p].ev}]
                  ELSE stream[k]]
  /\ UNCHANGED <<made, stored, session, replay, wire, got, last>>

-----------------------------------------------------------------------------
(* MCP sessions.                                                            *)

\* createSwitchServer registers the session with the broker.
Open(s) ==
  /\ session[s].at = "gone"
  /\ session' = [session EXCEPT ![s].at = "open"]
  /\ UNCHANGED <<made, stored, pub, replay, wire, got, last, stream>>

\* subscribe_to_events: the subscription and the page of a replay belong to the
\* same synchronous stretch.  Without since_event_id, which names the last event
\* the client took, there is no replay.
Subscribe(s, resume) ==
  /\ session[s].at = "open" /\ (resume => last[s] > 0)
  /\ session' = [session EXCEPT ![s] =
       [at |-> "subscribed", since |-> IF resume THEN Position(last[s]) ELSE made,
        from |-> made, cut |-> resume /\ HasMore(After(last[s]))]]
  /\ replay' = [replay EXCEPT ![s] = IF resume THEN Page(After(last[s])) ELSE {}]
  /\ got' = [got EXCEPT ![s] = None]
  /\ UNCHANGED <<made, stored, pub, wire, last, stream>>

\* replayTo awaits each notification before the next one.
Replaying(s) == \E i \in DOMAIN wire[s] : wire[s][i].by = "replay"
ReplayNext(s) ==
  /\ ~Replaying(s)
  /\ \E e \in replay[s] :
       /\ \A x \in replay[s] : e <= x
       /\ wire' = [wire EXCEPT ![s] = Append(@, Sent(e, "replay"))]
       /\ replay' = [replay EXCEPT ![s] = @ \ {e}]
  /\ UNCHANGED <<made, stored, pub, session, got, last, stream>>

\* A notification of the replay throws: the subscriber is dropped, the rest skipped.
ReplayThrows(s) ==
  /\ replay[s] # {} /\ ~Replaying(s)
  /\ replay' = [replay EXCEPT ![s] = {}]
  /\ Dropped(s)
  /\ UNCHANGED <<made, stored, pub, wire, got, last, stream>>

Unsubscribe(s) ==
  /\ session[s].at = "subscribed"
  /\ session' = [session EXCEPT ![s].at = "unsubscribed"]
  /\ UNCHANGED <<made, stored, pub, replay, wire, got, last, stream>>

\* DELETE /mcp or the transport's onclose.  The next session of the client
\* resumes after the last event it took.
Close(s) ==
  /\ session[s].at # "gone"
  /\ session' = [session EXCEPT ![s] = Gone]
  /\ replay' = [replay EXCEPT ![s] = {}]
  /\ wire' = [wire EXCEPT ![s] = <<>>]
  /\ got' = [got EXCEPT ![s] = None]
  /\ UNCHANGED <<made, stored, pub, last, stream>>

-----------------------------------------------------------------------------
(* /events/sse: history, then onRawEvent, in one synchronous handler.       *)

Connect(k, id) ==
  /\ ~stream[k].on /\ id <= made
  /\ stream' = [stream EXCEPT ![k] =
       [on |-> TRUE, since |-> Position(id), from |-> made, cut |-> HasMore(After(id)),
        sent |-> Page(After(id))]]
  /\ UNCHANGED <<made, stored, pub, session, replay, wire, got, last>>

Disconnect(k) ==
  /\ stream[k].on
  /\ stream' = [stream EXCEPT ![k] = Silent]
  /\ UNCHANGED <<made, stored, pub, session, replay, wire, got, last>>

-----------------------------------------------------------------------------
Next ==
  \/ \E p \in Publishers, kept \in BOOLEAN : Publish(p, kept)
  \/ \E p \in Publishers, s \in Sessions : TimesOut(p, s)
  \/ \E p \in Publishers : RawListeners(p)
  \/ \E s \in Sessions : \/ Takes(s) \/ Open(s) \/ ReplayNext(s) \/ ReplayThrows(s)
                         \/ Unsubscribe(s) \/ Close(s)
  \/ \E s \in Sessions, resume \in BOOLEAN : Subscribe(s, resume)
  \/ \E k \in Streams : Disconnect(k)
  \/ \E k \in Streams, id \in 0 .. MaxEvents : Connect(k, id)

\* The delivery timer fires and the publisher resumes once nothing is under way.
OneTimesOut(p) == \E s \in Sessions : TimesOut(p, s)
Fairness == \A p \in Publishers : WF_vars(OneTimesOut(p)) /\ WF_vars(RawListeners(p))

Spec == Init /\ [][Next]_vars /\ Fairness

-----------------------------------------------------------------------------
\* What a session or stream that began at x is owed.
Owed(x) == {e \in stored : e > x.since} \cup (x.from + 1) .. made

\* The ways an event reached the client, or is about to: a time it was taken, a
\* place on the wire, or the rest of a replay.
OnWire(s, e) == {i \in DOMAIN wire[s] : wire[s][i].ev = e}
Ways(s, e) ==
  {<<"got", n>> : n \in 1 .. got[s][e]} \cup {<<"wire", i>> : i \in OnWire(s, e)}
    \cup {<<"replay", x>> : x \in replay[s] \cap {e}}
Once(s, e) == \E w \in Ways(s, e) : Ways(s, e) = {w}

\* A subscription that is kept gets every event after its cursor exactly once,
\* replayed or live, however the two interleave, if the replay fitted one page;
\* a raw stream misses nothing after its cursor but what is still being fanned
\* out, although it hears an event only when every subscriber took it or was
\* dropped.
EventsArrive ==
  /\ \A s \in Subscribers : ~session[s].cut =>
       \A e \in 1 .. made :
         IF e \in Owed(session[s]) THEN Once(s, e) ELSE Ways(s, e) = {}
  /\ \A k \in Streams : stream[k].on /\ ~stream[k].cut =>
       \A e \in Owed(stream[k]) : e \in stream[k].sent \/ \E p \in Publishers : pub[p].ev = e

\* A subscriber that does not drain cannot keep a publisher.
PublishReturns == \A p \in Publishers : []<>(pub[p].ev = 0)

\* "since_event_id replays missed events to recover from disconnects."
ResumeMissesNothing ==
  \A s \in Subscribers, e \in stored :
    e > session[s].since => Ways(s, e) # {}
=============================================================================
