--------------------------- MODULE Notifications ---------------------------
(***************************************************************************)
(* Notifications and the operator's replies to them (src/notify).  An open *)
(* decision or a proposed trust scope is announced on a web link and on a  *)
(* Telegram keyboard; a reply claims the notification once, is written to  *)
(* the log, and then routed to its target, all in one process but with an  *)
(* await between the steps.  Telegram is polled on a timer that does not   *)
(* wait for the previous poll, and Telegram itself (external) keeps every  *)
(* update until a poll asks for a later one.                               *)
(***************************************************************************)
EXTENDS Integers, Sequences, Functions

CONSTANTS
  Decisions, Scopes,   \* the targets a notification can be about
  Directives,          \* messages the operator sends to the bot
  Offer,               \* a decision's options, in the order of its buttons
  Begins,              \* <<o, a>>: the 12 characters a button keeps of o begin a
  Webhooks, Polls,     \* bound: requests to /notify/reply, polls, at a time
  MaxTaps, MaxCrashes  \* bounds

Options == Range(Offer)
Targets == Decisions \cup Scopes
Handlers == Webhooks \cup Polls

ASSUME NotificationsAssumption ==
  /\ \A o \in Options : <<o, o>> \in Begins
  /\ Offer \in Seq(Options)
  /\ Directives \cap Targets = {} /\ Webhooks \cap Polls = {}
  /\ MaxTaps \in Nat /\ MaxCrashes \in Nat

VARIABLES
  target,    \* per target: by "absent", "open", or who settled it with which option
  note,      \* its notification's row: "none", "live" or "consumed"
  lapsed,    \* notifications whose signature no longer verifies
  waiting,   \* rows whose channel sends are still scheduled (setImmediate)
  shown,     \* notifications the operator can see
  updates,   \* the taps and messages Telegram holds, not yet confirmed, by id
  taps,      \* taps and messages so far, their count being the next id
  offset,    \* the poller's
  job,       \* per handler: what it is doing and with which reply
  batch,     \* per poll: the updates it has still to handle
  crashes,
  \* history
  pressed, routed, lost, issued, overlapped

rows == <<target, note, lapsed>>
outbound == <<waiting, shown>>
history == <<pressed, routed, lost, issued, overlapped>>
vars == <<rows, outbound, updates, taps, offset, job, batch, crashes, history>>

Idle == [at |-> "idle"]
Unset(by) == [option |-> "none", by |-> by]

Init ==
  /\ target = [t \in Targets |-> Unset("absent")]
  /\ note = [t \in Targets |-> "none"]
  /\ lapsed = {} /\ waiting = {} /\ shown = {}
  /\ updates = {} /\ taps = 0 /\ offset = 0
  /\ job = [h \in Handlers |-> Idle]
  /\ batch = [p \in Polls |-> {}]
  /\ crashes = 0
  /\ pressed = {} /\ lost = {} /\ overlapped = FALSE
  /\ routed = [t \in Targets |-> 0]
  /\ issued = [d \in Directives |-> 0]

\* The buttons of a notification, in order.
Buttons(t) == IF t \in Scopes THEN <<"grant", "reject">> ELSE Offer

Settled(t) == target[t].by \notin {"absent", "open"}

-----------------------------------------------------------------------------
(* Outbound: the event is published, the row inserted, the sends scheduled. *)

Announce(t) ==
  /\ target[t].by = "absent"
  /\ target' = [target EXCEPT ![t] = Unset("open")]
  /\ note' = [note EXCEPT ![t] = "live"]
  /\ waiting' = waiting \cup {t}
  /\ UNCHANGED <<lapsed, shown, updates, taps, offset, job, batch, crashes, history>>

\* The sends arrive, or fail; one that times out may have arrived all the same.
Dispatch(t) ==
  /\ t \in waiting
  /\ waiting' = waiting \ {t}
  /\ shown' \in {shown, shown \cup {t}}
  /\ UNCHANGED <<rows, updates, taps, offset, job, batch, crashes, history>>

Lapse(t) ==
  /\ note[t] # "none" /\ t \notin lapsed
  /\ lapsed' = lapsed \cup {t}
  /\ UNCHANGED <<target, note, outbound, updates, taps, offset, job, batch, crashes, history>>

\* The dashboard answers, a scope is granted or revoked there, or a decision's
\* requester times out and writes the default.
Elsewhere(t, o) ==
  /\ target[t].by = "open" /\ o \in Range(Buttons(t))
  /\ target' = [target EXCEPT ![t] = [option |-> o, by |-> "elsewhere"]]
  /\ UNCHANGED <<note, lapsed, outbound, updates, taps, offset, job, batch, crashes, history>>

-----------------------------------------------------------------------------
(* Inbound.                                                                 *)

\* The row is read, checked and marked in one step: both ways in await nothing
\* before they claim.
AnyReplyClaims(t) == note[t] # "none" /\ t \notin lapsed
Claimable(t) == note[t] = "live" /\ t \notin lapsed
Claim(t) == note' = [note EXCEPT ![t] = "consumed"]

\* A link is followed; a reply that may not claim is told so and ends.
Click(w, t, o) ==
  /\ job[w] = Idle /\ taps < MaxTaps
  /\ t \in shown /\ o \in Range(Buttons(t))
  /\ Claimable(t)
  /\ Claim(t)
  /\ taps' = taps + 1
  /\ pressed' = pressed \cup {<<t, o>>}
  /\ job' = [job EXCEPT ![w] = [at |-> "audit", target |-> t, option |-> o]]
  /\ UNCHANGED <<target, lapsed, outbound, updates, offset, batch, crashes,
                 routed, lost, issued, overlapped>>

\* A button is tapped in the chat, or a directive is sent.
Tap(t, o) ==
  /\ taps < MaxTaps
  /\ t \in shown /\ o \in Range(Buttons(t))
  /\ taps' = taps + 1
  /\ updates' = updates \cup {[id |-> taps, target |-> t, option |-> o]}
  /\ pressed' = pressed \cup {<<t, o>>}
  /\ UNCHANGED <<rows, outbound, offset, job, batch, crashes, routed, lost, issued, overlapped>>

Direct(d) ==
  /\ taps < MaxTaps
  /\ \A u \in updates : u.target # d
  /\ taps' = taps + 1 /\ issued[d] = 0
  /\ updates' = updates \cup {[id |-> taps, target |-> d]}
  /\ UNCHANGED <<rows, outbound, offset, job, batch, crashes, history>>

\* The timer ticks: getUpdates with the offset of now.
PollTick(p) ==
  /\ job[p] = Idle
  /\ job' = [job EXCEPT ![p] = [at |-> "fetching", asked |-> offset]]
  /\ overlapped' = (overlapped \/ \E q \in Polls \ {p} : job[q] # Idle)
  /\ UNCHANGED <<rows, outbound, updates, taps, offset, batch, crashes,
                 pressed, routed, lost, issued>>

\* Telegram drops what precedes the offset and returns what is left.
Fetched(p) ==
  /\ job[p].at = "fetching"
  /\ updates' = {u \in updates : u.id >= job[p].asked}
  /\ batch' = [batch EXCEPT ![p] = updates']
  /\ job' = [job EXCEPT ![p] = [at |-> "handling"]]
  /\ UNCHANGED <<rows, outbound, taps, offset, crashes, history>>

FetchFails(p) ==
  /\ job[p].at = "fetching"
  /\ job' = [job EXCEPT ![p] = Idle]
  /\ UNCHANGED <<rows, outbound, updates, taps, offset, batch, crashes, history>>

\* The first button whose id begins with what the callback carries.
MayMean(o, b) == b = o \/ <<o, b>> \in Begins
Read(t, o) ==
  Buttons(t)[CHOOSE i \in DOMAIN Buttons(t) :
               /\ MayMean(o, Buttons(t)[i])
               /\ \A j \in 1 .. i - 1 : ~MayMean(o, Buttons(t)[j])]

\* The offset moves past an update before it is handled.
OffsetBeyond(id) == IF id + 2 > offset THEN id + 2 ELSE offset
OffsetPast(id) == IF id + 1 > offset THEN id + 1 ELSE offset

\* The next update of the batch.  A tap that may not claim is answered so; a
\* directive is published as it stands.
Handle(p) ==
  /\ job[p].at = "handling"
  /\ \E u \in batch[p] :
       /\ \A v \in batch[p] : u.id <= v.id
       /\ batch' = [batch EXCEPT ![p] = @ \ {u}]
       /\ offset' = OffsetPast(u.id)
       /\ IF u.target \in Directives
          THEN /\ issued' = [issued EXCEPT ![u.target] = @ + 1]
               /\ job' = [job EXCEPT ![p] = [at |-> "telling"]]
               /\ UNCHANGED note
          ELSE /\ IF Claimable(u.target)
                  THEN /\ Claim(u.target)
                       /\ job' = [job EXCEPT ![p] = [at |-> "audit", target |-> u.target,
                                                     option |-> Read(u.target, u.option)]]
                  ELSE job' = [job EXCEPT ![p] = [at |-> "telling"]] /\ UNCHANGED note
               /\ UNCHANGED issued
  /\ UNCHANGED <<target, lapsed, outbound, updates, taps, crashes, pressed, routed, lost, overlapped>>

BatchEnds(p) ==
  /\ job[p].at = "handling" /\ batch[p] = {}
  /\ job' = [job EXCEPT ![p] = Idle]
  /\ UNCHANGED <<rows, outbound, updates, taps, offset, batch, crashes, history>>

\* The reply is in the log: route takes it to its target, which it settles only
\* when nobody did; otherwise it is late.
SettlesAnyway(h) == [option |-> job[h].option, by |-> "reply"]
SettlesInTime(h) ==
  IF job[h].target \in lapsed THEN target[job[h].target] ELSE SettlesAnyway(h)
Effect(h) ==
  IF target[job[h].target].by = "open" THEN SettlesAnyway(h) ELSE target[job[h].target]

Route(h) ==
  /\ job[h].at = "audit"
  /\ routed' = [routed EXCEPT ![job[h].target] = @ + 1]
  /\ target' = [target EXCEPT ![job[h].target] = Effect(h)]
  /\ job' = [job EXCEPT ![h] = [at |-> "telling"]]
  /\ UNCHANGED <<note, lapsed, outbound, updates, taps, offset, batch, crashes,
                 pressed, lost, issued, overlapped>>

\* The outcome is published and the operator told: a page, a toast, a message.
Told(h) ==
  /\ job[h].at = "telling"
  /\ job' = [job EXCEPT ![h] = IF h \in Polls THEN [at |-> "handling"] ELSE Idle]
  /\ UNCHANGED <<rows, outbound, updates, taps, offset, batch, crashes, history>>

-----------------------------------------------------------------------------
\* The daemon stops and starts: rows stay, what was under way and the offset do not.
Crash ==
  /\ crashes < MaxCrashes
  /\ crashes' = crashes + 1
  /\ lost' = lost \cup {t \in Targets : \E h \in Handlers :
                           job[h].at = "audit" /\ job[h].target = t}
  /\ job' = [h \in Handlers |-> Idle]
  /\ batch' = [p \in Polls |-> {}]
  /\ offset' = 0 /\ waiting' = {}
  /\ UNCHANGED <<rows, shown, updates, taps, pressed, routed, issued, overlapped>>

Next ==
  \/ \E t \in Targets : Announce(t) \/ Dispatch(t) \/ Lapse(t)
  \/ \E t \in Targets, o \in Options \cup {"grant", "reject"} :
       \/ Elsewhere(t, o) \/ Tap(t, o)
       \/ \E w \in Webhooks : Click(w, t, o)
  \/ \E d \in Directives : Direct(d)
  \/ \E p \in Polls : PollTick(p) \/ Fetched(p) \/ FetchFails(p) \/ Handle(p) \/ BatchEnds(p)
  \/ \E h \in Handlers : Route(h) \/ Told(h)
  \/ Crash

NextOfBatch(p) == Handle(p) \/ BatchEnds(p)

\* The timer ticks, Telegram answers again and again, and no await lasts for ever.
Fairness ==
  /\ \A p \in Polls : /\ WF_vars(PollTick(p)) /\ SF_vars(Fetched(p))
                      /\ WF_vars(NextOfBatch(p))
  /\ \A h \in Handlers : WF_vars(Route(h)) /\ WF_vars(Told(h))

Spec == Init /\ [][Next]_vars /\ Fairness

-----------------------------------------------------------------------------
\* A notification reaches the router once, whichever devices, overlapping polls
\* and deliveries repeated after a restart bring replies to it.
OneShot == \A t \in Targets : routed[t] <= 1

\* An answer that came by reply is one that a button the operator pressed for that
\* target may mean: the pressed option itself, unless the few characters a Telegram
\* button keeps of it begin another option too (wiring.ts: "with the picked id").
AnswerWasMeant ==
  \A t \in Targets : Settled(t) /\ target[t].by = "reply" =>
    \E o \in Range(Buttons(t)) : <<t, o>> \in pressed /\ MayMean(o, target[t].option)

\* "This notification was already acted on": a consumed notification was, or is
\* being; a reply that claimed it is lost only with the daemon.
ConsumedIsActedOn ==
  \A t \in Targets : note[t] = "consumed" =>
    Settled(t) \/ t \in lost \/ \E h \in Handlers : job[h].at = "audit" /\ job[h].target = t

\* A directive is published once, unless polls overlapped or the daemon restarted.
DirectiveOnce ==
  ~overlapped /\ crashes = 0 => \A d \in Directives : issued[d] <= 1

\* Claiming a notification counts: the claim is followed by an answer, and the
\* answer a reply brought is one that the pressed button may mean; a directive
\* counts once.
RepliesCount == ConsumedIsActedOn /\ AnswerWasMeant /\ DirectiveOnce

\* A tap Telegram holds is handled in the end, and an answer that claimed its
\* notification settles the target, unless the daemon stopped in between.
RepliesLand ==
  \A t \in Targets :
    /\ (\E u \in updates : u.target = t)
         ~> (note[t] = "consumed" \/ t \in lapsed)
    /\ (note[t] = "consumed") ~> (Settled(t) \/ t \in lost)
=============================================================================
