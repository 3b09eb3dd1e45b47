------------------------------ MODULE Decisions ------------------------------
(***************************************************************************)
(* The decision rendezvous of the stavR daemon: a requester (the           *)
(* await_decision tool, the structural chokepoint gate, or a gated action) *)
(* opens a decision row in SQLite and blocks; an operator answers it       *)
(* through the respond_to_decision tool, the dashboard or a notification   *)
(* reply; a timer closes it with the default option; the daemon may crash  *)
(* at any point and sweeps overdue rows when it boots.                     *)
(*                                                                         *)
(* Node runs one handler at a time, so everything between two awaits is    *)
(* one action.  Rows and the event log are durable; waiters and timers     *)
(* live in memory and die with the process.                                *)
(***************************************************************************)
CONSTANTS
  Decision,      \* correlation ids
  Option,        \* option ids a requester may offer
  Actor,         \* verified identities: requesters and responders
  Operator,      \* those of an operator-authorised shape (loopback:*, notify:*)
  SwitchDefault, \* the synthetic responder of the timeout fallback
  None           \* SQL NULL: no default option, no requester, no choice yet

ASSUME DecisionsAssumption ==
  /\ Operator \subseteq Actor
  /\ SwitchDefault \notin Actor
  /\ None \notin Actor \cup Option \cup {SwitchDefault}

VARIABLES
  row,       \* the decisions table
  overdue,   \* decisions whose expires_at has passed
  call,      \* where the requester's handler is suspended, per decision
  promise,   \* the value its awaitDecisionResponse promise resolved with
  outcome,   \* what the requester was finally told
  log,       \* the decision_response events in the event log
  late,      \* decisions with a decision_late_response event in the log
  up         \* is the daemon process running?

vars == <<row, overdue, call, promise, outcome, log, late, up>>

Status == {"absent", "open", "responded", "expired"}
Caller == {"tool", "gate"}
CallState == {"idle", "announcing", "waiting", "resolved", "timedout",
              "answered", "defaulted", "failed", "lost"}
Active == {"announcing", "waiting", "resolved", "timedout"}
Told == {"answered", "defaulted"}

Row == [status : Status, offered : SUBSET Option, dflt : Option \cup {None},
        source : Actor \cup {None}, caller : Caller,
        chosen : Option \cup {None}, by : Actor \cup {SwitchDefault, None}]

Absent == [status |-> "absent", offered |-> {}, dflt |-> None, source |-> None,
           caller |-> "tool", chosen |-> None, by |-> None]

Reply == [option : Option, by : Actor \cup {SwitchDefault}]

\* Type invariant: in particular NULL is never logged as an answer.
TypeOK ==
  /\ row \in [Decision -> Row]
  /\ overdue \in SUBSET Decision
  /\ call \in [Decision -> CallState]
  /\ promise \in [Decision -> Option \cup {None}]
  /\ outcome \in [Decision -> Option \cup {None}]
  /\ log \in [Decision -> SUBSET Reply]
  /\ late \in SUBSET Decision
  /\ up \in BOOLEAN

Init ==
  /\ row = [d \in Decision |-> Absent]
  /\ overdue = {}
  /\ call = [d \in Decision |-> "idle"]
  /\ promise = [d \in Decision |-> None]
  /\ outcome = [d \in Decision |-> None]
  /\ log = [d \in Decision |-> {}]
  /\ late = {}
  /\ up = TRUE

-----------------------------------------------------------------------------
(* The requester.                                                          *)

\* createDecision, then decision_request is appended to the log; the handler
\* suspends while the event is delivered to the subscribers.  A gate always
\* offers approve and reject with reject as the default; the tool refuses a
\* default it does not offer.  A second row with the same id is a primary key
\* violation.
Open(d, offered, dflt, source, caller) ==
  /\ up
  /\ row[d].status = "absent"
  /\ offered # {}
  /\ dflt \in offered \cup {None}
  /\ caller = "gate" => dflt # None
  /\ row' = [row EXCEPT ![d] = [Absent EXCEPT !.status = "open",
                !.offered = offered, !.dflt = dflt, !.source = source,
                !.caller = caller]]
  /\ call' = [call EXCEPT ![d] = "announcing"]
  /\ UNCHANGED <<overdue, promise, outcome, log, late, up>>

\* awaitDecisionResponse: an answer that landed while the request was being
\* delivered resolves the promise at once, otherwise the listener and the
\* timer are installed.
BlindWait(d) == "waiting"
WaitState(d) == IF row[d].status = "responded" THEN "resolved" ELSE "waiting"

BeginWait(d) ==
  /\ call[d] = "announcing"
  /\ call' = [call EXCEPT ![d] = WaitState(d)]
  /\ promise' = [promise EXCEPT ![d] = row[d].chosen]
  /\ UNCHANGED <<row, overdue, outcome, log, late, up>>

\* The requester resumes with the promised answer.
Resume(d) ==
  /\ call[d] = "resolved"
  /\ call' = [call EXCEPT ![d] = "answered"]
  /\ outcome' = [outcome EXCEPT ![d] = promise[d]]
  /\ UNCHANGED <<row, overdue, promise, log, late, up>>

\* setTimeout fires: the listener is removed and the promise rejected.  The
\* timer is armed after expires_at was computed, for the same duration.
TimerOnlyDetaches(d) == call[d] = "waiting" /\ d \in overdue /\ UNCHANGED vars

TimerFires(d) ==
  /\ call[d] = "waiting"
  /\ d \in overdue
  /\ call' = [call EXCEPT ![d] = "timedout"]
  /\ UNCHANGED <<row, overdue, promise, outcome, log, late, up>>

\* respondToDecision writes only an open row; switch-default may close any.
Closable(d) == row[d].status = "open"

CloseRow(d, option, by) ==
  row' = [row EXCEPT ![d].status = "responded", ![d].chosen = option,
                     ![d].by = by]

\* The catch block of the requester writes the default as switch-default ...
FallbackDue(d) ==
  /\ call[d] = "timedout"
  /\ row[d].dflt # None
  /\ Closable(d)

FallbackWrites(d) ==
  /\ FallbackDue(d)
  /\ CloseRow(d, row[d].dflt, SwitchDefault)
  /\ log' = [log EXCEPT ![d] = @ \cup
                {[option |-> row[d].dflt, by |-> SwitchDefault]}]
  /\ call' = [call EXCEPT ![d] = "defaulted"]
  /\ outcome' = [outcome EXCEPT ![d] = row[d].dflt]
  /\ UNCHANGED <<overdue, promise, late, up>>

\* ... or, when an answer landed first, returns what the row says ...
LandedDefault(d) == row[d].dflt
LandedAnswer(d) == row[d].chosen

FallbackReads(d) ==
  /\ call[d] = "timedout"
  /\ row[d].dflt # None
  /\ row[d].status = "responded"
  /\ call' = [call EXCEPT ![d] = "answered"]
  /\ outcome' = [outcome EXCEPT ![d] = LandedAnswer(d)]
  /\ UNCHANGED <<row, overdue, promise, log, late, up>>

\* ... or reports the timeout: there is no default to apply.  The row stays
\* open.
FallbackFails(d) ==
  /\ call[d] = "timedout"
  /\ row[d].dflt = None
  /\ call' = [call EXCEPT ![d] = "failed"]
  /\ UNCHANGED <<row, overdue, promise, outcome, log, late, up>>

-----------------------------------------------------------------------------
(* The responders.                                                         *)

mayRespondAnyone(d, a) == a # row[d].source
mayRespond(d, a) ==
  /\ a # row[d].source
  /\ a \in Operator

\* An accepted answer is written, logged, and handed to the waiter if there
\* is one: the three surfaces (MCP tool, dashboard, notification reply) run
\* the same policy and the same store call.
Accepted(d, a, option) ==
  /\ up
  /\ Closable(d)
  /\ mayRespond(d, a)
  /\ option \in row[d].offered

Respond(d, a, option) ==
  /\ Accepted(d, a, option)
  /\ CloseRow(d, option, a)
  /\ log' = [log EXCEPT ![d] = @ \cup {[option |-> option, by |-> a]}]
  /\ call' = [call EXCEPT ![d] = IF @ = "waiting" THEN "resolved" ELSE @]
  /\ promise' = [promise EXCEPT ![d] =
                   IF call[d] = "waiting" THEN option ELSE @]
  /\ UNCHANGED <<overdue, outcome, late, up>>

\* A permitted responder who comes second is only recorded.
RespondLate(d, a) ==
  /\ up
  /\ row[d].status = "responded"
  /\ mayRespond(d, a)
  /\ late' = late \cup {d}
  /\ UNCHANGED <<row, overdue, call, promise, outcome, log, up>>

-----------------------------------------------------------------------------
(* Time and failures.                                                      *)

DeadlinePasses(d) ==
  /\ row[d].status # "absent"
  /\ d \notin overdue
  /\ overdue' = overdue \cup {d}
  /\ UNCHANGED <<row, call, promise, outcome, log, late, up>>

\* Everything in memory is gone.
LoseCalls == [d \in Decision |-> IF call[d] \in Active THEN "lost" ELSE call[d]]

Crash ==
  /\ up
  /\ up' = FALSE
  /\ call' = LoseCalls
  /\ UNCHANGED <<row, overdue, promise, outcome, log, late>>

\* The process dies between the UPDATE of the row and the append of the event.
DieAfterWrite(d, option, by) ==
  /\ \/ Accepted(d, by, option)
     \/ FallbackDue(d) /\ by = SwitchDefault /\ option = row[d].dflt
  /\ CloseRow(d, option, by)
  /\ up' = FALSE
  /\ call' = LoseCalls
  /\ UNCHANGED <<overdue, promise, outcome, log, late>>

\* startupDecisionSweep, awaited before any transport is mounted.
Swept == {d \in Decision : row[d].status = "open" /\ d \in overdue}

Boot ==
  /\ ~up
  /\ up' = TRUE
  /\ row' = [d \in Decision |->
               IF d \in Swept THEN [row[d] EXCEPT !.status = "expired"]
                              ELSE row[d]]
  /\ late' = late \cup Swept
  /\ UNCHANGED <<overdue, call, promise, outcome, log>>

-----------------------------------------------------------------------------
Requester(d) ==
  \/ BeginWait(d)
  \/ Resume(d)
  \/ TimerFires(d)
  \/ FallbackWrites(d)
  \/ FallbackReads(d)
  \/ FallbackFails(d)

Next ==
  \/ \E d \in Decision : Requester(d) \/ DeadlinePasses(d)
  \/ \E d \in Decision, offered \in SUBSET Option, dflt \in Option \cup {None},
        source \in Actor \cup {None}, caller \in Caller :
          Open(d, offered, dflt, source, caller)
  \/ \E d \in Decision, a \in Actor : RespondLate(d, a)
  \/ \E d \in Decision, a \in Actor, option \in Option : Respond(d, a, option)
  \/ \E d \in Decision, by \in Actor \cup {SwitchDefault}, option \in Option :
        DieAfterWrite(d, option, by)
  \/ Crash
  \/ Boot

Spec == Init /\ [][Next]_vars

\* The event loop runs every continuation and every expired timer, and time
\* passes.  Nobody has to answer, and nothing obliges the daemon to crash or
\* to be restarted.
Fairness ==
  \A d \in Decision : WF_vars(Requester(d)) /\ WF_vars(DeadlinePasses(d))

FairSpec == Spec /\ Fairness

-----------------------------------------------------------------------------
(* Properties.                                                             *)

\* A requester that was told an option was told the recorded one, whichever
\* of the response, the timer and the fallback came first: the row is the
\* single truth an approval is acted on (decisions.ts, decision-gate.ts).
ToldIsRecorded ==
  \A d \in Decision : call[d] \in Told =>
    row[d].status = "responded" /\ outcome[d] = row[d].chosen

\* A requester never sleeps on a decision that is already answered: the
\* answer may land while the request is still being delivered, before the
\* listener is installed (persistence.ts, awaitDecisionResponse).
NoLostWakeup ==
  \A d \in Decision : call[d] = "waiting" => row[d].status = "open"

\* A recorded choice comes from an operator other than the requester, or it is
\* the default, written by the fallback no earlier than the deadline.
AnswerAuthorised ==
  \A d \in Decision : row[d].status = "responded" =>
    \/ /\ row[d].by \in Operator \ {row[d].source}
       /\ row[d].chosen \in row[d].offered
    \/ /\ row[d].by = SwitchDefault
       /\ row[d].chosen = row[d].dflt
       /\ d \in overdue

\* The event log announces at most one decision_response per decision, and it
\* is the one the row records.
LogAgrees ==
  \A d \in Decision : \A r \in log[d] :
    row[d].chosen = r.option /\ row[d].by = r.by

\* The boot sweep never closes a decision somebody still waits for, and closes
\* none before its deadline.
SweepIsSafe ==
  \A d \in Decision : row[d].status = "expired" =>
    d \in overdue /\ call[d] \notin Active

\* The row is the single truth of an answer: what the requester acts on and
\* what the log announces is what it records, and nobody sleeps on it, in every race of answer, timer,
\* fallback and crash (decisions.ts with respondToDecision).
OneAnswer == ToldIsRecorded /\ NoLostWakeup /\ LogAgrees

\* However a row was closed, it had the right: by an operator who may answer,
\* by the default at the deadline, or by the boot sweep when it was overdue and
\* nobody waited for it any more (respond-policy.ts, sweepExpiredDecisions).
ClosedRightly == AnswerAuthorised /\ SweepIsSafe

\* A closed row is final: no late answer, fallback or sweep rewrites it.
AnswerFinal ==
  [][\A d \in Decision :
       row[d].status \in {"responded", "expired"} => row'[d] = row[d]]_vars

\* No requester hangs: it is told something or its process dies.
RequesterReleased ==
  \A d \in Decision : call[d] \in Active ~> call[d] \notin Active

\* The rendezvous implements its promise: asked, settled and closed are read
\* off the row, heard off what the requester was told.
Promise == INSTANCE DecisionPromise WITH
  asked   <- {d \in Decision : row[d].status # "absent"},
  settled <- [d \in Decision |-> row[d].chosen],
  closed  <- {d \in Decision : row[d].status \in {"responded", "expired"}},
  heard   <- outcome

KeepsPromise == Promise!Spec
=============================================================================
