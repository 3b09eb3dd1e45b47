---------------------------- MODULE GatedActions ----------------------------
(***************************************************************************)
(* gatedAction: every CONFIRM-tier tool call goes through it.  A call that *)
(* an active trust scope covers runs at once and is charged to the scope   *)
(* when it returns; a no-go match, or no covering scope, asks the          *)
(* operator.  The decision rendezvous is taken at its abstract promise     *)
(* (DecisionPromise, which Decisions implements).                          *)
(*                                                                         *)
(* The lookup and the charge are on the two sides of the awaited action:   *)
(* other calls, a revoke, the clock or a crash come in between.            *)
(***************************************************************************)
EXTENDS TrustScopes, FiniteSets

CONSTANTS
  Call,      \* tool calls
  request,   \* what each call asks for
  NoGo,      \* the actions the no-go list matches
  NewCaps    \* action caps an extension may set

Request ==
  [kind : {"act"}, act : Act]
    \cup [kind : {"grant"}, scope : Scope]
    \cup [kind : {"extend"}, scope : Scope, later : BOOLEAN, cap : NewCaps \cup {None}]

ASSUME GatedActionsAssumption ==
  /\ request \in [Call -> Request]
  /\ NoGo \subseteq Act
  /\ NewCaps \subseteq Nat
  /\ None \notin {"approve", "reject"}
  /\ IsFiniteSet(Call)

VARIABLES
  pc,         \* where each call's handler is suspended, or how it ended
  via,        \* the scope a call runs under, None when it was asked for
  effect,     \* calls whose action took effect in the outside world
  asked, settled, closed, heard  \* the decisions: see DecisionPromise

promiseVars == <<asked, settled, closed, heard>>
callVars == <<pc, via, effect>>
vars == <<storeVars, callVars, promiseVars>>

Answer == {"approve", "reject"}

Promise == INSTANCE DecisionPromise WITH Decision <- Call, Option <- Answer

PC == {"idle", "warned", "deciding", "cleared", "acting", "acted",
       "done", "failed", "rejected", "refused", "lost"}
InFlight == {"warned", "deciding", "cleared", "acting", "acted"}
Ended == {"done", "failed", "rejected", "refused", "lost"}

\* Type invariant of the store, the calls and the decisions they use.
TypeOK ==
  /\ StoreTypeOK
  /\ pc \in [Call -> PC]
  /\ via \in [Call -> Scope \cup {None}]
  /\ effect \in SUBSET Call
  /\ asked \in SUBSET Call
  /\ settled \in [Call -> Answer \cup {None}]
  /\ closed \in SUBSET Call
  /\ heard \in [Call -> Answer \cup {None}]

Init ==
  /\ StoreInit
  /\ pc = [c \in Call |-> "idle"]
  /\ via = [c \in Call |-> None]
  /\ effect = {}
  /\ Promise!Init

Goto(c, l) == pc' = [pc EXCEPT ![c] = l]
Acts(c) == request[c].kind = "act"

-----------------------------------------------------------------------------
(* The handler of a call, from await to await.                             *)

\* No no-go match and a covering scope: performAction is started at once.
NeverBarred(c) == FALSE
Barred(c) == request[c].act \in NoGo

StartCovered(c) ==
  /\ pc[c] = "idle" /\ Acts(c)
  /\ ~Barred(c)
  /\ \E i \in Found(request[c].act) : via' = [via EXCEPT ![c] = granted[i]]
  /\ FindActiveScope(request[c].act)
  /\ Goto(c, "acting")
  /\ UNCHANGED <<effect, promiseVars>>

\* No scope covers it: createDecision, and the handler waits.
StartUncovered(c) ==
  /\ pc[c] = "idle" /\ Acts(c)
  /\ ~Barred(c)
  /\ Found(request[c].act) = {}
  /\ FindActiveScope(request[c].act)
  /\ Promise!Ask(c)
  /\ Goto(c, "deciding")
  /\ UNCHANGED <<via, effect>>

\* A no-go match looks the scope up for the audit event only.
StartBarred(c) ==
  /\ pc[c] = "idle" /\ Acts(c)
  /\ Barred(c)
  /\ FindActiveScope(request[c].act)
  /\ Goto(c, "warned")
  /\ UNCHANGED <<via, effect, promiseVars>>

\* no_go_match is delivered; then the decision is opened.
AskBarred(c) ==
  /\ pc[c] = "warned"
  /\ Promise!Ask(c)
  /\ Goto(c, "deciding")
  /\ UNCHANGED <<storeVars, via, effect>>

\* trust_scope_grant and trust_scope_extend check the row, then ask.
Admissible(c) ==
  scope[request[c].scope].status =
    IF request[c].kind = "grant" THEN "proposed" ELSE "active"

StartScopeTool(c) ==
  /\ pc[c] = "idle" /\ ~Acts(c)
  /\ IF Admissible(c)
       THEN Goto(c, "deciding") /\ Promise!Ask(c)
       ELSE Goto(c, "refused") /\ UNCHANGED promiseVars
  /\ UNCHANGED <<storeVars, via, effect>>

\* The timer settles an open decision with its default, reject; once an
\* answer landed, the row's answer is what counts.
NeverTimesOut(c) == FALSE
LateTimeout(c) == pc[c] = "deciding"
MayTimeOut(c) == pc[c] = "deciding" /\ c \notin closed

TimeOut(c) ==
  /\ MayTimeOut(c)
  /\ settled' = [settled EXCEPT ![c] = "reject"]
  /\ closed' = closed \cup {c}
  /\ heard' = [heard EXCEPT ![c] = "reject"]
  /\ Goto(c, "rejected")
  /\ UNCHANGED <<storeVars, via, effect, asked>>

HearReject(c) ==
  /\ pc[c] = "deciding" /\ settled[c] = "reject"
  /\ Promise!Hear(c)
  /\ Goto(c, "rejected")
  /\ UNCHANGED <<storeVars, via, effect>>

\* An approved action starts at once, or, after a no-go match, when
\* no_go_authorized was delivered.
HearApprove(c) ==
  /\ pc[c] = "deciding" /\ Acts(c) /\ settled[c] = "approve"
  /\ Promise!Hear(c)
  /\ Goto(c, IF Barred(c) THEN "cleared" ELSE "acting")
  /\ UNCHANGED <<storeVars, via, effect>>

Cleared(c) ==
  /\ pc[c] = "cleared"
  /\ Goto(c, "acting")
  /\ UNCHANGED <<storeVars, via, effect, promiseVars>>

\* The approved grant or extension runs synchronously, on whatever the scope
\* has become meanwhile.
ApplyGrant(c) ==
  /\ pc[c] = "deciding" /\ request[c].kind = "grant" /\ settled[c] = "approve"
  /\ Promise!Hear(c)
  /\ Grant(request[c].scope)
  /\ Goto(c, "done")
  /\ UNCHANGED <<via, effect>>

ApplyExtend(c) ==
  /\ pc[c] = "deciding" /\ request[c].kind = "extend" /\ settled[c] = "approve"
  /\ Promise!Hear(c)
  /\ Extend(request[c].scope, request[c].later, request[c].cap)
  /\ Goto(c, "done")
  /\ UNCHANGED <<via, effect>>

\* The action reaches the outside world while the handler is suspended ...
TakeEffect(c) ==
  /\ pc[c] = "acting"
  /\ effect' = effect \cup {c}
  /\ Goto(c, "acted")
  /\ UNCHANGED <<storeVars, via, promiseVars>>

\* ... and may still be reported as failed: gh_failed, and no charge ...
Fail(c) ==
  /\ pc[c] \in {"acting", "acted"}
  /\ Goto(c, "failed")
  /\ UNCHANGED <<storeVars, via, effect, promiseVars>>

\* ... or returns, and is charged to the scope looked up before it started.
ReturnCovered(c) ==
  /\ pc[c] = "acted" /\ via[c] # None
  /\ RecordScopeAction(via[c])
  /\ Goto(c, "done")
  /\ UNCHANGED <<via, effect, promiseVars>>

ReturnAsked(c) ==
  /\ pc[c] = "acted" /\ via[c] = None
  /\ Goto(c, "done")
  /\ UNCHANGED <<storeVars, via, effect, promiseVars>>

-----------------------------------------------------------------------------
(* The operator, the clock and the process.                                *)

Respond(c, o) ==
  /\ Promise!Settle(c, o)
  /\ UNCHANGED <<heard, storeVars, callVars>>

Propose(s, p) ==
  /\ CreateProposal(s, p)
  /\ UNCHANGED <<callVars, promiseVars>>

\* The dashboard and the notification reply grant without a decision.
GrantDirectly(s) ==
  /\ scope[s].status = "proposed"
  /\ Grant(s)
  /\ UNCHANGED <<callVars, promiseVars>>

RevokeScope(s) ==
  /\ scope[s].status # "absent"
  /\ Revoke(s)
  /\ UNCHANGED <<callVars, promiseVars>>

ExtendDirectly(s, later, cap) ==
  /\ Active(s)
  /\ Extend(s, later, cap)
  /\ UNCHANGED <<callVars, promiseVars>>

Clock ==
  /\ SweepExpired \/ \E s \in Scope : Lapse(s)
  /\ UNCHANGED <<callVars, promiseVars>>

\* The daemon dies and boots again: handlers are gone, rows are kept, and
\* the boot sweep closes the decisions that are overdue by then.
Restart ==
  /\ pc' = [c \in Call |-> IF pc[c] \in InFlight THEN "lost" ELSE pc[c]]
  /\ \E D \in SUBSET (asked \ closed) : Promise!Abandon(D)
  /\ UNCHANGED <<storeVars, via, effect>>

Handler(c) ==
  \/ AskBarred(c) \/ TimeOut(c) \/ HearReject(c) \/ HearApprove(c) \/ Cleared(c)
  \/ ApplyGrant(c) \/ ApplyExtend(c)
  \/ TakeEffect(c) \/ Fail(c) \/ ReturnCovered(c) \/ ReturnAsked(c)

Start(c) == StartCovered(c) \/ StartUncovered(c) \/ StartBarred(c) \/ StartScopeTool(c)

Console ==
  \/ \E c \in Call, o \in Answer : Respond(c, o)
  \/ \E s \in Scope, p \in Proposals : Propose(s, p)
  \/ \E s \in Scope : GrantDirectly(s) \/ RevokeScope(s)
  \/ \E s \in Scope, later \in BOOLEAN, cap \in NewCaps \cup {None} :
       ExtendDirectly(s, later, cap)

Next ==
  \/ \E c \in Call : Start(c) \/ Handler(c)
  \/ Console
  \/ Clock
  \/ Restart

Spec == Init /\ [][Next]_vars

\* Timers fire and awaited actions return or fail; nobody has to start a
\* call, answer a decision, or crash.
FairSpec == Spec /\ \A c \in Call : WF_vars(Handler(c))

-----------------------------------------------------------------------------
(* Properties.                                                             *)

\* Whatever took effect was authorised: by an operator's approval of this
\* very call, or by a granted scope whose terms cover it, and never by a
\* scope when the no-go list matches (gatedAction's two short circuits).
Authorised ==
  \A c \in effect :
    IF via[c] = None
      THEN settled[c] = "approve"
      ELSE /\ request[c].act \notin NoGo
           /\ Covers(via[c], request[c].act)
           /\ \E i \in DOMAIN granted : granted[i] = via[c]

\* The charge of a scope is exactly the calls that came back under it, also
\* those that came back after it was revoked, extended or completed.
LedgerComplete ==
  \A s \in Scope : scope[s].used = Cardinality({c \in Call : pc[c] = "done" /\ via[c] = s})

\* A revoked, expired or completed scope stays what it is, although charges,
\* sweeps, grants and extensions decided earlier are still on their way.
Finality ==
  [][\A s \in Scope :
       scope[s].status \in Terminal => scope'[s].status = scope[s].status]_vars

\* A call that starts under a scope finds it active, in time and below its
\* cap, also when the cap was lowered by an extension.
StartsWithinBounds ==
  [][\A c \in Call : via'[c] # via[c] =>
        /\ Active(via'[c])
        /\ via'[c] \notin lapsed
        /\ ~Spent(via'[c])]_vars

\* A scope is obeyed while calls, charges, extensions and revocations race for
\* it: its end is final, and nothing starts under it out of its bounds
\* (store.ts, recordScopeAction and findActiveScopeFor).
ScopesObeyed == Finality /\ StartsWithinBounds

\* Decisions are used as DecisionPromise promises: asked once, settled once.
PromiseKept == Promise!Spec

\* Every call that started ends, whatever the operator does.
CallsEnd == \A c \in Call : pc[c] \in InFlight ~> pc[c] \in Ended
=============================================================================
