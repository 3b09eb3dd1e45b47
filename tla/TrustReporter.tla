--------------------------- MODULE TrustReporter ----------------------------
(***************************************************************************)
(* The trust reporter: it hears the events the broker published about      *)
(* scopes and publishes progress and, at the end of a scope, one           *)
(* trust_scope_completed.  An event reaches it only after the fan-out to   *)
(* the subscribers was awaited, so events arrive in any order and later    *)
(* than the store changes they tell of; between two awaits a handler of    *)
(* its own is suspended.  Entries, timers and suspended handlers die with  *)
(* the daemon; the store does not.                                         *)
(***************************************************************************)
EXTENDS TrustScopes

CONSTANTS
  Call,       \* gated calls that may run under a scope
  Revoker,    \* calls of the trust_scope_revoke tool
  act,        \* what each call does
  Cadences,   \* the reporting cadences scopes are proposed with
  Every,      \* actions between two reports of 'every-5-actions'
  NewCaps,    \* caps an extension may set
  MaxRestarts

Cadence == {"every-action", "every-5-actions", "every-15-min", "on-completion-only"}

ASSUME TrustReporterAssumption ==
  /\ act \in [Call -> Act]
  /\ Cadences \subseteq Cadence
  /\ Every \in Nat \ {0} /\ MaxRestarts \in Nat
  /\ NewCaps \subseteq Nat /\ None \notin Call \cup Revoker

VARIABLES
  cadence,   \* reporting.cadence of each scope
  at, under, \* where each call is, and the scope that covers it
  asking,    \* scopes whose grant an operator was asked for
  revoking,  \* revoke calls not made yet
  posted,    \* published events that have not reached the reporter
  entry,     \* state.granted: no entry, an entry, a finalized entry
  since,     \* actionsSinceLastReport
  timer,     \* scopes with an armed timer
  ticking,   \* scopes whose tick awaits the publication of its progress
  replying,  \* authorized-handlers that await the publication of theirs
  reports,   \* the trust_scope_completed events of each scope (history)
  restarts

callVars == <<at, under, asking, revoking>>
reporterVars == <<entry, since, timer, ticking, replying, reports>>
vars == <<storeVars, cadence, callVars, posted, reporterVars, restarts>>

Event == [kind : {"granted", "authorized", "revoked"}, scope : Scope,
          by : Call \cup Revoker \cup {None}]

Init ==
  /\ StoreInit
  /\ cadence \in [Scope -> Cadences]
  /\ at = [c \in Call |-> "idle"] /\ under = [c \in Call |-> None]
  /\ asking = {} /\ revoking = Revoker /\ posted = {}
  /\ entry = [s \in Scope |-> "none"] /\ since = [s \in Scope |-> 0]
  /\ timer = {} /\ ticking = {} /\ replying = {}
  /\ reports = [s \in Scope |-> <<>>]
  /\ restarts = 0

Post(kind, s, by) == posted' = posted \cup {[kind |-> kind, scope |-> s, by |-> by]}

-----------------------------------------------------------------------------
(* What is published about scopes.                                         *)

Propose(s, p) ==
  /\ CreateProposal(s, p)
  /\ UNCHANGED <<cadence, callVars, posted, reporterVars, restarts>>

\* The grant tool asks an operator, or the dashboard grants directly; an
\* approval announces the scope whatever became of it.
AskGrant(s) ==
  /\ scope[s].status = "proposed"
  /\ asking' = asking \cup {s}
  /\ UNCHANGED <<storeVars, cadence, at, under, revoking, posted, reporterVars, restarts>>

GrantScope(s) ==
  /\ s \in asking \/ scope[s].status = "proposed"
  /\ Grant(s)
  /\ asking' = asking \ {s}
  /\ Post("granted", s, None)
  /\ UNCHANGED <<cadence, at, under, revoking, reporterVars, restarts>>

\* The tool announces every revocation, also one that found the scope over.
RevokeByTool(s, r) ==
  /\ scope[s].status # "absent" /\ r \in revoking
  /\ Revoke(s)
  /\ revoking' = revoking \ {r}
  /\ Post("revoked", s, r)
  /\ UNCHANGED <<cadence, at, under, asking, reporterVars, restarts>>

\* The dashboard's event has no scope_id, so the reporter looks up nothing.
RevokeOnDashboard(s) ==
  /\ Revocable(s)
  /\ Revoke(s)
  /\ UNCHANGED <<cadence, callVars, posted, reporterVars, restarts>>

\* Deadlines pass, listing the scopes sweeps them, an operator approves an extension.
Change(s) ==
  /\ \/ Lapse(s)
     \/ SweepExpired
     \/ /\ Active(s)
        /\ \E later \in BOOLEAN, cap \in NewCaps \cup {None} : Extend(s, later, cap)
  /\ UNCHANGED <<cadence, callVars, posted, reporterVars, restarts>>

\* A gated call looks for a scope that covers it; what it asks an operator when
\* there is none does not concern the reporter.
Start(c) ==
  /\ at[c] = "idle"
  /\ FindActiveScope(act[c])
  /\ IF Found(act[c]) = {}
       THEN at' = [at EXCEPT ![c] = "done"] /\ UNCHANGED under
       ELSE /\ at' = [at EXCEPT ![c] = "running"]
            /\ \E i \in Found(act[c]) : under' = [under EXCEPT ![c] = granted[i]]
  /\ UNCHANGED <<cadence, asking, revoking, posted, reporterVars, restarts>>

Record(c) ==
  /\ at[c] = "running"
  /\ at' = [at EXCEPT ![c] = "done"]
  /\ RecordScopeAction(under[c])
  /\ Post("authorized", under[c], c)
  /\ UNCHANGED <<cadence, under, asking, revoking, reporterVars, restarts>>

ActionFails(c) ==
  /\ at[c] = "running"
  /\ at' = [at EXCEPT ![c] = "done"]
  /\ UNCHANGED <<storeVars, cadence, under, asking, revoking, posted, reporterVars, restarts>>

-----------------------------------------------------------------------------
(* What the reporter does about it.                                        *)

Watched(s) == entry[s] = "watched"
NeverFinal(s) == FALSE
Finalized(s) == entry[s] = "final"

\* onTerminal: a scope the reporter has no entry for is reported each time.
OnTerminal(s, reason) ==
  IF Finalized(s)
    THEN UNCHANGED <<entry, timer, reports>>
    ELSE /\ entry' = [entry EXCEPT ![s] = IF @ = "none" THEN "none" ELSE "final"]
         /\ timer' = timer \ {s}
         /\ reports' = [reports EXCEPT ![s] = Append(@,
              [reason |-> reason, life |-> restarts, known |-> entry[s] # "none"])]

Heard(e, kind) ==
  /\ e \in posted /\ e.kind = kind
  /\ posted' = posted \ {e}
  /\ UNCHANGED <<storeVars, cadence, callVars, restarts>>

OnGranted(e) ==
  /\ Heard(e, "granted")
  /\ IF entry[e.scope] = "none"
       THEN /\ entry' = [entry EXCEPT ![e.scope] = "watched"]
            /\ since' = [since EXCEPT ![e.scope] = 0]
            /\ timer' = IF cadence[e.scope] = "every-15-min" THEN timer \cup {e.scope} ELSE timer
       ELSE UNCHANGED <<entry, since, timer>>
  /\ UNCHANGED <<ticking, replying, reports>>

\* Is a progress report due at the n-th action, and is the scope over?
Due(s, n) ==
  \/ cadence[s] = "every-action"
  \/ cadence[s] = "every-5-actions" /\ n >= Every

Over(s) == scope[s].status = "completed"

\* Without an entry (a restart, or the grant's event is still on its way) the
\* scope is registered lazily, without a timer.
OnAuthorized(e) ==
  LET s == e.scope
      n == (IF entry[s] = "none" THEN 0 ELSE since[s]) + 1
  IN  /\ Heard(e, "authorized")
      /\ since' = [since EXCEPT ![s] = n]
      /\ IF Due(s, n)
           THEN replying' = replying \cup {[scope |-> s, by |-> e.by, over |-> Over(s)]}
           ELSE UNCHANGED replying
      /\ IF Over(s) /\ ~Due(s, n) /\ ~Finalized(s)
           THEN /\ entry' = [entry EXCEPT ![s] = "final"]
                /\ timer' = timer \ {s}
                /\ reports' = [reports EXCEPT ![s] = Append(@,
                     [reason |-> "action_cap_reached", life |-> restarts, known |-> TRUE])]
           ELSE /\ entry' = [entry EXCEPT ![s] = IF @ = "none" THEN "watched" ELSE @]
                /\ UNCHANGED <<timer, reports>>
      /\ UNCHANGED ticking

\* The progress is out: the handler goes on with the status it read before.
Replied(r) ==
  /\ r \in replying
  /\ replying' = replying \ {r}
  /\ since' = [since EXCEPT ![r.scope] = 0]
  /\ IF r.over THEN OnTerminal(r.scope, "action_cap_reached")
     ELSE UNCHANGED <<entry, timer, reports>>
  /\ UNCHANGED <<storeVars, cadence, callVars, posted, ticking, restarts>>

OnRevoked(e) ==
  /\ Heard(e, "revoked")
  /\ OnTerminal(e.scope, "revoked")
  /\ UNCHANGED <<since, ticking, replying>>

ReasonOf(status) ==
  IF status = "completed" THEN "action_cap_reached"
  ELSE IF status = "expired" THEN "expired" ELSE "revoked"

Tick(s) ==
  /\ s \in timer
  /\ IF ~Finalized(s) /\ ~Active(s)
       THEN OnTerminal(s, ReasonOf(scope[s].status))
       ELSE timer' = timer \ {s} /\ UNCHANGED <<entry, reports>>
  /\ ticking' = IF Finalized(s) \/ ~Active(s) THEN ticking ELSE ticking \cup {s}
  /\ UNCHANGED <<storeVars, cadence, callVars, posted, since, replying, restarts>>

\* The progress is out: the timer is armed again, whatever happened meanwhile.
TickOnce(s) ==
  /\ s \in ticking
  /\ ticking' = ticking \ {s}
  /\ since' = [since EXCEPT ![s] = 0]
  /\ UNCHANGED <<storeVars, cadence, callVars, posted, entry, timer, replying, reports, restarts>>

Ticked(s) ==
  /\ s \in ticking
  /\ ticking' = ticking \ {s}
  /\ since' = [since EXCEPT ![s] = 0]
  /\ timer' = timer \cup {s}
  /\ UNCHANGED <<storeVars, cadence, callVars, posted, entry, replying, reports, restarts>>

Restart ==
  /\ restarts < MaxRestarts
  /\ restarts' = restarts + 1
  /\ at' = [c \in Call |-> IF at[c] = "running" THEN "done" ELSE at[c]]
  /\ asking' = {} /\ posted' = {}
  /\ entry' = [s \in Scope |-> "none"] /\ since' = [s \in Scope |-> 0]
  /\ timer' = {} /\ ticking' = {} /\ replying' = {}
  /\ UNCHANGED <<storeVars, cadence, under, revoking, reports>>

-----------------------------------------------------------------------------
Hear(e) == OnGranted(e) \/ OnAuthorized(e) \/ OnRevoked(e)

Next ==
  \/ \E s \in Scope :
       \/ \E p \in Proposals : Propose(s, p)
       \/ AskGrant(s) \/ GrantScope(s) \/ RevokeOnDashboard(s) \/ Change(s)
       \/ \E r \in Revoker : RevokeByTool(s, r)
       \/ Tick(s) \/ Ticked(s)
  \/ \E c \in Call : Start(c) \/ Record(c) \/ ActionFails(c)
  \/ \E e \in posted : Hear(e)
  \/ \E r \in replying : Replied(r)
  \/ Restart

Spec == Init /\ [][Next]_vars

\* A fan-out is bounded by its subscribers' five seconds, timers fire, and the
\* process goes on with suspended handlers.
Fairness ==
  /\ \A e \in Event : WF_vars(Hear(e))
  /\ \A s \in Scope : WF_vars(Tick(s)) /\ WF_vars(Ticked(s))
  /\ \A s \in Scope, c \in Call, over \in BOOLEAN :
       WF_vars(Replied([scope |-> s, by |-> c, over |-> over]))

FairSpec == Spec /\ Fairness

-----------------------------------------------------------------------------
ReportsOf(s) == {reports[s][i] : i \in DOMAIN reports[s]}

\* Whatever an event or a suspended handler knew when it was made, a scope is
\* reported as over only once it is, and the cap or the deadline is given as
\* the reason only when it was.  A revoke, a last action and a tick may all find
\* it over: one daemon reports a scope it has an entry for at most once.
ReportsTrue ==
  \A s \in Scope :
    /\ \A r \in ReportsOf(s) :
         \/ r.reason = "action_cap_reached" /\ scope[s].status = "completed"
         \/ r.reason = "expired" /\ scope[s].status = "expired"
         \/ r.reason = "revoked" /\ scope[s].status \in Terminal
    /\ \A i, j \in DOMAIN reports[s] :
         reports[s][i].known /\ reports[s][j].known /\ reports[s][i].life = reports[s][j].life
           => i = j

\* A scope that ends is reported unless the daemon dies first: with any cadence
\* and after any restart when an action reached its cap and that action's event
\* is heard, and whichever way it ends (the silent ones, by the deadline, the
\* dashboard or a lookup that retires it, included) when the timer watches it.
EndsReported ==
  \A s \in Scope, n \in 0 .. MaxRestarts :
    (/\ restarts = n
     /\ \/ /\ scope[s].status = "completed"
           /\ \E e \in posted : e.scope = s /\ e.kind = "authorized"
        \/ s \in timer \cup ticking /\ scope[s].status \in Terminal)
      ~> (reports[s] # <<>> \/ restarts # n)
=============================================================================
