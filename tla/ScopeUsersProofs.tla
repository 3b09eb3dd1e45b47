-------------------------- MODULE ScopeUsersProofs ---------------------------
(***************************************************************************)
(* The components that follow a trust scope through its life, for any set  *)
(* of scopes, calls, operators' revokes and plans, and for any bounds: the *)
(* reporter tells of a scope what is so and one daemon tells it once; the  *)
(* executor runs the steps of a BOM in order, within their tries, and      *)
(* leaves no scope open; a host command that was answered is over and      *)
(* charged once.  What the table of scopes may do comes from               *)
(* TrustScopesProofs.                                                      *)
(***************************************************************************)
EXTENDS MCScopeUsers, TrustScopesProofs, SequenceTheorems

-----------------------------------------------------------------------------
(* The trust reporter.                                                     *)

Report == [reason : {"action_cap_reached", "expired", "revoked"}, life : Nat,
           known : BOOLEAN]

ReporterTypeOK ==
  /\ at \in [Call -> {"idle", "running", "done"}]
  /\ under \in [Call -> Scope \cup {None}]
  /\ asking \in SUBSET Scope
  /\ posted \in SUBSET Event
  /\ entry \in [Scope -> {"none", "watched", "final"}]
  /\ timer \in SUBSET Scope /\ ticking \in SUBSET Scope
  /\ replying \in SUBSET [scope : Scope, by : Call \cup Revoker \cup {None}, over : BOOLEAN]
  /\ reports \in [Scope -> Seq(Report)]
  /\ restarts \in Nat

\* The scope was granted, or is over.
Past(s) == scope[s].status \notin Pending

\* What calls, events under way, timers and suspended handlers take for granted
\* about their scopes.
InStep ==
  /\ \A s \in asking : scope[s].status # "absent"
  /\ \A c \in Call : at[c] = "running" => under[c] \in Scope /\ Past(under[c])
  /\ \A e \in posted :
       /\ e.kind = "granted" => Past(e.scope)
       /\ e.kind = "revoked" => scope[e.scope].status \in Terminal
  /\ \A s \in timer \cup ticking : Past(s)
  /\ \A r \in replying : r.over => scope[r.scope].status = "completed"

\* The report's reason is the one the row gives.
Fits(r, s) ==
  \/ r.reason = "action_cap_reached" /\ scope[s].status = "completed"
  \/ r.reason = "expired" /\ scope[s].status = "expired"
  \/ r.reason = "revoked" /\ scope[s].status \in Terminal

\* What was reported fits, and an entry of this life that was reported is final:
\* the second report of one life would need an entry that is not.
Reported ==
  \A s \in Scope :
    /\ \A i \in DOMAIN reports[s] :
         /\ Fits(reports[s][i], s)
         /\ reports[s][i].life <= restarts
         /\ reports[s][i].known /\ reports[s][i].life = restarts => entry[s] = "final"
    /\ \A i, j \in DOMAIN reports[s] :
         reports[s][i].known /\ reports[s][j].known /\ reports[s][i].life = reports[s][j].life
           => i = j

ReporterInv == StoreInv /\ ReporterTypeOK /\ InStep /\ Reported


LEMMA Standing ==
  ASSUME StoreInv, Evolves, NEW s \in Scope
  PROVE  /\ scope[s].status # "absent" => scope'[s].status # "absent"
         /\ Past(s) => scope'[s].status \notin Pending
         /\ scope[s].status \in Terminal => scope'[s].status = scope[s].status
BY DEF Evolves, EvolvesBut, Past

LEMMA StoreGoesOn ==
  ASSUME Evolves
  PROVE  StoreInv'
BY DEF Evolves, EvolvesBut, StoreInv

\* A report that was true stays true.
LEMMA FitsStill ==
  ASSUME StoreInv, Evolves, NEW s \in Scope, NEW r, Fits(r, s)
  PROVE  Fits(r, s)'
BY Standing DEF Fits, Terminal

LEMMA ReportsKept ==
  ASSUME ReporterInv, Evolves, UNCHANGED <<reports, restarts>>,
         \A s \in Scope : entry[s] = "final" => entry'[s] = "final"
  PROVE  Reported'
<1> SUFFICES ASSUME NEW s \in Scope
             PROVE  /\ \A i \in DOMAIN reports[s] :
                         /\ Fits(reports[s][i], s)'
                         /\ reports[s][i].life <= restarts
                         /\ reports[s][i].known /\ reports[s][i].life = restarts =>
                              entry'[s] = "final"
                    /\ \A i, j \in DOMAIN reports[s] :
                         reports[s][i].known /\ reports[s][j].known
                           /\ reports[s][i].life = reports[s][j].life => i = j
  BY DEF Reported, Fits
<1>1. ASSUME NEW i \in DOMAIN reports[s] PROVE Fits(reports[s][i], s)'
  <2> DEFINE r == reports[s][i]
  <2>1. PICK q : q = r
    OBVIOUS
  <2>2. Fits(q, s)
    BY <2>1 DEF ReporterInv, Reported
  <2>3. Fits(q, s)'
    BY <2>2, FitsStill DEF ReporterInv
  <2> QED
    BY <2>1, <2>3 DEF Fits
<1> QED
  BY <1>1 DEF ReporterInv, Reported

\* One more report, of a scope that was not finalized.
LEMMA ReportAdded ==
  ASSUME ReporterInv, Evolves, restarts' = restarts,
         NEW s \in Scope, NEW r \in Report, Fits(r, s), r.life = restarts,
         reports' = [reports EXCEPT ![s] = Append(@, r)],
         entry[s] # "final", r.known => entry'[s] = "final",
         \A t \in Scope : entry[t] = "final" => entry'[t] = "final"
  PROVE  Reported' /\ reports' \in [Scope -> Seq(Report)]
<1>1. reports \in [Scope -> Seq(Report)] /\ restarts \in Nat
  BY DEF ReporterInv, ReporterTypeOK
<1>2. /\ reports' \in [Scope -> Seq(Report)]
      /\ Len(reports'[s]) = Len(reports[s]) + 1
      /\ \A i \in DOMAIN reports[s] : reports'[s][i] = reports[s][i]
      /\ reports'[s][Len(reports[s]) + 1] = r
      /\ \A t \in Scope \ {s} : reports'[t] = reports[t]
  BY <1>1
<1>3. \A i \in DOMAIN reports'[s] : i \in DOMAIN reports[s] \/ i = Len(reports[s]) + 1
  BY <1>1, <1>2
<1>4. ASSUME NEW t \in Scope, NEW i \in DOMAIN reports[t]
      PROVE  \A q : q = reports[t][i] =>
               /\ Fits(q, t)'
               /\ q.life <= restarts
               /\ q.known /\ q.life = restarts => entry[t] = "final"
  <2> SUFFICES ASSUME NEW q, q = reports[t][i]
               PROVE  /\ Fits(q, t)'
                      /\ q.life <= restarts
                      /\ q.known /\ q.life = restarts => entry[t] = "final"
    OBVIOUS
  <2>2. /\ Fits(q, t)
        /\ q.life <= restarts
        /\ q.known /\ q.life = restarts => entry[t] = "final"
    BY DEF ReporterInv, Reported
  <2>3. Fits(q, t)'
    BY <2>2, FitsStill DEF ReporterInv
  <2> QED
    BY <2>2, <2>3
<1>5. Fits(r, s)'
  BY FitsStill DEF ReporterInv
<1>6. ASSUME NEW t \in Scope, NEW i \in DOMAIN reports'[t], NEW q, q = reports'[t][i]
      PROVE  /\ Fits(q, t)'
             /\ q.life <= restarts
             /\ q.known /\ q.life = restarts => entry'[t] = "final"
  <2>1. CASE t = s /\ i = Len(reports[s]) + 1
    <3>1. q = r
      BY <1>2, <1>6, <2>1
    <3> QED
      BY <1>1, <1>5, <2>1, <3>1 DEF Fits
  <2>2. CASE i \in DOMAIN reports[t] /\ reports'[t][i] = reports[t][i]
    <3>1. q = reports[t][i]
      BY <1>6, <2>2
    <3> QED
      BY <1>4, <2>2, <3>1
  <2> QED
    BY <1>2, <1>3, <2>1, <2>2
<1>7. ASSUME NEW t \in Scope, NEW i \in DOMAIN reports'[t], NEW j \in DOMAIN reports'[t],
             reports'[t][i].known, reports'[t][j].known,
             reports'[t][i].life = reports'[t][j].life
      PROVE  i = j
  <2>1. CASE t # s
    BY <1>2, <1>7, <2>1 DEF ReporterInv, Reported
  <2>2. CASE t = s /\ i \in DOMAIN reports[s] /\ j \in DOMAIN reports[s]
    BY <1>2, <1>7, <2>2 DEF ReporterInv, Reported
  <2>3. CASE t = s /\ i \in DOMAIN reports[s] /\ j = Len(reports[s]) + 1
    BY <1>2, <1>4, <1>7, <2>3
  <2>4. CASE t = s /\ i = Len(reports[s]) + 1 /\ j \in DOMAIN reports[s]
    BY <1>2, <1>4, <1>7, <2>4
  <2> QED
    BY <1>3, <2>1, <2>2, <2>3, <2>4
<1>8. Reported'
  <2> SUFFICES ASSUME NEW t \in Scope, NEW i \in DOMAIN reports'[t]
               PROVE  \E q : /\ q = reports'[t][i]
                             /\ Fits(q, t)'
                             /\ q.life <= restarts
                             /\ q.known /\ q.life = restarts => entry'[t] = "final"
    BY <1>7 DEF Reported, Fits
  <2> QED
    BY <1>6
<1> QED
  BY <1>2, <1>8

\* What is known of the scopes that calls, events, timers and suspended
\* handlers name survives a step that adds none.
LEMMA InStepKept ==
  ASSUME ReporterInv, Evolves, asking' \subseteq asking, posted' \subseteq posted,
         timer' \subseteq timer, ticking' \subseteq ticking, replying' \subseteq replying,
         \A c \in Call : at'[c] = "running" => at[c] = "running" /\ under'[c] = under[c]
  PROVE  InStep'
<1>1. StoreInv /\ ReporterTypeOK /\ InStep
  BY DEF ReporterInv
<1>2. \A s \in asking' : scope'[s].status # "absent"
  BY <1>1, Standing DEF InStep, ReporterTypeOK
<1>3. \A c \in Call : at'[c] = "running" => under'[c] \in Scope /\ scope'[under'[c]].status \notin Pending
  BY <1>1, Standing DEF InStep, ReporterTypeOK, Past
<1>4. ASSUME NEW e \in posted'
      PROVE  /\ e.kind = "granted" => scope'[e.scope].status \notin Pending
             /\ e.kind = "revoked" => scope'[e.scope].status \in Terminal
  <2>1. e \in posted /\ e.scope \in Scope
    BY <1>1 DEF ReporterTypeOK, Event
  <2> QED
    BY <1>1, <2>1, Standing DEF InStep, Past
<1>5. \A s \in timer' \cup ticking' : scope'[s].status \notin Pending
  BY <1>1, Standing DEF InStep, ReporterTypeOK, Past
<1>6. ASSUME NEW r \in replying', r.over PROVE scope'[r.scope].status = "completed"
  <2>1. r \in replying /\ r.scope \in Scope
    BY <1>1 DEF ReporterTypeOK
  <2>2. scope[r.scope].status = "completed"
    BY <1>1, <1>6, <2>1 DEF InStep
  <2> QED
    BY <1>1, <2>1, <2>2, Standing DEF Terminal
<1> QED
  BY <1>2, <1>3, <1>4, <1>5, <1>6 DEF InStep, Past

\* A step that changes the table and nothing else.
LEMMA StoreStep ==
  ASSUME ReporterInv, Evolves, UNCHANGED <<callVars, posted, reporterVars, restarts>>
  PROVE  ReporterInv'
<1>1. StoreInv'
  BY StoreGoesOn
<1>2. Reported'
  BY ReportsKept DEF reporterVars
<1>3. InStep'
  BY InStepKept DEF reporterVars, callVars
<1>4. ReporterTypeOK'
  BY DEF ReporterInv, ReporterTypeOK, reporterVars, callVars
<1> QED
  BY <1>1, <1>2, <1>3, <1>4 DEF ReporterInv

LEMMA ChangeStep ==
  ASSUME ReporterInv, NEW s \in Scope, Change(s)
  PROVE  ReporterInv'
<1>1. StoreInv
  BY DEF ReporterInv
<1>2. CASE Lapse(s)
  BY <1>1, <1>2, LapseEvolves, StoreStep DEF Change
<1>3. CASE SweepExpired
  BY <1>1, <1>3, SweepEvolves, StoreStep DEF Change
<1>4. CASE \E later \in BOOLEAN, cap \in NewCaps \cup {None} : Extend(s, later, cap)
  <2>1. PICK later \in BOOLEAN, cap \in NewCaps \cup {None} : Extend(s, later, cap)
    BY <1>4
  <2>2. cap \in Nat \cup {None}
    BY TrustReporterAssumption
  <2> QED
    BY <1>1, <2>1, <2>2, ExtendEvolves, StoreStep DEF Change
<1> QED
  BY <1>2, <1>3, <1>4 DEF Change

LEMMA AskStep ==
  ASSUME ReporterInv, NEW s \in Scope, AskGrant(s)
  PROVE  ReporterInv'
<1>1. UNCHANGED <<scope, granted, lapsed>> /\ StoreInv
  BY DEF AskGrant, storeVars, ReporterInv
<1>2. Evolves
  BY <1>1, StoreStutter DEF storeVars
<1>3. StoreInv'
  BY <1>2, StoreGoesOn
<1>4. Reported'
  BY <1>2, ReportsKept DEF AskGrant, reporterVars
<1>5. ReporterTypeOK'
  BY DEF AskGrant, ReporterInv, ReporterTypeOK, reporterVars
<1>6. InStep'
  BY <1>1 DEF AskGrant, ReporterInv, InStep, Past, reporterVars
<1> QED
  BY <1>3, <1>4, <1>5, <1>6 DEF ReporterInv

\* An event is published: what it says of its scope holds.
LEMMA PostedInStep ==
  ASSUME ReporterInv, Evolves, NEW kind, NEW s \in Scope, NEW by, Post(kind, s, by),
         kind = "granted" => scope'[s].status \notin Pending,
         kind = "revoked" => scope'[s].status \in Terminal,
         asking' \subseteq asking, UNCHANGED reporterVars,
         \A c \in Call : at'[c] = "running" => at[c] = "running" /\ under'[c] = under[c]
  PROVE  InStep'
<1>1. StoreInv /\ ReporterTypeOK /\ InStep
  BY DEF ReporterInv
<1>2. \A t \in asking' : scope'[t].status # "absent"
  BY <1>1, Standing DEF InStep, ReporterTypeOK
<1>3. \A c \in Call : at'[c] = "running" => under'[c] \in Scope /\ scope'[under'[c]].status \notin Pending
  BY <1>1, Standing DEF InStep, ReporterTypeOK, Past
<1>4. ASSUME NEW e \in posted'
      PROVE  /\ e.kind = "granted" => scope'[e.scope].status \notin Pending
             /\ e.kind = "revoked" => scope'[e.scope].status \in Terminal
  <2>1. CASE e \in posted
    <3>1. e.scope \in Scope
      BY <1>1, <2>1 DEF ReporterTypeOK, Event
    <3> QED
      BY <1>1, <2>1, <3>1, Standing DEF InStep, Past
  <2>2. CASE e = [kind |-> kind, scope |-> s, by |-> by]
    BY <2>2
  <2> QED
    BY <2>1, <2>2 DEF Post
<1>5. \A t \in timer' \cup ticking' : scope'[t].status \notin Pending
  BY <1>1, Standing DEF InStep, ReporterTypeOK, Past, reporterVars
<1>6. ASSUME NEW r \in replying', r.over PROVE scope'[r.scope].status = "completed"
  <2>1. r \in replying /\ r.scope \in Scope
    BY <1>1 DEF ReporterTypeOK, reporterVars
  <2>2. scope[r.scope].status = "completed"
    BY <1>1, <1>6, <2>1 DEF InStep
  <2> QED
    BY <1>1, <2>1, <2>2, Standing DEF Terminal
<1> QED
  BY <1>2, <1>3, <1>4, <1>5, <1>6 DEF InStep, Past

LEMMA GrantScopeStep ==
  ASSUME ReporterInv, NEW s \in Scope, GrantScope(s)
  PROVE  ReporterInv'
<1>1. StoreInv /\ ReporterTypeOK /\ Grant(s) /\ scope[s].status # "absent"
  BY DEF GrantScope, ReporterInv, InStep
<1>2. Evolves
  BY <1>1, GrantEvolves
<1>3. scope'[s].status \notin Pending
  <2>1. CASE scope[s].status = "proposed"
    BY <1>1, <2>1 DEF Grant, StoreInv, StoreTypeOK, Pending, ScopeRow
  <2>2. CASE scope[s].status # "proposed"
    BY <1>1, <2>2 DEF Grant, storeVars, Pending
  <2> QED
    BY <2>1, <2>2
<1>4. InStep'
  BY <1>2, <1>3, PostedInStep DEF GrantScope
<1>5. Reported'
  BY <1>2, ReportsKept DEF GrantScope, reporterVars
<1>6. ReporterTypeOK'
  BY <1>1 DEF GrantScope, ReporterTypeOK, reporterVars, Post, Event
<1> QED
  BY <1>2, <1>4, <1>5, <1>6, StoreGoesOn DEF ReporterInv

LEMMA RevokeByToolStep ==
  ASSUME ReporterInv, NEW s \in Scope, NEW r \in Revoker, RevokeByTool(s, r)
  PROVE  ReporterInv'
<1>1. StoreInv /\ ReporterTypeOK /\ Revoke(s) /\ scope[s].status # "absent"
  BY DEF RevokeByTool, ReporterInv
<1>2. Evolves
  BY <1>1, RevokeEvolves
<1>3. scope'[s].status \in Terminal
  BY <1>1 DEF Revoke, Revocable, StoreInv, StoreTypeOK, ScopeRow, Status, Terminal
<1>4. InStep'
  BY <1>2, <1>3, PostedInStep DEF RevokeByTool
<1>5. Reported'
  BY <1>2, ReportsKept DEF RevokeByTool, reporterVars
<1>6. ReporterTypeOK'
  BY <1>1 DEF RevokeByTool, ReporterTypeOK, reporterVars, Post, Event
<1> QED
  BY <1>2, <1>4, <1>5, <1>6, StoreGoesOn DEF ReporterInv

-----------------------------------------------------------------------------
(* Gated calls.                                                            *)

LEMMA StartStep ==
  ASSUME ReporterInv, NEW c \in Call, Start(c)
  PROVE  ReporterInv'
<1>1. StoreInv /\ ReporterTypeOK /\ InStep /\ act[c] \in Act
  BY TrustReporterAssumption DEF ReporterInv
<1>2. Evolves
  BY <1>1, FindEvolves DEF Start
<1>3. Reported'
  BY <1>2, ReportsKept DEF Start, reporterVars
<1>4. /\ asking' = asking /\ posted' = posted /\ timer' = timer /\ ticking' = ticking
      /\ replying' = replying
  BY DEF Start, reporterVars
<1>5. CASE Found(act[c]) = {}
  <2>1. at' = [at EXCEPT ![c] = "done"] /\ under' = under
    BY <1>5 DEF Start
  <2>2. InStep'
    BY <1>1, <1>2, <1>4, <2>1, InStepKept DEF ReporterTypeOK
  <2>3. ReporterTypeOK'
    BY <1>1, <2>1 DEF Start, ReporterTypeOK, reporterVars
  <2> QED
    BY <1>2, <1>3, <2>2, <2>3, StoreGoesOn DEF ReporterInv
<1>6. CASE Found(act[c]) # {}
  <2>1. PICK i \in Found(act[c]) : under' = [under EXCEPT ![c] = granted[i]]
    BY <1>6 DEF Start
  <2>2. at' = [at EXCEPT ![c] = "running"]
    BY <1>6 DEF Start
  <2>3. i \in DOMAIN granted /\ granted[i] \in Scope /\ scope[granted[i]].status \notin Pending
    BY <1>1 DEF Found, Hits, StoreInv, StoreTypeOK, GrantedRows
  <2>4. /\ \A d \in Call \ {c} : at'[d] = at[d] /\ under'[d] = under[d]
        /\ under'[c] = granted[i]
    BY <1>1, <2>1, <2>2 DEF ReporterTypeOK
  <2>5. ReporterTypeOK'
    BY <1>1, <2>1, <2>2, <2>3 DEF Start, ReporterTypeOK, reporterVars
  <2>6. ASSUME NEW d \in Call, at'[d] = "running"
        PROVE  under'[d] \in Scope /\ scope'[under'[d]].status \notin Pending
    <3>1. CASE d = c
      BY <1>1, <1>2, <2>3, <2>4, <3>1, Standing DEF Past
    <3>2. CASE d # c
      BY <1>1, <1>2, <2>4, <2>6, <3>2, Standing DEF Past, InStep
    <3> QED
      BY <3>1, <3>2
  <2>7. /\ \A s \in asking' : scope'[s].status # "absent"
        /\ \A s \in timer' \cup ticking' : scope'[s].status \notin Pending
    BY <1>1, <1>2, <1>4, Standing DEF InStep, ReporterTypeOK, Past
  <2>8. ASSUME NEW e \in posted'
        PROVE  /\ e.kind = "granted" => scope'[e.scope].status \notin Pending
               /\ e.kind = "revoked" => scope'[e.scope].status \in Terminal
    <3>1. e \in posted /\ e.scope \in Scope
      BY <1>1, <1>4 DEF ReporterTypeOK, Event
    <3> QED
      BY <1>1, <1>2, <3>1, Standing DEF InStep, Past
  <2>9. ASSUME NEW r \in replying', r.over PROVE scope'[r.scope].status = "completed"
    <3>1. r \in replying /\ r.scope \in Scope /\ scope[r.scope].status = "completed"
      BY <1>1, <1>4, <2>9 DEF ReporterTypeOK, InStep
    <3> QED
      BY <1>1, <1>2, <3>1, Standing DEF Terminal
  <2>10. InStep'
    BY <2>6, <2>7, <2>8, <2>9 DEF InStep, Past
  <2> QED
    BY <1>2, <1>3, <2>5, <2>10, StoreGoesOn DEF ReporterInv
<1> QED
  BY <1>5, <1>6

LEMMA RecordStep ==
  ASSUME ReporterInv, NEW c \in Call, Record(c)
  PROVE  ReporterInv'
<1>1. StoreInv /\ ReporterTypeOK /\ InStep
  BY DEF ReporterInv
<1>2. under[c] \in Scope /\ scope[under[c]].status # "absent"
  BY <1>1 DEF Record, InStep, Past, Pending
<1>3. Evolves
  BY <1>1, <1>2, RecordEvolves DEF Record
<1>4. at' = [at EXCEPT ![c] = "done"] /\ under' = under /\ asking' = asking
  BY DEF Record
<1>5. InStep'
  BY <1>1, <1>2, <1>3, <1>4, PostedInStep DEF Record, ReporterTypeOK
<1>6. Reported'
  BY <1>3, ReportsKept DEF Record, reporterVars
<1>7. ReporterTypeOK'
  BY <1>1, <1>2, <1>4 DEF Record, ReporterTypeOK, reporterVars, Post, Event
<1> QED
  BY <1>3, <1>5, <1>6, <1>7, StoreGoesOn DEF ReporterInv

LEMMA FailsStep ==
  ASSUME ReporterInv, NEW c \in Call, ActionFails(c)
  PROVE  ReporterInv'
<1>1. StoreInv /\ ReporterTypeOK
  BY DEF ReporterInv
<1>2. Evolves
  BY <1>1, StoreStutter DEF ActionFails
<1>3. at' = [at EXCEPT ![c] = "done"] /\ under' = under
  BY DEF ActionFails
<1>4. InStep'
  BY <1>1, <1>2, <1>3, InStepKept DEF ActionFails, ReporterTypeOK, reporterVars
<1>5. Reported'
  BY <1>2, ReportsKept DEF ActionFails, reporterVars
<1>6. ReporterTypeOK'
  BY <1>1, <1>3 DEF ActionFails, ReporterTypeOK, reporterVars
<1> QED
  BY <1>2, <1>4, <1>5, <1>6, StoreGoesOn DEF ReporterInv

-----------------------------------------------------------------------------
(* The reporter's handlers and timers.                                     *)

\* onTerminal reports once what is so.
LEMMA TerminalReported ==
  ASSUME ReporterInv, UNCHANGED <<storeVars, restarts>>, NEW s \in Scope,
         NEW reason \in {"action_cap_reached", "expired", "revoked"},
         Fits([reason |-> reason, life |-> restarts, known |-> entry[s] # "none"], s),
         OnTerminal(s, reason)
  PROVE  /\ Evolves
         /\ Reported'
         /\ reports' \in [Scope -> Seq(Report)]
         /\ entry' \in [Scope -> {"none", "watched", "final"}]
         /\ timer' \subseteq timer
<1> DEFINE r == [reason |-> reason, life |-> restarts, known |-> entry[s] # "none"]
<1>1. StoreInv /\ ReporterTypeOK
  BY DEF ReporterInv
<1>2. Evolves
  BY <1>1, StoreStutter
<1>3. CASE entry[s] = "final"
  BY <1>1, <1>2, <1>3, ReportsKept DEF OnTerminal, Finalized, ReporterTypeOK
<1>4. CASE entry[s] # "final"
  <2>1. /\ entry' = [entry EXCEPT ![s] = IF @ = "none" THEN "none" ELSE "final"]
        /\ timer' = timer \ {s}
        /\ reports' = [reports EXCEPT ![s] = Append(@, r)]
    BY <1>4 DEF OnTerminal, Finalized
  <2>2. /\ entry' \in [Scope -> {"none", "watched", "final"}]
        /\ entry[s] # "none" => entry'[s] = "final"
        /\ \A t \in Scope : entry[t] = "final" => entry'[t] = "final"
    BY <1>1, <1>4, <2>1 DEF ReporterTypeOK
  <2>3. r \in Report /\ r.life = restarts /\ r.known = (entry[s] # "none")
    BY <1>1 DEF Report, ReporterTypeOK
  <2>4. Fits(r, s)
    OBVIOUS
  <2> HIDE DEF r
  <2>5. Reported' /\ reports' \in [Scope -> Seq(Report)]
    BY <1>2, <1>4, <2>1, <2>2, <2>3, <2>4, ReportAdded
  <2> QED
    BY <1>2, <2>1, <2>2, <2>5
<1> QED
  BY <1>3, <1>4

LEMMA OnGrantedStep ==
  ASSUME ReporterInv, NEW e \in posted, OnGranted(e)
  PROVE  ReporterInv'
<1>1. StoreInv /\ ReporterTypeOK /\ InStep
  BY DEF ReporterInv
<1>2. e.scope \in Scope /\ scope[e.scope].status \notin Pending
  BY <1>1 DEF OnGranted, Heard, ReporterTypeOK, InStep, Past, Event
<1>3. Evolves
  BY <1>1, StoreStutter DEF OnGranted, Heard
<1>4. /\ entry' \in [Scope -> {"none", "watched", "final"}]
      /\ \A s \in Scope : entry[s] = "final" => entry'[s] = "final"
      /\ timer' \subseteq timer \cup {e.scope}
  BY <1>1, <1>2 DEF OnGranted, ReporterTypeOK
<1>5. Reported'
  BY <1>3, <1>4, ReportsKept DEF OnGranted, Heard
<1>6. ReporterTypeOK'
  BY <1>1, <1>2, <1>4 DEF OnGranted, Heard, ReporterTypeOK, callVars
<1>7. InStep'
  BY <1>1, <1>2, <1>4 DEF OnGranted, Heard, InStep, Past, callVars, storeVars
<1> QED
  BY <1>3, <1>5, <1>6, <1>7, StoreGoesOn DEF ReporterInv

LEMMA OnRevokedStep ==
  ASSUME ReporterInv, NEW e \in posted, OnRevoked(e)
  PROVE  ReporterInv'
<1>1. StoreInv /\ ReporterTypeOK /\ InStep
  BY DEF ReporterInv
<1>2. e.scope \in Scope /\ scope[e.scope].status \in Terminal
  BY <1>1 DEF OnRevoked, Heard, ReporterTypeOK, InStep, Event
<1>3. Fits([reason |-> "revoked", life |-> restarts, known |-> entry[e.scope] # "none"], e.scope)
  BY <1>2 DEF Fits
<1>4. /\ Evolves /\ Reported'
      /\ reports' \in [Scope -> Seq(Report)]
      /\ entry' \in [Scope -> {"none", "watched", "final"}]
      /\ timer' \subseteq timer
  BY <1>2, <1>3, TerminalReported DEF OnRevoked, Heard
<1>5. ReporterTypeOK'
  BY <1>1, <1>4 DEF OnRevoked, Heard, ReporterTypeOK, callVars
<1>6. InStep'
  BY <1>4, InStepKept DEF OnRevoked, Heard, callVars
<1> QED
  BY <1>4, <1>5, <1>6, StoreGoesOn DEF ReporterInv

LEMMA RepliedStep ==
  ASSUME ReporterInv, NEW r \in replying, Replied(r)
  PROVE  ReporterInv'
<1>1. StoreInv /\ ReporterTypeOK /\ InStep
  BY DEF ReporterInv
<1>2. r.scope \in Scope /\ (r.over => scope[r.scope].status = "completed")
  BY <1>1 DEF ReporterTypeOK, InStep
<1>3. r.over => Fits([reason |-> "action_cap_reached", life |-> restarts,
                      known |-> entry[r.scope] # "none"], r.scope)
  BY <1>2 DEF Fits
<1>4. Evolves
  BY <1>1, StoreStutter DEF Replied
<1>5. /\ Reported'
      /\ reports' \in [Scope -> Seq(Report)]
      /\ entry' \in [Scope -> {"none", "watched", "final"}]
      /\ timer' \subseteq timer
  <2>1. CASE r.over
    BY <1>2, <1>3, <2>1, TerminalReported DEF Replied
  <2>2. CASE ~r.over
    BY <1>1, <1>4, <2>2, ReportsKept DEF Replied, ReporterTypeOK
  <2> QED
    BY <2>1, <2>2
<1>6. ReporterTypeOK'
  BY <1>1, <1>5 DEF Replied, ReporterTypeOK, callVars
<1>7. InStep'
  BY <1>4, <1>5, InStepKept DEF Replied, callVars
<1> QED
  BY <1>4, <1>5, <1>6, <1>7, StoreGoesOn DEF ReporterInv

\* The event of an action finds the scope completed, or it does not; when a
\* progress report is due the rest waits for it.
LEMMA OnAuthorizedStep ==
  ASSUME ReporterInv, NEW e \in posted, OnAuthorized(e)
  PROVE  ReporterInv'
<1> DEFINE s == e.scope
           n == (IF entry[s] = "none" THEN 0 ELSE since[s]) + 1
           r == [reason |-> "action_cap_reached", life |-> restarts, known |-> TRUE]
<1>1. StoreInv /\ ReporterTypeOK /\ InStep
  BY DEF ReporterInv
<1>2. s \in Scope /\ e.by \in Call \cup Revoker \cup {None}
  BY <1>1 DEF ReporterTypeOK, Event
<1>3. Evolves
  BY <1>1, StoreStutter DEF OnAuthorized, Heard
<1>4. /\ Reported'
      /\ reports' \in [Scope -> Seq(Report)]
      /\ entry' \in [Scope -> {"none", "watched", "final"}]
      /\ timer' \subseteq timer
  <2>1. CASE Over(s) /\ ~Due(s, n) /\ ~Finalized(s)
    <3>1. /\ entry' = [entry EXCEPT ![s] = "final"]
          /\ timer' = timer \ {s}
          /\ reports' = [reports EXCEPT ![s] = Append(@, r)]
      BY <2>1 DEF OnAuthorized
    <3>2. r \in Report /\ r.life = restarts /\ r.known /\ Fits(r, s) /\ entry[s] # "final"
      BY <1>1, <2>1 DEF Report, ReporterTypeOK, Fits, Over, Finalized
    <3>3. /\ entry' \in [Scope -> {"none", "watched", "final"}]
          /\ entry'[s] = "final"
          /\ \A t \in Scope : entry[t] = "final" => entry'[t] = "final"
      BY <1>1, <1>2, <3>1 DEF ReporterTypeOK
    <3>4. restarts' = restarts
      BY DEF OnAuthorized, Heard
    <3> HIDE DEF r, s
    <3> QED
      BY <1>2, <1>3, <3>1, <3>2, <3>3, <3>4, ReportAdded
  <2>2. CASE ~(Over(s) /\ ~Due(s, n) /\ ~Finalized(s))
    <3>1. /\ entry' = [entry EXCEPT ![s] = IF @ = "none" THEN "watched" ELSE @]
          /\ timer' = timer /\ reports' = reports /\ restarts' = restarts
      BY <2>2 DEF OnAuthorized, Heard
    <3>2. /\ entry' \in [Scope -> {"none", "watched", "final"}]
          /\ \A t \in Scope : entry[t] = "final" => entry'[t] = "final"
      BY <1>1, <1>2, <3>1 DEF ReporterTypeOK
    <3> QED
      BY <1>1, <1>3, <3>1, <3>2, ReportsKept DEF ReporterTypeOK
  <2> QED
    BY <2>1, <2>2
<1>5. PICK q : q = [scope |-> s, by |-> e.by, over |-> Over(s)]
  OBVIOUS
<1>6. /\ q \in [scope : Scope, by : Call \cup Revoker \cup {None}, over : BOOLEAN]
      /\ q.scope = s /\ q.over = (scope[s].status = "completed")
      /\ replying' \subseteq replying \cup {q}
  BY <1>2, <1>5 DEF OnAuthorized, Over
<1>7. UNCHANGED <<storeVars, callVars, ticking, restarts>> /\ posted' \subseteq posted
  BY DEF OnAuthorized, Heard
<1>8. \A p \in replying' : p.over => scope[p.scope].status = "completed"
  BY <1>1, <1>6 DEF InStep
<1> HIDE DEF s
<1>10. ReporterTypeOK'
  BY <1>1, <1>4, <1>6, <1>7 DEF ReporterTypeOK, callVars
<1>9. InStep'
  BY <1>1, <1>4, <1>7, <1>8 DEF InStep, Past, callVars, storeVars
<1> QED
  BY <1>3, <1>4, <1>9, <1>10, StoreGoesOn DEF ReporterInv

LEMMA TickStep ==
  ASSUME ReporterInv, NEW s \in Scope, Tick(s)
  PROVE  ReporterInv'
<1>1. StoreInv /\ ReporterTypeOK /\ InStep
  BY DEF ReporterInv
<1>2. Evolves
  BY <1>1, StoreStutter DEF Tick
<1>3. s \in timer /\ scope[s].status \in Status \ Pending
  BY <1>1 DEF Tick, InStep, Past, StoreInv, StoreTypeOK, ScopeRow
<1>4. /\ Reported'
      /\ reports' \in [Scope -> Seq(Report)]
      /\ entry' \in [Scope -> {"none", "watched", "final"}]
      /\ timer' \subseteq timer
  <2>1. CASE ~Finalized(s) /\ ~Active(s)
    <3>1. scope[s].status \in Terminal
      BY <1>3, <2>1 DEF Active, Status, Pending, Terminal
    <3>2. ReasonOf(scope[s].status) \in {"action_cap_reached", "expired", "revoked"}
      BY DEF ReasonOf
    <3>3. Fits([reason |-> ReasonOf(scope[s].status), life |-> restarts,
                known |-> entry[s] # "none"], s)
      BY <3>1 DEF Fits, ReasonOf, Terminal
    <3>4. OnTerminal(s, ReasonOf(scope[s].status)) /\ UNCHANGED <<storeVars, restarts>>
      BY <2>1 DEF Tick
    <3> QED
      BY <3>2, <3>3, <3>4, TerminalReported
  <2>2. CASE ~(~Finalized(s) /\ ~Active(s))
    BY <1>1, <1>2, <2>2, ReportsKept DEF Tick, ReporterTypeOK
  <2> QED
    BY <2>1, <2>2
<1>5. ticking' \subseteq ticking \cup {s}
  BY DEF Tick
<1>6. ReporterTypeOK'
  BY <1>1, <1>4, <1>5 DEF Tick, ReporterTypeOK, callVars
<1>7. InStep'
  BY <1>1, <1>3, <1>4, <1>5 DEF Tick, InStep, Past, callVars, storeVars
<1> QED
  BY <1>2, <1>4, <1>6, <1>7, StoreGoesOn DEF ReporterInv

LEMMA TickedStep ==
  ASSUME ReporterInv, NEW s \in Scope, Ticked(s)
  PROVE  ReporterInv'
<1>1. StoreInv /\ ReporterTypeOK /\ InStep
  BY DEF ReporterInv
<1>2. Evolves
  BY <1>1, StoreStutter DEF Ticked
<1>3. Reported'
  BY <1>2, ReportsKept DEF Ticked
<1>4. ReporterTypeOK'
  BY <1>1 DEF Ticked, ReporterTypeOK, callVars
<1>5. InStep'
  BY <1>1 DEF Ticked, InStep, Past, callVars, storeVars
<1> QED
  BY <1>2, <1>3, <1>4, <1>5, StoreGoesOn DEF ReporterInv

\* A new daemon has no entries: what it will report is told from what the dead
\* one reported by the count of restarts.
LEMMA RestartStep ==
  ASSUME ReporterInv, Restart
  PROVE  ReporterInv'
<1>1. StoreInv /\ ReporterTypeOK /\ InStep
  BY DEF ReporterInv
<1>2. Evolves
  BY <1>1, StoreStutter DEF Restart
<1>3. ReporterTypeOK'
  BY <1>1 DEF Restart, ReporterTypeOK
<1>4. InStep'
  BY <1>1 DEF Restart, InStep, ReporterTypeOK, Past, storeVars
<1>5. /\ restarts \in Nat /\ restarts' = restarts + 1 /\ scope' = scope /\ reports' = reports
  BY <1>1 DEF Restart, storeVars, ReporterTypeOK
<1>7. ASSUME NEW s \in Scope, NEW i \in DOMAIN reports[s] PROVE reports[s][i].life \in Nat
  <2>1. reports[s] \in Seq(Report)
    BY <1>1 DEF ReporterTypeOK
  <2>2. reports[s][i] \in Report
    BY <2>1
  <2> QED
    BY <2>2 DEF Report
<1>6. Reported'
  BY <1>5, <1>7 DEF ReporterInv, Reported, Fits
<1> QED
  BY <1>2, <1>3, <1>4, <1>6, StoreGoesOn DEF ReporterInv

LEMMA ReporterStep ==
  ASSUME ReporterInv, Next
  PROVE  ReporterInv'
<1>1. StoreInv
  BY DEF ReporterInv
<1>2. ASSUME NEW s \in Scope, NEW p \in Proposals, Propose(s, p) PROVE ReporterInv'
  BY <1>1, <1>2, CreateEvolves, StoreStep DEF Propose
<1>3. ASSUME NEW s \in Scope, RevokeOnDashboard(s) PROVE ReporterInv'
  <2>1. scope[s].status # "absent" /\ Revoke(s)
    BY <1>3 DEF RevokeOnDashboard, Revocable
  <2> QED
    BY <1>1, <1>3, <2>1, RevokeEvolves, StoreStep DEF RevokeOnDashboard
<1>4. ASSUME NEW s \in Scope,
             AskGrant(s) \/ GrantScope(s) \/ Change(s) \/ Tick(s) \/ Ticked(s)
      PROVE  ReporterInv'
  BY <1>4, AskStep, GrantScopeStep, ChangeStep, TickStep, TickedStep
<1>5. ASSUME NEW s \in Scope, NEW r \in Revoker, RevokeByTool(s, r) PROVE ReporterInv'
  BY <1>5, RevokeByToolStep
<1>6. ASSUME NEW c \in Call, Start(c) \/ Record(c) \/ ActionFails(c) PROVE ReporterInv'
  BY <1>6, StartStep, RecordStep, FailsStep
<1>7. ASSUME NEW e \in posted, Hear(e) PROVE ReporterInv'
  BY <1>7, OnGrantedStep, OnAuthorizedStep, OnRevokedStep DEF Hear
<1>8. ASSUME NEW r \in replying, Replied(r) PROVE ReporterInv'
  BY <1>8, RepliedStep
<1>9. CASE Restart
  BY <1>9, RestartStep
<1> QED
  BY <1>2, <1>3, <1>4, <1>5, <1>6, <1>7, <1>8, <1>9 DEF Next

LEMMA ReporterBegins ==
  ASSUME Init
  PROVE  ReporterInv
<1>1. StoreInv
  BY StoreBegins DEF Init
<1>2. ReporterTypeOK /\ InStep /\ Reported
  BY DEF Init, ReporterTypeOK, InStep, Reported
<1> QED
  BY <1>1, <1>2 DEF ReporterInv

LEMMA ReportsAsPromised ==
  ASSUME Reported
  PROVE  ReportsTrue
<1>1. ASSUME NEW s \in Scope, NEW r \in ReportsOf(s) PROVE Fits(r, s)
  <2>1. PICK i \in DOMAIN reports[s] : r = reports[s][i]
    BY DEF ReportsOf
  <2> QED
    BY <2>1 DEF Reported
<1> QED
  BY <1>1 DEF Reported, Fits, ReportsTrue

-----------------------------------------------------------------------------
(* Host commands.                                                          *)

HostTypeOK ==
  /\ hostAt \in [Call -> {"idle", "refusing", "refused", "starting", "failed", "running",
                          "reporting", "done", "lost"}]
  /\ hostUnder \in [Call -> Scope \cup {None}]
  /\ child \in [Call -> {"none", "alive", "absent", "asked", "ended", "killed", "unkillable"}]
  /\ clock \in [Call -> {"off", "armed", "grace"}]

\* A command that may yet be charged has its scope, and that scope was granted.
HostCovered ==
  \A c \in Call : hostAt[c] \in {"starting", "running", "reporting", "done"} =>
    hostUnder[c] \in Scope /\ scope[hostUnder[c]].status # "absent"

\* What a child can be while its command runs, and after it was asked to end.
ChildKnown ==
  \A c \in Call : hostAt[c] = "running" =>
    /\ child[c] \in {"alive", "asked", "absent", "ended"}
    /\ clock[c] = "grace" => child[c] \in {"asked", "ended"}

HostInv ==
  StoreInv /\ HostTypeOK /\ HostCovered /\ ChildKnown /\ X!AnswerMeansOver /\ X!Charged

\* The table's operations are those the lemmas speak of.
LEMMA SameStore ==
  /\ \A a : X!FindActiveScope(a) <=> FindActiveScope(a)
  /\ \A a : X!Found(a) = Found(a)
  /\ \A s : X!RecordScopeAction(s) <=> RecordScopeAction(s)
  /\ \A s : X!Grant(s) <=> Grant(s)
  /\ \A s : X!Revoke(s) <=> Revoke(s)
  /\ \A s : X!Revocable(s) <=> Revocable(s)
  /\ \A s : X!Lapse(s) <=> Lapse(s)
  /\ \A s, p : X!CreateProposal(s, p) <=> CreateProposal(s, p)
  /\ \A s, later, cap : X!Extend(s, later, cap) <=> Extend(s, later, cap)
  /\ X!StoreInit <=> StoreInit
<1>1. /\ \A s : X!Active(s) <=> Active(s)
      /\ \A s : X!Spent(s) <=> Spent(s)
      /\ X!storeVars = storeVars
  BY DEF X!Active, Active, X!Spent, Spent, X!storeVars, storeVars
<1>2. \A s, a : X!Takes(s, a) <=> Takes(s, a)
  BY <1>1 DEF X!Takes, Takes, X!Covers, Covers
<1>3. \A E, C : X!Marked(E, C) = Marked(E, C)
  BY <1>1 DEF X!Marked, Marked
<1>4. \A a : X!Hits(a) = Hits(a)
  BY <1>2 DEF X!Hits, Hits
<1>5. \A a : X!Passed(a) = Passed(a)
  BY <1>4 DEF X!Passed, Passed, X!Before, Before
<1>6. \A a : X!FindActiveScope(a) <=> FindActiveScope(a)
  BY <1>1, <1>3, <1>5 DEF X!FindActiveScope, FindActiveScope
<1>7. \A a : X!Found(a) = Found(a)
  BY <1>4 DEF X!Found, Found
<1>8. \A s : X!RecordScopeAction(s) <=> RecordScopeAction(s)
  BY <1>1 DEF X!RecordScopeAction, RecordScopeAction, X!Completes, Completes, X!CompletesAny,
     CompletesAny, X!Charge, Charge
<1>9. \A s : X!Revocable(s) <=> Revocable(s)
  BY DEF X!Revocable, Revocable
<1>10. \A s : (X!Grant(s) <=> Grant(s)) /\ (X!Revoke(s) <=> Revoke(s)) /\ (X!Lapse(s) <=> Lapse(s))
  BY <1>1, <1>9 DEF X!Grant, Grant, X!Revoke, Revoke, X!Lapse, Lapse, X!storeVars, storeVars
<1>11. \A s, p : X!CreateProposal(s, p) <=> CreateProposal(s, p)
  BY DEF X!CreateProposal, CreateProposal
<1>12. \A s, later, cap : X!Extend(s, later, cap) <=> Extend(s, later, cap)
  BY <1>1 DEF X!Extend, Extend, X!storeVars, storeVars
<1>13. X!StoreInit <=> StoreInit
  BY DEF X!StoreInit, StoreInit, X!Blank, Blank
<1> QED
  BY <1>6, <1>7, <1>8, <1>9, <1>10, <1>11, <1>12, <1>13

LEMMA SameCount == \A S : X!Cardinality(S) = Cardinality(S)
BY DEF X!Cardinality, Cardinality

\* The commands a scope has paid for.
PaidUnder(s) == {c \in Call : hostAt[c] = "done" /\ hostUnder[c] = s}

\* A step that answers no command under a scope and charges none keeps the
\* accounts.
LEMMA AccountsKept ==
  ASSUME HostInv, SameCharge,
         \A c \in Call : hostAt'[c] = "done" <=> hostAt[c] = "done",
         \A c \in Call : hostAt[c] = "done" => hostUnder'[c] = hostUnder[c]
  PROVE  X!Charged'
<1> SUFFICES ASSUME NEW s \in Scope
             PROVE  scope'[s].used =
                      Cardinality({c \in Call : hostAt'[c] = "done" /\ hostUnder'[c] = s})
  BY SameCount DEF X!Charged
<1>1. {c \in Call : hostAt'[c] = "done" /\ hostUnder'[c] = s}
        = {c \in Call : hostAt[c] = "done" /\ hostUnder[c] = s}
  OBVIOUS
<1> QED
  BY <1>1, SameCount DEF HostInv, X!Charged, SameCharge

\* Commands keep the scope they found through every step of the table.
LEMMA CoverKept ==
  ASSUME HostInv, Evolves, NEW c \in Call,
         hostAt[c] \in {"starting", "running", "reporting", "done"},
         hostUnder'[c] = hostUnder[c]
  PROVE  hostUnder'[c] \in Scope /\ scope'[hostUnder'[c]].status # "absent"
BY Standing DEF HostInv, HostCovered

LEMMA OperateStep ==
  ASSUME HostInv, NEW s \in Scope, X!Operate(s)
  PROVE  HostInv'
<1>1. StoreInv /\ UNCHANGED <<hostAt, hostUnder, child, clock>>
  BY DEF HostInv, X!Operate, X!callVars
<1>2. Evolves /\ SameCharge
  <2>1. ASSUME NEW p \in Proposals, CreateProposal(s, p) PROVE Evolves /\ SameCharge
    BY <1>1, <2>1, CreateEvolves
  <2>2. CASE Grant(s)
    BY <1>1, <2>2, GrantEvolves
  <2>3. CASE Revocable(s) /\ Revoke(s)
    BY <1>1, <2>3, RevokeEvolves DEF Revocable
  <2>4. CASE Lapse(s)
    BY <1>1, <2>4, LapseEvolves DEF Lapse, SameCharge
  <2>5. ASSUME NEW later \in BOOLEAN, NEW cap \in NewCaps \cup {None}, Extend(s, later, cap)
        PROVE  Evolves /\ SameCharge
    <3>1. cap \in Nat \cup {None}
      BY TrustReporterAssumption
    <3> QED
      BY <1>1, <2>5, <3>1, ExtendEvolves
  <2> QED
    BY <2>1, <2>2, <2>3, <2>4, <2>5, SameStore DEF X!Operate
<1>3. X!Charged'
  BY <1>1, <1>2, AccountsKept
<1>4. HostCovered'
  BY <1>1, <1>2, CoverKept DEF HostCovered
<1> QED
  BY <1>1, <1>2, <1>3, <1>4, StoreGoesOn DEF HostInv, HostTypeOK, ChildKnown, X!AnswerMeansOver

LEMMA BeginStep ==
  ASSUME HostInv, NEW c \in Call, NEW listed \in BOOLEAN, X!Begin(c, listed)
  PROVE  HostInv'
<1>1. StoreInv /\ HostTypeOK /\ act[c] \in Act /\ hostAt[c] = "idle"
  BY TrustReporterAssumption DEF HostInv, X!Begin
<1>2. Evolves /\ SameCharge
  BY <1>1, SameStore, FindEvolves DEF X!Begin
<1>3. child' = child /\ clock' = clock
  BY DEF X!Begin
<1>4. PICK to \in {"refusing", "starting"} :
        /\ hostAt' = [hostAt EXCEPT ![c] = to]
        /\ to = "starting" => Found(act[c]) # {}
        /\ IF Found(act[c]) = {} THEN hostUnder' = hostUnder
           ELSE \E i \in Found(act[c]) : hostUnder' = [hostUnder EXCEPT ![c] = granted[i]]
  BY SameStore DEF X!Begin, X!Goes
<1>5. \A i \in Found(act[c]) : granted[i] \in Scope /\ scope[granted[i]].status # "absent"
  BY <1>1 DEF Found, Hits, StoreInv, StoreTypeOK, GrantedRows, Pending
<1>6. /\ hostUnder' \in [Call -> Scope \cup {None}]
      /\ \A d \in Call \ {c} : hostUnder'[d] = hostUnder[d] /\ hostAt'[d] = hostAt[d]
      /\ hostAt'[c] = to
      /\ to = "starting" => hostUnder'[c] \in Scope /\ scope[hostUnder'[c]].status # "absent"
  BY <1>1, <1>4, <1>5 DEF HostTypeOK
<1>7. HostTypeOK'
  BY <1>1, <1>3, <1>4, <1>6 DEF HostTypeOK
<1>8. X!Charged'
  BY <1>1, <1>2, <1>6, AccountsKept
<1>9. HostCovered'
  <2> SUFFICES ASSUME NEW d \in Call, hostAt'[d] \in {"starting", "running", "reporting", "done"}
               PROVE  hostUnder'[d] \in Scope /\ scope'[hostUnder'[d]].status # "absent"
    BY DEF HostCovered
  <2>1. CASE d = c
    BY <1>1, <1>2, <1>6, <2>1, Standing
  <2>2. CASE d # c
    BY <1>2, <1>6, <2>2, CoverKept
  <2> QED
    BY <2>1, <2>2
<1>10. ChildKnown' /\ X!AnswerMeansOver'
  BY <1>1, <1>3, <1>6 DEF HostInv, ChildKnown, X!AnswerMeansOver
<1> QED
  BY <1>2, <1>7, <1>8, <1>9, <1>10, StoreGoesOn DEF HostInv

\* The steps that leave the table alone and answer nothing.
LEMMA QuietStep ==
  ASSUME HostInv, UNCHANGED storeVars, hostUnder' = hostUnder, HostTypeOK',
         \A c \in Call : hostAt'[c] = "done" <=> hostAt[c] = "done",
         \A c \in Call : hostAt'[c] \in {"starting", "running", "reporting"} =>
           hostAt[c] \in {"starting", "running", "reporting"},
         ChildKnown', X!AnswerMeansOver'
  PROVE  HostInv'
<1>1. Evolves /\ SameCharge
  BY StoreStutter DEF HostInv
<1>2. HostCovered'
  BY <1>1, CoverKept DEF HostCovered
<1>3. X!Charged'
  BY <1>1, AccountsKept
<1> QED
  BY <1>1, <1>2, <1>3, StoreGoesOn DEF HostInv

LEMMA CommandStep ==
  ASSUME HostInv, NEW c \in Call,
         \/ X!Refuse(c) \/ X!Spawn(c) \/ X!SpawnError(c) \/ X!Close(c)
         \/ X!TimesOut(c) \/ X!GraceOver(c) \/ X!ChildEnds(c)
  PROVE  HostInv'
<1>1. HostTypeOK /\ ChildKnown /\ X!AnswerMeansOver
  BY DEF HostInv
<1> USE <1>1 DEF HostTypeOK, ChildKnown, X!AnswerMeansOver, X!Goes, X!Becomes, X!Clock
<1>2. CASE X!Refuse(c)
  BY <1>2, QuietStep DEF X!Refuse, X!storeVars, storeVars
<1>3. CASE X!Spawn(c)
  BY <1>3, QuietStep DEF X!Spawn, X!storeVars, storeVars
<1>4. CASE X!SpawnError(c)
  BY <1>4, QuietStep DEF X!SpawnError, X!Finish, X!storeVars, storeVars
<1>5. CASE X!Close(c)
  BY <1>5, QuietStep DEF X!Close, X!Finish, X!storeVars, storeVars
<1>6. CASE X!TimesOut(c)
  BY <1>6, QuietStep DEF X!TimesOut, X!storeVars, storeVars
<1>7. CASE X!GraceOver(c)
  BY <1>7, QuietStep DEF X!GraceOver, X!storeVars, storeVars
<1>8. CASE X!ChildEnds(c)
  BY <1>8, QuietStep DEF X!ChildEnds, X!storeVars, storeVars
<1> QED
  BY <1>2, <1>3, <1>4, <1>5, <1>6, <1>7, <1>8

\* The one step that charges.
LEMMA ReportStep ==
  ASSUME HostInv, NEW c \in Call, X!Report(c)
  PROVE  HostInv'
<1>1. StoreInv /\ HostTypeOK /\ hostAt[c] = "reporting" /\ RecordScopeAction(hostUnder[c])
  BY SameStore DEF HostInv, X!Report
<1>2. hostAt' = [hostAt EXCEPT ![c] = "done"] /\ UNCHANGED <<hostUnder, child, clock>>
  BY DEF X!Report, X!Goes
<1>3. PICK s \in Scope : s = hostUnder[c] /\ scope[s].status # "absent"
  BY <1>1 DEF HostInv, HostCovered
<1>4. /\ Evolves
      /\ scope'[s].used = scope[s].used + 1
      /\ \A t \in Scope \ {s} : scope'[t].used = scope[t].used
  BY <1>1, <1>3, RecordEvolves
<1>5. /\ hostAt'[c] = "done" /\ \A d \in Call \ {c} : hostAt'[d] = hostAt[d]
      /\ HostTypeOK'
  BY <1>1, <1>2 DEF HostTypeOK
<1>6. X!Charged'
  <2> SUFFICES ASSUME NEW t \in Scope PROVE scope'[t].used = Cardinality(PaidUnder(t)')
    BY SameCount DEF X!Charged, PaidUnder
  <2>0. scope[t].used = Cardinality(PaidUnder(t))
    BY SameCount DEF HostInv, X!Charged, PaidUnder
  <2>1. CASE t # s
    <3>1. PaidUnder(t)' = PaidUnder(t)
      BY <1>2, <1>3, <1>5, <2>1, <1>1 DEF PaidUnder
    <3> QED
      BY <1>4, <2>0, <2>1, <3>1
  <2>2. CASE t = s
    <3>1. PaidUnder(t)' = PaidUnder(t) \cup {c} /\ c \notin PaidUnder(t)
      BY <1>1, <1>2, <1>3, <1>5, <2>2 DEF PaidUnder
    <3>2. IsFiniteSet(PaidUnder(t))
      BY ScopeUsersAssumption, FS_Subset DEF PaidUnder
    <3>3. Cardinality(PaidUnder(t) \cup {c}) = Cardinality(PaidUnder(t)) + 1
      BY <3>1, <3>2, FS_AddElement
    <3> QED
      BY <1>4, <2>0, <2>2, <3>1, <3>3
  <2> QED
    BY <2>1, <2>2
<1>7. HostCovered'
  BY <1>1, <1>2, <1>4, <1>5, CoverKept DEF HostCovered
<1>8. ChildKnown' /\ X!AnswerMeansOver'
  BY <1>1, <1>2, <1>5 DEF HostInv, ChildKnown, X!AnswerMeansOver
<1> QED
  BY <1>4, <1>5, <1>6, <1>7, <1>8, StoreGoesOn DEF HostInv

LEMMA LostStep ==
  ASSUME HostInv, X!Restart
  PROVE  HostInv'
<1>1. HostTypeOK /\ ChildKnown /\ X!AnswerMeansOver
  BY DEF HostInv
<1> USE <1>1 DEF HostTypeOK, ChildKnown, X!AnswerMeansOver
<1> QED
  BY QuietStep DEF X!Restart, X!InFlight, X!storeVars, storeVars

LEMMA HostStep ==
  ASSUME HostInv, X!Next
  PROVE  HostInv'
<1>1. ASSUME NEW c \in Call, NEW listed \in BOOLEAN, X!Begin(c, listed) PROVE HostInv'
  BY <1>1, BeginStep
<1>2. ASSUME NEW c \in Call,
             \/ X!Refuse(c) \/ X!Spawn(c) \/ X!SpawnError(c) \/ X!Close(c)
             \/ X!TimesOut(c) \/ X!GraceOver(c) \/ X!ChildEnds(c) \/ X!Report(c)
      PROVE  HostInv'
  BY <1>2, CommandStep, ReportStep
<1>3. ASSUME NEW s \in Scope, X!Operate(s) PROVE HostInv'
  BY <1>3, OperateStep
<1> QED
  BY <1>1, <1>2, <1>3, LostStep DEF X!Next

LEMMA HostBegins ==
  ASSUME X!Init
  PROVE  HostInv
<1>1. StoreInv
  BY SameStore, StoreBegins DEF X!Init
<1>2. HostTypeOK /\ HostCovered /\ ChildKnown /\ X!AnswerMeansOver
  BY DEF X!Init, HostTypeOK, HostCovered, ChildKnown, X!AnswerMeansOver
<1>3. \A s \in Scope : PaidUnder(s) = {} /\ scope[s].used = 0
  BY SameStore DEF X!Init, X!StoreInit, PaidUnder, StoreInit
<1>4. X!Charged
  BY <1>3, SameCount, FS_EmptySet DEF X!Charged, PaidUnder
<1> QED
  BY <1>1, <1>2, <1>4 DEF HostInv

-----------------------------------------------------------------------------
(* The BOM executor.                                                       *)

RowSet == [state : {"pending", "running", "done", "failed"}, retries : Nat,
           needs : SUBSET Nat, tried : Nat]

BomTypeOK ==
  /\ status \in {"none", "proposed", "approved", "rejected", "running", "done", "failed"}
  /\ version \in Nat \ {0}
  /\ steps \in Seq(Seq(RowSet))
  /\ bomScope \in {"none", "active", "closed"}
  /\ approved \in BOOLEAN
  /\ driver \in {"none", "opening", "choosing", "batch", "failing", "replanning", "replanned",
                 "escalated", "announcing"}
  /\ DOMAIN run \subseteq B!StepNo
  /\ run \in [DOMAIN run -> {"starting", "executing", "reporting", "failing"}]
  /\ failures \in Seq(B!StepNo)

\* What the loop is at, and what that says of the BOM: a loop drives a running
\* BOM, steps are suspended in a batch only, failures wait for its end.
Driven ==
  /\ status = "none" => version = 1
  /\ status = "none" \/ Len(steps) \in {version, version + 1}
  /\ approved => status = "approved" /\ driver = "none"
  /\ driver \notin {"none", "announcing"} => status = "running"
  /\ driver = "announcing" => status \in B!Ended
  /\ DOMAIN run # {} => driver = "batch"
  /\ failures # <<>> => driver \in {"batch", "failing"}
  /\ driver = "failing" => failures # <<>>

\* What the row of a step says of its executions.
Sound(row) ==
  /\ row.state = "done" => row.tried > 0
  /\ row.state = "failed" => row.tried = row.retries
  /\ row.state = "pending" => row.tried = row.retries /\ row.tried <= MaxRetries

Tallied == \A v \in DOMAIN steps : \A n \in DOMAIN steps[v] : Sound(steps[v][n])

\* What a step needs is done.
Met(n) == \A d \in B!Current[n].needs : d \in B!StepNo /\ B!Current[d].state = "done"

\* A suspended step of the batch and its row.
InBatch(n) ==
  /\ run[n] = "starting" =>
       /\ B!Current[n].state = "running" /\ B!Current[n].tried = B!Current[n].retries
       /\ B!Current[n].tried <= MaxRetries /\ Met(n)
  /\ run[n] = "executing" =>
       B!Current[n].state = "running" /\ B!Current[n].tried = B!Current[n].retries + 1
  /\ run[n] = "reporting" => B!Current[n].state = "done"
  /\ run[n] = "failing" => B!Current[n].state = "failed"

\* Failures that wait for handleFailures: each once, not suspended any more.
Failing ==
  /\ \A i \in DOMAIN failures :
       failures[i] \notin DOMAIN run /\ B!Current[failures[i]].state = "failed"
  /\ \A i, j \in DOMAIN failures : failures[i] = failures[j] => i = j

Batched == \A n \in DOMAIN run : InBatch(n)

BomInv == BomTypeOK /\ Driven /\ Tallied /\ Batched /\ Failing /\ B!EndsClean

LEMMA RowsThere ==
  ASSUME BomTypeOK, Driven, status # "none"
  PROVE  /\ version \in DOMAIN steps
         /\ B!Current = steps[version]
         /\ B!StepNo = DOMAIN steps[version]
         /\ steps[version] \in Seq(RowSet)
         /\ B!StepNo \subseteq Nat
         /\ \A n \in B!StepNo : B!Current[n] \in RowSet
BY DEF BomTypeOK, Driven, B!Current, B!StepNo

\* A step that leaves the rows alone executes nothing.
LEMMA NothingRuns ==
  ASSUME BomTypeOK, Driven, steps' = steps
  PROVE  B!InOrder
<1> SUFFICES ASSUME NEW n \in B!StepNo, B!Runs(n) PROVE FALSE
  BY DEF B!InOrder
<1>1. status # "none"
  BY DEF B!StepNo
<1>2. steps[version][n] \in RowSet
  BY <1>1, RowsThere DEF B!Current
<1> QED
  BY <1>2 DEF B!Runs, RowSet

\* A step that writes no row, and suspends no step of a batch elsewhere.
LEMMA RowsAlone ==
  ASSUME BomInv, steps' = steps, version' = version, status' = "none" <=> status = "none",
         \A n \in DOMAIN run' : n \in DOMAIN run /\ run'[n] = run[n],
         BomTypeOK', Driven', Failing', B!EndsClean'
  PROVE  BomInv' /\ B!InOrder
<1>1. B!InOrder
  BY NothingRuns DEF BomInv
<1>2. Tallied'
  BY DEF BomInv, Tallied
<1>3. B!StepNo' = B!StepNo /\ B!Current' = B!Current
  BY DEF B!StepNo, B!Current
<1>4. Batched'
  BY <1>3 DEF BomInv, Batched, InBatch, Met
<1> QED
  BY <1>1, <1>2, <1>4 DEF BomInv

\* The current rows are replaced.
LEMMA RowsWritten ==
  ASSUME BomTypeOK, Driven, status # "none", NEW rows \in [B!StepNo -> RowSet],
         steps' = [steps EXCEPT ![version] = rows], version' = version, status' = status
  PROVE  /\ steps' \in Seq(Seq(RowSet))
         /\ Len(steps') = Len(steps)
         /\ B!StepNo' = B!StepNo
         /\ B!Current' = rows
         /\ Tallied /\ (\A n \in B!StepNo : Sound(rows[n])) => Tallied'
<1>1. /\ version \in DOMAIN steps
      /\ B!StepNo = DOMAIN steps[version] /\ steps[version] \in Seq(RowSet)
      /\ steps \in Seq(Seq(RowSet))
  BY RowsThere DEF BomTypeOK
<1>2. rows \in Seq(RowSet) /\ DOMAIN rows = B!StepNo
  <2>1. B!StepNo = 1 .. Len(steps[version]) /\ Len(steps[version]) \in Nat
    BY <1>1
  <2> QED
    BY <2>1, SeqDef
<1>3. /\ steps' \in Seq(Seq(RowSet)) /\ Len(steps') = Len(steps) /\ DOMAIN steps' = DOMAIN steps
      /\ steps'[version] = rows
      /\ \A v \in DOMAIN steps \ {version} : steps'[v] = steps[v]
  BY <1>1, <1>2
<1>4. B!StepNo' = B!StepNo /\ B!Current' = rows
  BY <1>2, <1>3 DEF B!StepNo, B!Current
<1>5. ASSUME Tallied, \A n \in B!StepNo : Sound(rows[n])
      PROVE  Tallied'
  <2> SUFFICES ASSUME NEW v \in DOMAIN steps', NEW n \in DOMAIN steps'[v]
               PROVE  Sound(steps'[v][n])
    BY DEF Tallied, Sound
  <2>1. CASE v = version
    BY <1>2, <1>3, <1>5, <2>1
  <2>2. CASE v # version
    BY <1>3, <1>5, <2>2 DEF Tallied
  <2> QED
    BY <2>1, <2>2
<1> QED
  BY <1>3, <1>4, <1>5

\* One row is replaced; it was not done.
LEMMA RowWritten ==
  ASSUME BomInv, status # "none", NEW n \in B!StepNo, NEW row \in RowSet, Sound(row),
         steps' = [steps EXCEPT ![version] = [steps[version] EXCEPT ![n] = row]],
         version' = version, status' = status, B!Current[n].state # "done"
  PROVE  /\ steps' \in Seq(Seq(RowSet))
         /\ Len(steps') = Len(steps)
         /\ B!StepNo' = B!StepNo
         /\ Tallied'
         /\ B!Current'[n] = row
         /\ \A m \in B!StepNo \ {n} : B!Current'[m] = B!Current[m]
         /\ \A m \in DOMAIN run \ {n} :
              m \in DOMAIN run' /\ run'[m] = run[m] => InBatch(m)'
<1> DEFINE rows == [steps[version] EXCEPT ![n] = row]
<1>1. /\ B!StepNo = DOMAIN steps[version] /\ steps[version] \in Seq(RowSet)
      /\ B!Current = steps[version]
      /\ \A m \in B!StepNo : B!Current[m] \in RowSet
  BY RowsThere DEF BomInv
<1>2. /\ rows \in [B!StepNo -> RowSet] /\ rows[n] = row
      /\ \A m \in B!StepNo \ {n} : rows[m] = B!Current[m]
  BY <1>1
<1>3. \A m \in B!StepNo : Sound(B!Current[m])
  BY <1>1, RowsThere DEF BomInv, Tallied
<1>4. \A m \in B!StepNo : Sound(rows[m])
  BY <1>2, <1>3
<1>5. steps' = [steps EXCEPT ![version] = rows]
  OBVIOUS
<1> HIDE DEF rows
<1>6. /\ steps' \in Seq(Seq(RowSet))
      /\ Len(steps') = Len(steps)
      /\ B!StepNo' = B!StepNo
      /\ B!Current' = rows
      /\ Tallied'
  BY <1>2, <1>4, <1>5, RowsWritten DEF BomInv
<1>7. ASSUME NEW m \in DOMAIN run \ {n}, m \in DOMAIN run', run'[m] = run[m]
      PROVE  InBatch(m)'
  <2>1. m \in B!StepNo /\ InBatch(m)
    BY DEF BomInv, BomTypeOK, Batched
  <2>2. B!Current'[m] = B!Current[m]
    BY <1>2, <1>6, <2>1
  <2>3. Met(m) => Met(m)'
    BY <1>2, <1>6, <2>2 DEF Met
  <2> QED
    BY <1>7, <2>1, <2>2, <2>3 DEF InBatch
<1> QED
  BY <1>2, <1>6, <1>7

\* The steps of a loop that write no row: it opens, ends, stops or goes on.
LEMMA LoopMoves ==
  ASSUME BomInv,
         \/ B!Hear \/ B!OpenScope \/ B!Announced \/ B!AskReplan \/ B!Replanned
         \/ B!ReplanThrows \/ B!Crash \/ B!CloseScope
         \/ \E verdict \in {"approved", "rejected"} : B!Respond(verdict)
  PROVE  BomInv' /\ B!InOrder
<1>1. BomTypeOK /\ Driven /\ B!EndsClean /\ Failing
  BY DEF BomInv
<1> USE <1>1 DEF B!bomVars, B!loopVars
<1>2. CASE B!Hear
  <2>1. BomTypeOK' /\ Driven' /\ Failing'
    BY <1>2 DEF B!Hear, BomTypeOK, Driven, Failing, B!StepNo, B!Current
  <2>2. B!EndsClean'
    BY <1>2 DEF B!Hear, Driven, B!EndsClean, B!Ended
  <2> QED
    BY <1>2, <2>1, <2>2, RowsAlone DEF B!Hear, Driven
<1>3. CASE B!OpenScope
  <2>1. BomTypeOK' /\ Driven' /\ Failing'
    BY <1>3 DEF B!OpenScope, BomTypeOK, Driven, Failing, B!StepNo, B!Current
  <2>2. B!EndsClean'
    BY <1>3 DEF B!OpenScope, Driven, B!EndsClean, B!Ended
  <2> QED
    BY <1>3, <2>1, <2>2, RowsAlone DEF B!OpenScope
<1>4. CASE B!Announced
  <2>1. BomTypeOK' /\ Driven' /\ Failing'
    BY <1>4 DEF B!Announced, BomTypeOK, Driven, Failing, B!StepNo, B!Current
  <2>2. B!EndsClean'
    BY <1>4 DEF B!Announced, B!EndsClean, B!StepNo, B!Current
  <2> QED
    BY <1>4, <2>1, <2>2, RowsAlone DEF B!Announced
<1>5. CASE B!AskReplan
  <2>1. status = "running" /\ DOMAIN run = {} /\ failures' = <<>> /\ run' = run
    BY <1>5 DEF B!AskReplan, Driven
  <2>2. BomTypeOK' /\ Driven'
    BY <1>5, <2>1 DEF B!AskReplan, B!End, BomTypeOK, Driven, B!StepNo, B!Current, B!Ended
  <2>3. Failing'
    BY <2>1 DEF Failing
  <2>4. B!EndsClean'
    BY <1>5, <2>1 DEF B!AskReplan, B!End, B!EndsClean, B!Ended
  <2> QED
    BY <1>5, <2>1, <2>2, <2>3, <2>4, RowsAlone DEF B!AskReplan, B!End
<1>6. CASE B!Replanned
  <2>1. status = "running" /\ DOMAIN run = {} /\ failures = <<>>
    BY <1>6 DEF B!Replanned, Driven
  <2>2. BomTypeOK' /\ Driven' /\ Failing'
    BY <1>6, <2>1 DEF B!Replanned, B!End, BomTypeOK, Driven, Failing, B!StepNo, B!Current, B!Ended
  <2>3. B!EndsClean'
    BY <1>6, <2>1 DEF B!Replanned, B!End, B!EndsClean, B!Ended
  <2> QED
    BY <1>6, <2>1, <2>2, <2>3, RowsAlone DEF B!Replanned, B!End
<1>7. CASE B!ReplanThrows \/ B!Crash
  <2>1. B!Boot
    BY <1>7 DEF B!ReplanThrows, B!Crash
  <2>5. /\ run' = <<>> /\ DOMAIN run' = {} /\ failures' = <<>> /\ approved' = FALSE
        /\ driver' = (IF status = "running" THEN "opening" ELSE "none")
        /\ UNCHANGED <<status, version, steps, bomScope>>
    BY <2>1 DEF B!Boot
  <2>6. run' \in [DOMAIN run' -> {"starting", "executing", "reporting", "failing"}]
    BY <2>5
  <2>8. DOMAIN run' \subseteq B!StepNo' /\ failures' \in Seq(B!StepNo')
    BY <2>5
  <2>9. driver' \in {"none", "opening"}
    BY <2>5
  <2>7. BomTypeOK'
    BY <2>5, <2>6, <2>8, <2>9 DEF BomTypeOK
  <2>2. Driven'
    BY <2>5 DEF Driven
  <2>3. Failing'
    BY <2>5 DEF Failing
  <2>4. B!EndsClean'
    BY <2>5 DEF B!EndsClean, B!StepNo, B!Current
  <2> QED
    BY <2>2, <2>3, <2>4, <2>5, <2>7, RowsAlone
<1>8. CASE B!CloseScope
  <2>1. BomTypeOK' /\ Driven' /\ Failing'
    BY <1>8 DEF B!CloseScope, BomTypeOK, Driven, Failing, B!StepNo, B!Current
  <2>2. B!EndsClean'
    BY <1>8 DEF B!CloseScope, B!EndsClean, B!StepNo, B!Current
  <2> QED
    BY <1>8, <2>1, <2>2, RowsAlone DEF B!CloseScope
<1>9. ASSUME NEW verdict \in {"approved", "rejected"}, B!Respond(verdict)
      PROVE  BomInv' /\ B!InOrder
  <2>1. BomTypeOK' /\ Driven' /\ Failing'
    BY <1>9 DEF B!Respond, BomTypeOK, Driven, Failing, B!StepNo, B!Current, B!Ended
  <2>2. B!EndsClean'
    BY <1>9 DEF B!Respond, B!EndsClean, B!Ended
  <2> QED
    BY <1>9, <2>1, <2>2, RowsAlone DEF B!Respond
<1> QED
  BY <1>2, <1>3, <1>4, <1>5, <1>6, <1>7, <1>8, <1>9

\* A BOM whose steps are all done has tried them all.
LEMMA FinishStep ==
  ASSUME BomInv, B!Finish
  PROVE  BomInv' /\ B!InOrder
<1>1. BomTypeOK /\ Driven /\ Tallied
  BY DEF BomInv
<1>2. status = "running" /\ DOMAIN run = {} /\ failures = <<>>
  BY <1>1 DEF B!Finish, Driven
<1>3. /\ status' = (IF B!AllDone THEN "done" ELSE "failed")
      /\ bomScope' # "active" /\ bomScope' \in {"none", "closed"}
      /\ driver' = "announcing"
      /\ UNCHANGED <<version, steps, approved, run, failures>>
  BY <1>1 DEF B!Finish, B!End, BomTypeOK
<1>4. BomTypeOK' /\ Driven' /\ Failing'
  BY <1>1, <1>2, <1>3 DEF BomInv, BomTypeOK, Driven, Failing, B!StepNo, B!Current, B!Ended
<1>5. B!EndsClean'
  <2>1. /\ status' = "done" => B!AllDone
        /\ B!StepNo' = B!StepNo /\ B!Current' = B!Current
    BY <1>2, <1>3 DEF B!StepNo, B!Current
  <2>2. \A n \in B!StepNo : Sound(B!Current[n])
    BY <1>1, <1>2, RowsThere DEF Tallied
  <2> QED
    BY <1>3, <2>1, <2>2 DEF B!EndsClean, B!AllDone, Sound
<1> QED
  BY <1>2, <1>3, <1>4, <1>5, RowsAlone

LEMMA ReportedStep ==
  ASSUME BomInv, NEW n \in DOMAIN run, B!Reported(n)
  PROVE  BomInv' /\ B!InOrder
<1>1. BomTypeOK /\ Driven /\ Failing /\ InBatch(n) /\ n \in B!StepNo
  BY DEF BomInv, BomTypeOK, Batched
<1>2. driver = "batch" /\ status = "running"
  BY <1>1 DEF Driven
<1>3. /\ DOMAIN run' = DOMAIN run \ {n}
      /\ \A m \in DOMAIN run' : run'[m] = run[m]
      /\ run' = [m \in DOMAIN run \ {n} |-> run[m]]
      /\ UNCHANGED <<status, version, steps, bomScope, approved>>
  BY DEF B!Reported, B!Without, B!bomVars
<1>4. B!StepNo' = B!StepNo /\ B!Current' = B!Current
  BY <1>3 DEF B!StepNo, B!Current
<1>5. CASE run[n] = "failing"
  <2>1. /\ failures' = Append(failures, n) /\ failures' \in Seq(B!StepNo) /\ failures' # <<>>
        /\ driver' = IF DOMAIN run # {n} THEN "batch" ELSE "failing"
    BY <1>1, <1>5 DEF B!Reported, BomTypeOK
  <2>2. BomTypeOK' /\ Driven'
    BY <1>1, <1>2, <1>3, <1>4, <2>1 DEF BomTypeOK, Driven
  <2>3. /\ \A i \in DOMAIN failures' :
             failures'[i] = n \/ (i \in DOMAIN failures /\ failures'[i] = failures[i])
        /\ \A i, j \in DOMAIN failures' : failures'[i] = failures'[j] => i = j
    <3>1. failures \in Seq(B!StepNo) /\ \A i \in DOMAIN failures : failures[i] # n
      BY <1>1 DEF BomTypeOK, Failing
    <3>2. \A i \in DOMAIN failures' : \/ i = Len(failures) + 1 /\ failures'[i] = n
                                      \/ i \in DOMAIN failures /\ failures'[i] = failures[i]
      BY <2>1, <3>1
    <3> QED
      BY <1>1, <3>1, <3>2 DEF Failing
  <2>4. B!Current[n].state = "failed"
    BY <1>1, <1>5 DEF InBatch
  <2>5. Failing'
    BY <1>1, <1>3, <1>4, <2>3, <2>4 DEF Failing
  <2>6. B!EndsClean'
    BY <1>2, <1>3 DEF B!EndsClean, B!Ended
  <2> QED
    BY <1>2, <1>3, <2>2, <2>5, <2>6, RowsAlone
<1>6. CASE run[n] # "failing"
  <2>1. /\ failures' = failures
        /\ driver' = IF DOMAIN run # {n} THEN "batch"
                     ELSE IF failures = <<>> THEN "choosing" ELSE "failing"
    BY <1>6 DEF B!Reported
  <2>2. BomTypeOK' /\ Driven'
    BY <1>1, <1>2, <1>3, <1>4, <2>1 DEF BomTypeOK, Driven
  <2>3. Failing'
    BY <1>1, <1>3, <1>4, <2>1 DEF Failing
  <2>4. B!EndsClean'
    BY <1>2, <1>3 DEF B!EndsClean, B!Ended
  <2> QED
    BY <1>2, <1>3, <2>2, <2>3, <2>4, RowsAlone
<1> QED
  BY <1>5, <1>6

\* What the steps of the loop that write rows have in common: the BOM still runs.
LEMMA StillRunning ==
  ASSUME status' = "running"
  PROVE  B!EndsClean'
BY DEF B!EndsClean, B!Ended

\* One step of the batch goes on: its row and the place it is suspended at move
\* together.
LEMMA BatchStep ==
  ASSUME BomInv, NEW n \in DOMAIN run,
         NEW to \in {"executing", "reporting", "failing"}, run' = [run EXCEPT ![n] = to],
         NEW row \in RowSet, Sound(row),
         steps' = [steps EXCEPT ![version] = [steps[version] EXCEPT ![n] = row]],
         B!Current[n].state = "running",
         \/ to = "executing" /\ row.state = "running" /\ row.tried = row.retries + 1
         \/ to = "reporting" /\ row.state = "done"
         \/ to = "failing" /\ row.state = "failed",
         UNCHANGED <<status, version, bomScope, approved, driver, failures>>
  PROVE  BomInv'
<1>1. BomTypeOK /\ Driven /\ Failing /\ n \in B!StepNo /\ status = "running" /\ driver = "batch"
  BY DEF BomInv, BomTypeOK, Driven
<1>2. /\ steps' \in Seq(Seq(RowSet))
      /\ Len(steps') = Len(steps)
      /\ B!StepNo' = B!StepNo
      /\ Tallied'
      /\ B!Current'[n] = row
      /\ \A m \in B!StepNo \ {n} : B!Current'[m] = B!Current[m]
      /\ \A m \in DOMAIN run \ {n} :
           m \in DOMAIN run' /\ run'[m] = run[m] => InBatch(m)'
  BY <1>1, RowWritten
<1>3. /\ DOMAIN run' = DOMAIN run /\ run'[n] = to
      /\ \A m \in DOMAIN run \ {n} : run'[m] = run[m]
      /\ run' \in [DOMAIN run' -> {"starting", "executing", "reporting", "failing"}]
  BY <1>1 DEF BomTypeOK
<1>4. InBatch(n)'
  BY <1>2, <1>3 DEF InBatch
<1>5. Batched'
  BY <1>2, <1>3, <1>4 DEF Batched
<1>6. BomTypeOK'
  BY <1>1, <1>2, <1>3 DEF BomTypeOK
<1>7. Driven'
  BY <1>1, <1>2, <1>3 DEF Driven
<1>8. Failing'
  <2>1. \A i \in DOMAIN failures : failures[i] \in B!StepNo \ {n}
    BY <1>1 DEF BomTypeOK, Failing
  <2> QED
    BY <1>1, <1>2, <1>3, <2>1 DEF Failing
<1>9. B!EndsClean'
  BY <1>1, StillRunning
<1> QED
  BY <1>2, <1>5, <1>6, <1>7, <1>8, <1>9 DEF BomInv

LEMMA ExecuteStep ==
  ASSUME BomInv, NEW n \in DOMAIN run, B!Execute(n)
  PROVE  BomInv' /\ B!InOrder
<1>1. BomTypeOK /\ Driven /\ n \in B!StepNo /\ InBatch(n) /\ status = "running"
  BY DEF BomInv, BomTypeOK, Driven, Batched
<1>2. /\ B!StepNo = DOMAIN steps[version] /\ version \in DOMAIN steps
      /\ B!Current = steps[version]
      /\ \A m \in B!StepNo : B!Current[m] \in RowSet
      /\ steps[version] \in Seq(RowSet) /\ steps \in Seq(Seq(RowSet))
  BY <1>1, RowsThere DEF BomTypeOK
<1>3. /\ B!Current[n].state = "running" /\ B!Current[n].tried = B!Current[n].retries
      /\ B!Current[n].tried <= MaxRetries /\ Met(n)
  BY <1>1 DEF InBatch, B!Execute
<1> DEFINE row == [B!Current[n] EXCEPT !.tried = @ + 1]
<1>4. /\ row \in RowSet /\ row.state = "running" /\ row.tried = row.retries + 1
  <2>1. PICK r \in RowSet : r = B!Current[n]
    BY <1>1, <1>2
  <2>2. r.tried + 1 \in Nat /\ [r EXCEPT !.tried = @ + 1] \in RowSet
    BY DEF RowSet
  <2> QED
    BY <1>3, <2>1, <2>2 DEF RowSet
<1>5. steps' = [steps EXCEPT ![version] = [steps[version] EXCEPT ![n] = row]]
  BY <1>1, <1>2 DEF B!Execute
<1>6. Sound(row)
  BY <1>4 DEF Sound
<1> HIDE DEF row
<1>7. BomInv'
  BY <1>3, <1>4, <1>5, <1>6, BatchStep DEF B!Execute, B!StepRuns
<1>8. B!InOrder
  <2> SUFFICES ASSUME NEW m \in B!StepNo, B!Runs(m)
               PROVE  /\ status = "running"
                      /\ B!Current[m].state # "done" /\ B!Current[m].tried <= MaxRetries
                      /\ Met(m)
    BY DEF B!InOrder, Met
  <2>1. m = n
    <3>1. steps'[version] = [steps[version] EXCEPT ![n] = row]
      BY <1>2, <1>5
    <3>2. m # n => steps'[version][m] = B!Current[m]
      BY <1>2, <3>1
    <3>3. B!Current[m].tried \in Nat
      BY <1>2 DEF RowSet
    <3> QED
      BY <1>2, <3>2, <3>3 DEF B!Runs
  <2> QED
    BY <1>1, <1>3, <2>1
<1> QED
  BY <1>7, <1>8

\* A step that leaves the counts of executions alone executes nothing.
LEMMA NothingRunsHere ==
  ASSUME BomTypeOK, Driven, NEW n \in B!StepNo, NEW row \in RowSet,
         row.tried = B!Current[n].tried,
         steps' = [steps EXCEPT ![version] = [steps[version] EXCEPT ![n] = row]]
  PROVE  B!InOrder
<1>1. status # "none"
  BY DEF B!StepNo
<1>2. /\ version \in DOMAIN steps /\ B!StepNo = DOMAIN steps[version]
      /\ B!Current = steps[version]
      /\ \A m \in B!StepNo : B!Current[m] \in RowSet
      /\ steps[version] \in Seq(RowSet) /\ steps \in Seq(Seq(RowSet))
  BY <1>1, RowsThere DEF BomTypeOK
<1>3. steps'[version] = [steps[version] EXCEPT ![n] = row]
  BY <1>2
<1>4. ASSUME NEW m \in B!StepNo PROVE steps'[version][m].tried = steps[version][m].tried
  BY <1>2, <1>3
<1>5. \A m \in B!StepNo : steps[version][m].tried \in Nat
  BY <1>2 DEF RowSet
<1> QED
  BY <1>4, <1>5 DEF B!InOrder, B!Runs

LEMMA StepEnds ==
  ASSUME BomInv, NEW n \in DOMAIN run, B!StepDone(n) \/ B!StepFailed(n)
  PROVE  BomInv' /\ B!InOrder
<1>1. BomTypeOK /\ Driven /\ n \in B!StepNo /\ InBatch(n) /\ status = "running"
  BY DEF BomInv, BomTypeOK, Driven, Batched
<1>2. /\ B!StepNo = DOMAIN steps[version] /\ version \in DOMAIN steps
      /\ B!Current = steps[version]
      /\ B!Current[n] \in RowSet
      /\ steps[version] \in Seq(RowSet) /\ steps \in Seq(Seq(RowSet))
  BY <1>1, RowsThere DEF BomTypeOK
<1>3. B!Current[n].state = "running" /\ B!Current[n].tried = B!Current[n].retries + 1
  BY <1>1 DEF InBatch, B!StepDone, B!StepFailed
<1>4. CASE B!StepDone(n)
  <2> DEFINE row == [B!Current[n] EXCEPT !.state = "done"]
  <2>1. /\ row \in RowSet /\ row.state = "done" /\ row.tried = B!Current[n].tried
        /\ row.tried > 0
    <3>1. PICK r \in RowSet : r = B!Current[n]
      BY <1>2
    <3>2. r.tried = r.retries + 1 /\ r.retries \in Nat
      BY <1>3, <3>1 DEF RowSet
    <3>3. [r EXCEPT !.state = "done"] \in RowSet /\ r.tried > 0
      BY <3>2 DEF RowSet
    <3> QED
      BY <3>1, <3>3 DEF RowSet
  <2>2. steps' = [steps EXCEPT ![version] = [steps[version] EXCEPT ![n] = row]]
    BY <1>1, <1>2, <1>4 DEF B!StepDone
  <2>3. Sound(row)
    BY <2>1 DEF Sound
  <2> HIDE DEF row
  <2>4. B!InOrder
    BY <1>1, <2>1, <2>2, NothingRunsHere
  <2> QED
    BY <1>3, <1>4, <2>1, <2>2, <2>3, <2>4, BatchStep DEF B!StepDone, B!StepRuns
<1>5. CASE B!StepFailed(n)
  <2> DEFINE row == [B!Current[n] EXCEPT !.state = "failed", !.retries = @ + 1]
  <2>1. /\ row \in RowSet /\ row.state = "failed" /\ row.tried = B!Current[n].tried
        /\ row.tried = row.retries
    BY <1>2, <1>3 DEF RowSet
  <2>2. steps' = [steps EXCEPT ![version] = [steps[version] EXCEPT ![n] = row]]
    BY <1>1, <1>2, <1>5 DEF B!StepFailed
  <2>3. Sound(row)
    BY <2>1 DEF Sound
  <2> HIDE DEF row
  <2>4. B!InOrder
    BY <1>1, <2>1, <2>2, NothingRunsHere
  <2> QED
    BY <1>3, <1>5, <2>1, <2>2, <2>3, <2>4, BatchStep DEF B!StepFailed, B!StepRuns
<1> QED
  BY <1>4, <1>5

\* A retry makes pending again only what failed, and only within its tries.
LEMMA RetryStep ==
  ASSUME BomInv, B!Retry
  PROVE  BomInv' /\ B!InOrder
<1>1. /\ BomTypeOK /\ Driven /\ Failing /\ status = "running" /\ driver = "failing"
      /\ failures # <<>> /\ DOMAIN run = {}
  BY DEF BomInv, Driven, B!Retry
<1>2. PICK n \in B!StepNo : n = Head(failures) /\ n = failures[1] /\ 1 \in DOMAIN failures
  BY <1>1 DEF BomTypeOK
<1>3. /\ B!StepNo = DOMAIN steps[version] /\ version \in DOMAIN steps
      /\ B!Current = steps[version]
      /\ B!Current[n] \in RowSet
      /\ steps[version] \in Seq(RowSet) /\ steps \in Seq(Seq(RowSet))
  BY <1>1, RowsThere DEF BomTypeOK
<1>4. B!Current[n].state = "failed" /\ B!Current[n].retries <= MaxRetries
  BY <1>1, <1>2 DEF Failing, B!Retry, B!MayRetry
<1>5. B!Current[n].tried = B!Current[n].retries
  BY <1>3, <1>4 DEF BomInv, Tallied, Sound
<1> DEFINE row == [B!Current[n] EXCEPT !.state = "pending"]
<1>6. /\ row \in RowSet /\ row.state = "pending" /\ row.tried = B!Current[n].tried
      /\ row.tried = row.retries /\ row.tried <= MaxRetries
  BY <1>3, <1>4, <1>5 DEF RowSet
<1>7. steps' = [steps EXCEPT ![version] = [steps[version] EXCEPT ![n] = row]]
  BY <1>2, <1>3 DEF B!Retry
<1>8. Sound(row)
  BY <1>6 DEF Sound
<1> HIDE DEF row
<1>9. B!InOrder
  BY <1>1, <1>6, <1>7, NothingRunsHere
<1>10. UNCHANGED <<status, version, bomScope, approved, run>>
  BY DEF B!Retry
<1>11. /\ steps' \in Seq(Seq(RowSet))
       /\ Len(steps') = Len(steps)
       /\ B!StepNo' = B!StepNo
       /\ Tallied'
       /\ \A m \in B!StepNo \ {n} : B!Current'[m] = B!Current[m]
  BY <1>1, <1>4, <1>6, <1>7, <1>8, <1>10, RowWritten
<1>12. /\ failures' = Tail(failures) /\ failures' \in Seq(B!StepNo)
       /\ \A i \in DOMAIN failures' : i + 1 \in DOMAIN failures /\ failures'[i] = failures[i + 1]
       /\ driver' = (IF failures' = <<>> THEN "choosing" ELSE "failing")
  BY <1>1 DEF B!Retry, BomTypeOK
<1>13. Failing'
  <2>1. \A i \in DOMAIN failures' : failures'[i] \in B!StepNo \ {n}
    <3> SUFFICES ASSUME NEW i \in DOMAIN failures' PROVE failures'[i] # n
      BY <1>12
    <3>1. i \in Nat \ {0} /\ i + 1 \in DOMAIN failures /\ i + 1 # 1
      BY <1>12
    <3> QED
      BY <1>1, <1>2, <1>12, <3>1 DEF Failing
  <2>2. \A i \in DOMAIN failures' : B!Current'[failures'[i]].state = "failed"
    BY <1>1, <1>11, <1>12, <2>1 DEF Failing
  <2>3. \A i, j \in DOMAIN failures' : failures'[i] = failures'[j] => i = j
    <3> SUFFICES ASSUME NEW i \in DOMAIN failures', NEW j \in DOMAIN failures',
                        failures'[i] = failures'[j]
                 PROVE  i = j
      OBVIOUS
    <3>1. i \in Nat /\ j \in Nat /\ i + 1 = j + 1
      BY <1>1, <1>12 DEF Failing
    <3> QED
      BY <3>1
  <2> QED
    BY <1>1, <1>10, <2>2, <2>3 DEF Failing
<1>14. BomTypeOK'
  BY <1>1, <1>10, <1>11, <1>12 DEF BomTypeOK
<1>15. Driven'
  BY <1>1, <1>10, <1>11, <1>12 DEF Driven
<1>16. B!EndsClean' /\ Batched'
  BY <1>1, <1>10, StillRunning DEF Batched
<1> QED
  BY <1>9, <1>11, <1>13, <1>14, <1>15, <1>16 DEF BomInv

LEMMA StartBatchStep ==
  ASSUME BomInv, B!StartBatch
  PROVE  BomInv' /\ B!InOrder
<1>1. /\ BomTypeOK /\ Driven /\ status = "running" /\ driver = "choosing"
      /\ failures = <<>> /\ DOMAIN run = {}
  BY DEF BomInv, Driven, B!StartBatch
<1>2. /\ B!StepNo = DOMAIN steps[version] /\ version \in DOMAIN steps
      /\ B!Current = steps[version]
      /\ \A n \in B!StepNo : B!Current[n] \in RowSet /\ Sound(B!Current[n])
      /\ steps[version] \in Seq(RowSet) /\ steps \in Seq(Seq(RowSet))
  BY <1>1, RowsThere DEF BomTypeOK, BomInv, Tallied
<1>3. \A n \in B!Batch : n \in B!StepNo /\ B!Current[n].state = "pending" /\ Met(n)
  BY DEF B!Batch, B!ReadySteps, B!Ready, Met
<1> DEFINE rows == [n \in B!StepNo |->
                      IF n \in B!Batch THEN [B!Current[n] EXCEPT !.state = "running"]
                      ELSE B!Current[n]]
<1>4. ASSUME NEW n \in B!StepNo
      PROVE  /\ rows[n] \in RowSet
             /\ rows[n].tried = B!Current[n].tried /\ rows[n].retries = B!Current[n].retries
             /\ rows[n].needs = B!Current[n].needs
             /\ rows[n].state = IF n \in B!Batch THEN "running" ELSE B!Current[n].state
  BY <1>2 DEF RowSet
<1>5. rows \in [B!StepNo -> RowSet]
  BY <1>4
<1>6. steps' = [steps EXCEPT ![version] = rows]
  BY DEF B!StartBatch
<1>7. UNCHANGED <<status, version, bomScope, approved, failures>>
  BY DEF B!StartBatch
<1>8. \A n \in B!StepNo : Sound(rows[n])
  BY <1>2, <1>4 DEF Sound
<1> HIDE DEF rows
<1>9. /\ steps' \in Seq(Seq(RowSet)) /\ Len(steps') = Len(steps)
      /\ B!StepNo' = B!StepNo /\ B!Current' = rows /\ Tallied'
  BY <1>1, <1>5, <1>6, <1>7, <1>8, RowsWritten DEF BomInv
<1>10. /\ run' = [n \in B!Batch |-> "starting"] /\ DOMAIN run' = B!Batch
       /\ driver' = "batch"
  BY DEF B!StartBatch
<1>11. Batched'
  <2> SUFFICES ASSUME NEW n \in B!Batch PROVE InBatch(n)'
    BY <1>10 DEF Batched
  <2>1. n \in B!StepNo /\ B!Current[n].state = "pending" /\ Met(n)
    BY <1>3
  <2>2. /\ rows[n].state = "running" /\ rows[n].tried = rows[n].retries
        /\ rows[n].tried <= MaxRetries
    BY <1>2, <1>4, <2>1 DEF Sound
  <2>3. Met(n)'
    <3>1. \A d \in rows[n].needs : d \in B!StepNo /\ B!Current[d].state = "done"
      BY <1>4, <2>1 DEF Met
    <3>2. \A d \in rows[n].needs : d \notin B!Batch
      BY <1>3, <3>1
    <3>3. \A d \in rows[n].needs : rows[d].state = "done"
      BY <1>4, <3>1, <3>2
    <3> QED
      BY <1>9, <3>1, <3>3 DEF Met
  <2> QED
    BY <1>9, <1>10, <2>2, <2>3 DEF InBatch
<1>12. BomTypeOK'
  <2>1. DOMAIN run' \subseteq B!StepNo' /\ failures' \in Seq(B!StepNo')
    BY <1>1, <1>3, <1>7, <1>9, <1>10 DEF BomTypeOK
  <2>2. run' \in [DOMAIN run' -> {"starting", "executing", "reporting", "failing"}]
    BY <1>10
  <2> QED
    BY <1>1, <1>7, <1>9, <1>10, <2>1, <2>2 DEF BomTypeOK
<1>13. Driven'
  BY <1>1, <1>7, <1>9, <1>10 DEF Driven
<1>14. Failing' /\ B!EndsClean'
  BY <1>1, <1>7, StillRunning DEF Failing
<1>15. B!InOrder
  <2>1. \A n \in B!StepNo : steps'[version][n].tried = steps[version][n].tried
    BY <1>2, <1>4, <1>6
  <2>2. \A n \in B!StepNo : steps[version][n].tried \in Nat
    BY <1>2 DEF RowSet
  <2> QED
    BY <2>1, <2>2 DEF B!InOrder, B!Runs
<1> QED
  BY <1>9, <1>11, <1>12, <1>13, <1>14, <1>15 DEF BomInv

\* What the planner comes up with is a sequence of untouched rows.
LEMMA FreshRows ==
  ASSUME NEW plan \in Plans
  PROVE  /\ B!Fresh(plan) \in Seq(RowSet) /\ DOMAIN plan = 1 .. Len(plan) /\ Len(plan) \in Nat
         /\ DOMAIN B!Fresh(plan) = DOMAIN plan
         /\ \A n \in DOMAIN plan : /\ plan[n] \in SUBSET Nat
                                   /\ B!Fresh(plan)[n] \in RowSet /\ Sound(B!Fresh(plan)[n])
<1>1. /\ plan \in Seq(SUBSET Nat) /\ DOMAIN plan = 1 .. Len(plan) /\ Len(plan) \in Nat
      /\ \A n \in DOMAIN plan : plan[n] \in SUBSET Nat
  BY ScopeUsersAssumption
<1>2. ASSUME NEW n \in DOMAIN plan
      PROVE  B!Fresh(plan)[n] \in RowSet /\ Sound(B!Fresh(plan)[n])
  BY <1>1, ScopeUsersAssumption DEF B!Fresh, RowSet, Sound
<1>3. B!Fresh(plan) \in [1 .. Len(plan) -> RowSet]
  BY <1>1, <1>2 DEF B!Fresh
<1> QED
  BY <1>1, <1>2, <1>3, SeqDef

\* Saving a version adds one at the end or rewrites the one after the current.
LEMMA VersionSaved ==
  ASSUME BomTypeOK, Driven, Tallied, status # "none", NEW plan \in Plans,
         steps' = B!Saved(plan)
  PROVE  /\ steps' \in Seq(Seq(RowSet))
         /\ Len(steps') = version + 1
         /\ steps'[version] = steps[version]
         /\ Tallied'
<1>1. /\ version \in DOMAIN steps /\ steps \in Seq(Seq(RowSet)) /\ version \in Nat \ {0}
      /\ Len(steps) \in {version, version + 1}
  BY RowsThere DEF BomTypeOK, Driven
<1>2. CASE version = Len(steps)
  <2>1. steps' = Append(steps, B!Fresh(plan)) /\ B!Fresh(plan) \in Seq(RowSet)
    BY <1>2, FreshRows DEF B!Saved
  <2>2. /\ steps' \in Seq(Seq(RowSet)) /\ Len(steps') = version + 1
        /\ \A v \in DOMAIN steps : steps'[v] = steps[v]
        /\ \A v \in DOMAIN steps' : v \in DOMAIN steps \/ steps'[v] = B!Fresh(plan)
    BY <1>1, <1>2, <2>1
  <2>3. \A n \in DOMAIN B!Fresh(plan) : Sound(B!Fresh(plan)[n])
    BY FreshRows
  <2>4. Tallied'
    <3> SUFFICES ASSUME NEW v \in DOMAIN steps', NEW n \in DOMAIN steps'[v]
                 PROVE  Sound(steps'[v][n])
      BY DEF Tallied, Sound
    <3> QED
      BY <2>2, <2>3 DEF Tallied
  <2> QED
    BY <1>1, <2>2, <2>4
<1>3. CASE version # Len(steps)
  <2> DEFINE old == steps[version + 1]
             rows == [n \in DOMAIN plan |->
                        IF n \in DOMAIN old THEN [old[n] EXCEPT !.needs = plan[n]]
                        ELSE B!Fresh(plan)[n]]
  <2>1. version + 1 \in DOMAIN steps /\ Len(steps) = version + 1 /\ old \in Seq(RowSet)
    BY <1>1, <1>3
  <2>2. steps' = [steps EXCEPT ![version + 1] = rows]
    BY <1>3 DEF B!Saved
  <2>3. ASSUME NEW n \in DOMAIN plan
        PROVE  rows[n] \in RowSet /\ Sound(rows[n])
    <3>1. CASE n \in DOMAIN old
      <4>1. PICK r \in RowSet : r = old[n] /\ Sound(r)
        BY <2>1, <3>1 DEF Tallied
      <4>2. plan[n] \in SUBSET Nat
        BY FreshRows
      <4>3. [r EXCEPT !.needs = plan[n]] \in RowSet /\ Sound([r EXCEPT !.needs = plan[n]])
        BY <4>1, <4>2 DEF RowSet, Sound
      <4> QED
        BY <3>1, <4>1, <4>3
    <3>2. CASE n \notin DOMAIN old
      BY <3>2, FreshRows
    <3> QED
      BY <3>1, <3>2
  <2>4. DOMAIN rows = DOMAIN plan
    OBVIOUS
  <2>5. rows \in [1 .. Len(plan) -> RowSet] /\ Len(plan) \in Nat
    BY <2>3, FreshRows
  <2> HIDE DEF rows, old
  <2>6. rows \in Seq(RowSet)
    BY <2>5, SeqDef
  <2>7. /\ steps' \in Seq(Seq(RowSet)) /\ Len(steps') = version + 1
        /\ DOMAIN steps' = DOMAIN steps
        /\ steps'[version + 1] = rows
        /\ \A v \in DOMAIN steps \ {version + 1} : steps'[v] = steps[v]
    BY <1>1, <2>1, <2>2, <2>6
  <2>8. Tallied'
    <3> SUFFICES ASSUME NEW v \in DOMAIN steps', NEW n \in DOMAIN steps'[v]
                 PROVE  Sound(steps'[v][n])
      BY DEF Tallied, Sound
    <3> QED
      BY <2>3, <2>4, <2>7 DEF Tallied
  <2> QED
    BY <1>1, <2>7, <2>8
<1> QED
  BY <1>2, <1>3

LEMMA ReplanStep ==
  ASSUME BomInv, NEW plan \in Plans, NEW escalates \in BOOLEAN, B!Replan(plan, escalates)
  PROVE  BomInv' /\ B!InOrder
<1>1. /\ BomTypeOK /\ Driven /\ Tallied /\ status = "running"
      /\ failures = <<>> /\ DOMAIN run = {}
  BY DEF BomInv, Driven, B!Replan
<1>2. /\ steps' \in Seq(Seq(RowSet)) /\ Len(steps') = version + 1
      /\ steps'[version] = steps[version] /\ Tallied'
  BY <1>1, VersionSaved DEF B!Replan
<1>3. /\ version' = (IF escalates THEN version ELSE version + 1)
      /\ driver' = (IF escalates THEN "escalated" ELSE "replanned")
      /\ UNCHANGED <<status, bomScope, approved, run, failures>>
  BY DEF B!Replan
<1>4. BomTypeOK'
  <2>1. DOMAIN run' \subseteq B!StepNo' /\ failures' \in Seq(B!StepNo')
    BY <1>1, <1>3
  <2>2. version' \in Nat \ {0}
    BY <1>1, <1>3 DEF BomTypeOK
  <2> QED
    BY <1>1, <1>2, <1>3, <2>1, <2>2 DEF BomTypeOK
<1>5. Driven'
  BY <1>1, <1>2, <1>3 DEF Driven, BomTypeOK
<1>6. Batched' /\ Failing' /\ B!EndsClean'
  BY <1>1, <1>3, StillRunning DEF Batched, Failing
<1>7. B!InOrder
  <2> SUFFICES ASSUME NEW n \in B!StepNo, B!Runs(n) PROVE FALSE
    BY DEF B!InOrder
  <2>1. steps[version][n] \in RowSet
    BY <1>1, RowsThere DEF B!Current
  <2> QED
    BY <1>2, <2>1 DEF B!Runs, RowSet
<1> QED
  BY <1>2, <1>4, <1>5, <1>6, <1>7 DEF BomInv

LEMMA ProposePlanStep ==
  ASSUME BomInv, NEW plan \in Plans, B!ProposePlan(plan)
  PROVE  BomInv' /\ B!InOrder
<1>1. /\ BomTypeOK /\ Driven /\ status = "none" /\ version = 1
      /\ B!StepNo = {} /\ driver = "none" /\ ~approved
  BY DEF BomInv, Driven, BomTypeOK, B!ProposePlan, B!StepNo, B!Ended
<1>2. DOMAIN run = {} /\ failures = <<>>
  BY <1>1 DEF Driven
<1>3. steps' = <<B!Fresh(plan)>> /\ B!Fresh(plan) \in Seq(RowSet) /\ status' = "proposed"
  BY FreshRows DEF B!ProposePlan
<1>4. UNCHANGED <<version, bomScope, approved, driver, run, failures>>
  BY DEF B!ProposePlan, B!loopVars
<1>5. /\ steps' \in Seq(Seq(RowSet)) /\ Len(steps') = 1
      /\ \A v \in DOMAIN steps' : steps'[v] = B!Fresh(plan)
  BY <1>3
<1>6. Tallied'
  <2> SUFFICES ASSUME NEW v \in DOMAIN steps', NEW n \in DOMAIN steps'[v]
               PROVE  Sound(steps'[v][n])
    BY DEF Tallied, Sound
  <2> QED
    BY <1>5, FreshRows
<1>7. BomTypeOK'
  <2>1. DOMAIN run' \subseteq B!StepNo' /\ failures' \in Seq(B!StepNo')
    BY <1>2, <1>4
  <2> QED
    BY <1>1, <1>3, <1>4, <1>5, <2>1 DEF BomTypeOK
<1>8. Driven'
  BY <1>1, <1>2, <1>3, <1>4, <1>5 DEF Driven
<1>9. Batched' /\ Failing' /\ B!EndsClean'
  BY <1>2, <1>3, <1>4 DEF Batched, Failing, B!EndsClean, B!Ended
<1>10. B!InOrder
  BY <1>1 DEF B!InOrder
<1> QED
  BY <1>6, <1>7, <1>8, <1>9, <1>10 DEF BomInv

LEMMA BomStep ==
  ASSUME BomInv, B!Next
  PROVE  BomInv' /\ B!InOrder
<1>1. ASSUME NEW plan \in Plans, B!ProposePlan(plan) PROVE BomInv' /\ B!InOrder
  BY <1>1, ProposePlanStep
<1>2. ASSUME NEW n \in DOMAIN run,
             B!Execute(n) \/ B!StepDone(n) \/ B!StepFailed(n) \/ B!Reported(n)
      PROVE  BomInv' /\ B!InOrder
  BY <1>2, ExecuteStep, StepEnds, ReportedStep
<1>3. ASSUME NEW plan \in Plans, NEW escalates \in BOOLEAN, B!Replan(plan, escalates)
      PROVE  BomInv' /\ B!InOrder
  BY <1>3, ReplanStep
<1>4. CASE B!StartBatch \/ B!Finish \/ B!Retry
  BY <1>4, StartBatchStep, FinishStep, RetryStep
<1> QED
  BY <1>1, <1>2, <1>3, <1>4, LoopMoves DEF B!Next, B!Loop

LEMMA BomBegins ==
  ASSUME B!Init
  PROVE  BomInv
<1>1. /\ status = "none" /\ version = 1 /\ steps = <<>> /\ bomScope = "none" /\ approved = FALSE
      /\ driver = "none" /\ run = <<>> /\ DOMAIN run = {} /\ failures = <<>>
  BY DEF B!Init
<1>2. DOMAIN run \subseteq B!StepNo /\ failures \in Seq(B!StepNo)
      /\ run \in [DOMAIN run -> {"starting", "executing", "reporting", "failing"}]
  BY <1>1
<1>3. BomTypeOK
  <2>1. steps \in Seq(Seq(RowSet))
    BY <1>1
  <2>2. status = "none" /\ version \in Nat \ {0} /\ bomScope = "none" /\ driver = "none"
    BY <1>1
  <2>3. approved \in BOOLEAN
    BY <1>1
  <2> QED
    BY <1>2, <2>1, <2>2, <2>3 DEF BomTypeOK
<1>4. Driven /\ Tallied /\ Batched /\ Failing /\ B!EndsClean
  BY <1>1 DEF Driven, Tallied, Batched, Failing, B!EndsClean, B!Ended
<1> QED
  BY <1>3, <1>4 DEF BomInv

-----------------------------------------------------------------------------
(* The three side by side.                                                 *)

Inv ==
  /\ part \in {"reporter", "bom", "host"}
  /\ IF part = "reporter" THEN ReporterInv ELSE \A s \in Scope : reports[s] = <<>>
  /\ part = "host" => HostInv
  /\ BomInv

LEMMA EitherBegins == EitherInit => Inv
<1> SUFFICES ASSUME EitherInit PROVE Inv
  OBVIOUS
<1>1. ReporterInv /\ \A s \in Scope : reports[s] = <<>>
  BY ReporterBegins DEF EitherInit, Init
<1> QED
  BY <1>1, HostBegins, BomBegins DEF EitherInit, Inv

LEMMA BomAlone ==
  ASSUME BomInv, UNCHANGED bom
  PROVE  BomInv' /\ UNCHANGED B!vars
<1>1. UNCHANGED <<status, version, steps, bomScope, approved, driver, run, failures,
                  replans, bomRestarts>>
  BY DEF bom
<1>2. B!StepNo' = B!StepNo /\ B!Current' = B!Current
  BY <1>1 DEF B!StepNo, B!Current
<1>3. BomTypeOK' /\ Driven' /\ Tallied' /\ Failing' /\ B!EndsClean'
  BY <1>1, <1>2 DEF BomInv, BomTypeOK, Driven, Tallied, Failing, B!EndsClean
<1>4. Batched'
  BY <1>1, <1>2 DEF BomInv, Batched, InBatch, Met
<1> QED
  BY <1>1, <1>3, <1>4 DEF BomInv, B!vars, B!bomVars, B!loopVars

LEMMA HostAlone ==
  ASSUME HostInv, UNCHANGED <<storeVars, host>>
  PROVE  HostInv'
<1>1. HostTypeOK' /\ ChildKnown' /\ X!AnswerMeansOver'
  BY DEF HostInv, host, HostTypeOK, ChildKnown, X!AnswerMeansOver
<1> QED
  BY <1>1, QuietStep DEF host

LEMMA EitherStep ==
  ASSUME Inv, [EitherNext]_all
  PROVE  Inv' /\ [B!InOrder]_(B!vars)
<1>1. CASE ReporterRuns(Next)
  <2>1. part = "reporter" /\ part' = part /\ UNCHANGED bom /\ ReporterInv'
    BY <1>1, ReporterStep DEF ReporterRuns, Inv
  <2> QED
    BY <2>1, BomAlone DEF Inv
<1>2. CASE BomRuns(B!Next)
  <2>1. part = "bom" /\ part' = part /\ reports' = reports
    BY <1>2 DEF BomRuns, vars, reporterVars
  <2>2. BomInv' /\ B!InOrder
    BY <1>2, BomStep DEF BomRuns, Inv
  <2> QED
    BY <2>1, <2>2 DEF Inv
<1>3. CASE HostRuns(X!Next)
  <2>1. part = "host" /\ part' = part /\ reports' = reports /\ UNCHANGED bom /\ HostInv'
    BY <1>3, HostStep DEF HostRuns, Inv, reporterVars
  <2> QED
    BY <2>1, BomAlone DEF Inv
<1>4. CASE UNCHANGED all
  <2>1. /\ part' = part /\ UNCHANGED <<bom, host, storeVars, callVars, posted, reporterVars,
                                       restarts>>
        /\ reports' = reports
    BY <1>4 DEF all, vars, reporterVars
  <2>2. part = "reporter" => ReporterInv'
    <3> SUFFICES ASSUME part = "reporter" PROVE ReporterInv'
      OBVIOUS
    <3>1. ReporterInv /\ Evolves
      BY <2>1, StoreStutter DEF Inv, ReporterInv
    <3> QED
      BY <2>1, <3>1, StoreStep
  <2> QED
    BY <2>1, <2>2, BomAlone, HostAlone DEF Inv
<1> QED
  BY <1>1, <1>2, <1>3, <1>4 DEF EitherNext

LEMMA EitherInvariant == EitherSpec => []Inv /\ [][B!InOrder]_(B!vars)
<1>1. Inv /\ [EitherNext]_all => Inv'
  BY EitherStep
<1>2. Inv /\ [EitherNext]_all => [B!InOrder]_(B!vars)
  BY EitherStep
<1> QED
  BY <1>1, <1>2, EitherBegins, PTL DEF EitherSpec

\* The reporter says of a scope what is so, and one daemon once: with any
\* scopes, calls and cadences, after any number of restarts, and wherever its
\* handlers were suspended.
THEOREM ReportsAlwaysTrue == EitherSpec => []ReportsTrue
<1>1. Inv => ReportsTrue
  <2> SUFFICES ASSUME Inv PROVE ReportsTrue
    OBVIOUS
  <2>1. CASE part = "reporter"
    BY <2>1, ReportsAsPromised DEF Inv, ReporterInv
  <2>2. CASE part # "reporter"
    <3>1. ASSUME NEW s \in Scope
          PROVE  DOMAIN reports[s] = {} /\ ReportsOf(s) = {}
      BY <2>2 DEF Inv, ReportsOf
    <3> QED
      BY <3>1 DEF ReportsTrue
  <2> QED
    BY <2>1, <2>2
<1> QED
  BY <1>1, EitherInvariant, PTL

\* An answered command is over and its scope paid for it once, with any number
\* of commands, scopes and operators.
THEOREM HostCommandsAlwaysHonest == EitherSpec => []HostCommandsHonest
<1>1. Inv => HostCommandsHonest
  BY DEF Inv, HostInv, HostCommandsHonest, StoreInv
<1> QED
  BY <1>1, EitherInvariant, PTL

\* An ended BOM holds no active scope and a done one has done its steps; steps
\* run in their order, in a running BOM and within their tries, whatever the
\* plans and the bounds.
THEOREM BomAlwaysKeepsPlan == EitherSpec => BomKeepsPlan
<1>1. Inv => B!EndsClean
  BY DEF Inv, BomInv
<1> QED
  BY <1>1, EitherInvariant, PTL DEF BomKeepsPlan, B!RunsInOrder
=============================================================================
