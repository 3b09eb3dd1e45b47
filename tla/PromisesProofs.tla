--------------------------- MODULE PromisesProofs ---------------------------
(***************************************************************************)
(* The safety of three components that promise an end to who waits for     *)
(* them, for every value of their constants: the decision rendezvous, the  *)
(* binding of a job and the daemon's handle on the Steward agent.          *)
(*                                                                         *)
(* None of the safety invariants of Decisions is inductive by itself: that *)
(* a requester is told the recorded option depends on the promise agreeing *)
(* with the row, which depends on answers being final, which depends on    *)
(* only open rows being written.  IInv collects what they need of each     *)
(* other, one conjunct per idea.  BindingInv does the same for a binding:  *)
(* what "exited" means, and which requests can still be answered.          *)
(***************************************************************************)
EXTENDS MCPromises, Sequences, TLAPS

-----------------------------------------------------------------------------
(* The decision rendezvous.                                                *)


\* Nothing exists of a decision that was never opened.
UnopenedIsBlank ==
  \A d \in Decision : row[d].status = "absent" =>
    row[d] = Absent /\ call[d] = "idle" /\ log[d] = {}

\* A row carries a choice exactly when it is responded.
ChoiceWhenResponded ==
  \A d \in Decision :
    /\ row[d].status = "responded" => row[d].chosen \in Option
    /\ row[d].status \in {"open", "expired"} =>
         row[d].chosen = None /\ row[d].by = None /\ log[d] = {}

\* A running requester has a row that is open or responded.
ActiveHasRow ==
  \A d \in Decision : call[d] \in Active =>
    up /\ row[d].status \in {"open", "responded"}

\* A resolved promise holds the recorded choice.
PromiseIsRecorded ==
  \A d \in Decision : call[d] = "resolved" =>
    row[d].status = "responded" /\ promise[d] = row[d].chosen

\* Only an overdue decision times out.
TimeoutIsDue ==
  \A d \in Decision : call[d] = "timedout" => d \in overdue

\* The inductive invariant of the rendezvous.
IInv ==
  /\ TypeOK
  /\ UnopenedIsBlank
  /\ ChoiceWhenResponded
  /\ ActiveHasRow
  /\ PromiseIsRecorded
  /\ TimeoutIsDue
  /\ ToldIsRecorded
  /\ NoLostWakeup
  /\ AnswerAuthorised
  /\ LogAgrees
  /\ SweepIsSafe

LEMMA InitIInv == Init => IInv
BY DecisionsAssumption
   DEF Init, IInv, TypeOK, Row, Absent, Status, Caller, CallState, Active, Told,
       UnopenedIsBlank, ChoiceWhenResponded, ActiveHasRow, PromiseIsRecorded,
       TimeoutIsDue, ToldIsRecorded, NoLostWakeup, AnswerAuthorised, LogAgrees,
       SweepIsSafe

\* Writing an answer keeps the type of the table.
LEMMA CloseRowType ==
  ASSUME TypeOK, NEW d \in Decision, NEW option \in Option,
         NEW by \in Actor \cup {SwitchDefault}, CloseRow(d, option, by)
  PROVE  row' \in [Decision -> Row]
<1>1. row' = [row EXCEPT ![d] = [row[d] EXCEPT !.status = "responded",
                                    !.chosen = option, !.by = by]]
  BY DEF CloseRow
<1>2. row[d] \in Row
  BY DEF TypeOK
<1>3. [row[d] EXCEPT !.status = "responded", !.chosen = option, !.by = by]
        \in Row
  BY <1>2 DEF Row, Status
<1> QED
  BY <1>1, <1>3 DEF TypeOK

LEMMA BeginWaitStep ==
  ASSUME NEW d \in Decision, IInv, BeginWait(d)
  PROVE  IInv'
<1> USE DecisionsAssumption DEF IInv, TypeOK, BeginWait, WaitState
<1>1. TypeOK'
  BY DEF CallState, Row
<1>2. ActiveHasRow'
  BY DEF ActiveHasRow, UnopenedIsBlank, Active
<1>3. PromiseIsRecorded'
  BY DEF PromiseIsRecorded, ActiveHasRow, NoLostWakeup, ChoiceWhenResponded,
         UnopenedIsBlank, Active
<1>4. TimeoutIsDue'
  BY DEF TimeoutIsDue
<1>5. ToldIsRecorded'
  BY DEF ToldIsRecorded, PromiseIsRecorded, UnopenedIsBlank, Told, Active
<1>6. NoLostWakeup'
  BY DEF NoLostWakeup, ActiveHasRow, Active
<1>7. SweepIsSafe'
  BY DEF SweepIsSafe, ActiveHasRow, Active
<1>8. UnopenedIsBlank'
  BY DEF UnopenedIsBlank
<1>9. /\ ChoiceWhenResponded'
     /\ AnswerAuthorised'
     /\ LogAgrees'
  BY DEF ChoiceWhenResponded, AnswerAuthorised, LogAgrees
<1> QED
  BY <1>1, <1>2, <1>3, <1>4, <1>5, <1>6, <1>7, <1>8, <1>9

LEMMA ResumeStep ==
  ASSUME NEW d \in Decision, IInv, Resume(d)
  PROVE  IInv'
<1> USE DecisionsAssumption DEF IInv, TypeOK, Resume
<1>1. TypeOK'
  BY DEF CallState, Row
<1>2. ActiveHasRow'
  BY DEF ActiveHasRow, UnopenedIsBlank, Active
<1>3. PromiseIsRecorded'
  BY DEF PromiseIsRecorded, ActiveHasRow, NoLostWakeup, ChoiceWhenResponded,
         UnopenedIsBlank, Active
<1>4. TimeoutIsDue'
  BY DEF TimeoutIsDue
<1>5. ToldIsRecorded'
  BY DEF ToldIsRecorded, PromiseIsRecorded, UnopenedIsBlank, Told, Active
<1>6. NoLostWakeup'
  BY DEF NoLostWakeup, ActiveHasRow, Active
<1>7. SweepIsSafe'
  BY DEF SweepIsSafe, ActiveHasRow, Active
<1>8. UnopenedIsBlank'
  BY DEF UnopenedIsBlank
<1>9. /\ ChoiceWhenResponded'
     /\ AnswerAuthorised'
     /\ LogAgrees'
  BY DEF ChoiceWhenResponded, AnswerAuthorised, LogAgrees
<1> QED
  BY <1>1, <1>2, <1>3, <1>4, <1>5, <1>6, <1>7, <1>8, <1>9

LEMMA TimerFiresStep ==
  ASSUME NEW d \in Decision, IInv, TimerFires(d)
  PROVE  IInv'
<1> USE DecisionsAssumption DEF IInv, TypeOK, TimerFires
<1>1. TypeOK'
  BY DEF CallState, Row
<1>2. ActiveHasRow'
  BY DEF ActiveHasRow, UnopenedIsBlank, Active
<1>3. PromiseIsRecorded'
  BY DEF PromiseIsRecorded, ActiveHasRow, NoLostWakeup, ChoiceWhenResponded,
         UnopenedIsBlank, Active
<1>4. TimeoutIsDue'
  BY DEF TimeoutIsDue
<1>5. ToldIsRecorded'
  BY DEF ToldIsRecorded, PromiseIsRecorded, UnopenedIsBlank, Told, Active
<1>6. NoLostWakeup'
  BY DEF NoLostWakeup, ActiveHasRow, Active
<1>7. SweepIsSafe'
  BY DEF SweepIsSafe, ActiveHasRow, Active
<1>8. UnopenedIsBlank'
  BY DEF UnopenedIsBlank
<1>9. /\ ChoiceWhenResponded'
     /\ AnswerAuthorised'
     /\ LogAgrees'
  BY DEF ChoiceWhenResponded, AnswerAuthorised, LogAgrees
<1> QED
  BY <1>1, <1>2, <1>3, <1>4, <1>5, <1>6, <1>7, <1>8, <1>9

LEMMA FallbackWritesStep ==
  ASSUME NEW d \in Decision, IInv, FallbackWrites(d)
  PROVE  IInv'
<1> USE DecisionsAssumption DEF IInv, TypeOK, FallbackWrites, FallbackDue, Closable
<1>1. row[d].dflt \in Option
  BY DEF Row
<1>2. row' \in [Decision -> Row]
  BY <1>1, CloseRowType
<1>3. TypeOK'
  <2>1. [option |-> row[d].dflt, by |-> SwitchDefault] \in Reply
    BY <1>1 DEF Reply
  <2>2. log' \in [Decision -> SUBSET Reply]
    BY <2>1
  <2> QED
    BY <1>1, <1>2, <2>2 DEF CallState
<1>4. UnopenedIsBlank'
  BY DEF CloseRow, UnopenedIsBlank, Row
<1>5. ChoiceWhenResponded'
  BY DEF CloseRow, ChoiceWhenResponded, UnopenedIsBlank, Row
<1>6. ActiveHasRow'
  BY DEF CloseRow, ActiveHasRow, UnopenedIsBlank, Active, Row
<1>7. PromiseIsRecorded'
  BY DEF CloseRow, PromiseIsRecorded, ActiveHasRow, NoLostWakeup, ChoiceWhenResponded,
         UnopenedIsBlank, Active, Row
<1>8. TimeoutIsDue'
  BY DEF CloseRow, TimeoutIsDue, Row
<1>9. ToldIsRecorded'
  BY DEF CloseRow, ToldIsRecorded, PromiseIsRecorded, UnopenedIsBlank, Told, Active,
         Row
<1>10. NoLostWakeup'
  BY DEF CloseRow, NoLostWakeup, ActiveHasRow, Active, Row
<1>11. AnswerAuthorised'
  BY DEF CloseRow, AnswerAuthorised, TimeoutIsDue, UnopenedIsBlank, Row
<1>12. LogAgrees'
  BY DEF CloseRow, LogAgrees, ChoiceWhenResponded, UnopenedIsBlank, Row
<1>13. SweepIsSafe'
  BY DEF CloseRow, SweepIsSafe, ActiveHasRow, Active, Row
<1> QED
  BY <1>3, <1>4, <1>5, <1>6, <1>7, <1>8, <1>9, <1>10, <1>11, <1>12, <1>13

LEMMA FallbackReadsStep ==
  ASSUME NEW d \in Decision, IInv, FallbackReads(d)
  PROVE  IInv'
<1> USE DecisionsAssumption DEF IInv, TypeOK, FallbackReads, LandedAnswer
<1>1. TypeOK'
  BY DEF CallState, Row
<1>2. ActiveHasRow'
  BY DEF ActiveHasRow, UnopenedIsBlank, Active
<1>3. PromiseIsRecorded'
  BY DEF PromiseIsRecorded, ActiveHasRow, NoLostWakeup, ChoiceWhenResponded,
         UnopenedIsBlank, Active
<1>4. TimeoutIsDue'
  BY DEF TimeoutIsDue
<1>5. ToldIsRecorded'
  BY DEF ToldIsRecorded, PromiseIsRecorded, UnopenedIsBlank, Told, Active
<1>6. NoLostWakeup'
  BY DEF NoLostWakeup, ActiveHasRow, Active
<1>7. SweepIsSafe'
  BY DEF SweepIsSafe, ActiveHasRow, Active
<1>8. UnopenedIsBlank'
  BY DEF UnopenedIsBlank
<1>9. /\ ChoiceWhenResponded'
     /\ AnswerAuthorised'
     /\ LogAgrees'
  BY DEF ChoiceWhenResponded, AnswerAuthorised, LogAgrees
<1> QED
  BY <1>1, <1>2, <1>3, <1>4, <1>5, <1>6, <1>7, <1>8, <1>9

LEMMA FallbackFailsStep ==
  ASSUME NEW d \in Decision, IInv, FallbackFails(d)
  PROVE  IInv'
<1> USE DecisionsAssumption DEF IInv, TypeOK, FallbackFails
<1>1. TypeOK'
  BY DEF CallState, Row
<1>2. ActiveHasRow'
  BY DEF ActiveHasRow, UnopenedIsBlank, Active
<1>3. PromiseIsRecorded'
  BY DEF PromiseIsRecorded, ActiveHasRow, NoLostWakeup, ChoiceWhenResponded,
         UnopenedIsBlank, Active
<1>4. TimeoutIsDue'
  BY DEF TimeoutIsDue
<1>5. ToldIsRecorded'
  BY DEF ToldIsRecorded, PromiseIsRecorded, UnopenedIsBlank, Told, Active
<1>6. NoLostWakeup'
  BY DEF NoLostWakeup, ActiveHasRow, Active
<1>7. SweepIsSafe'
  BY DEF SweepIsSafe, ActiveHasRow, Active
<1>8. UnopenedIsBlank'
  BY DEF UnopenedIsBlank
<1>9. /\ ChoiceWhenResponded'
     /\ AnswerAuthorised'
     /\ LogAgrees'
  BY DEF ChoiceWhenResponded, AnswerAuthorised, LogAgrees
<1> QED
  BY <1>1, <1>2, <1>3, <1>4, <1>5, <1>6, <1>7, <1>8, <1>9

LEMMA DeadlinePassesStep ==
  ASSUME NEW d \in Decision, IInv, DeadlinePasses(d)
  PROVE  IInv'
<1> USE DecisionsAssumption DEF IInv, TypeOK, DeadlinePasses
<1>1. TypeOK'
  BY DEF CallState, Row
<1>2. TimeoutIsDue'
  BY DEF TimeoutIsDue
<1>3. AnswerAuthorised'
  BY DEF AnswerAuthorised, TimeoutIsDue, UnopenedIsBlank
<1>4. SweepIsSafe'
  BY DEF SweepIsSafe, ActiveHasRow, Active
<1>5. /\ UnopenedIsBlank'
     /\ ChoiceWhenResponded'
     /\ ActiveHasRow'
     /\ PromiseIsRecorded'
     /\ ToldIsRecorded'
     /\ NoLostWakeup'
     /\ LogAgrees'
  BY DEF UnopenedIsBlank, ChoiceWhenResponded, ActiveHasRow,
         PromiseIsRecorded, ToldIsRecorded, NoLostWakeup, LogAgrees, Active,
         Told
<1> QED
  BY <1>1, <1>2, <1>3, <1>4, <1>5

LEMMA OpenStep ==
  ASSUME NEW d \in Decision, NEW offered \in SUBSET Option,
         NEW dflt \in Option \cup {None}, NEW source \in Actor \cup {None},
         NEW caller \in Caller, IInv, Open(d, offered, dflt, source, caller)
  PROVE  IInv'
<1> USE DecisionsAssumption DEF IInv, TypeOK, Open, Absent
<1>1. TypeOK'
  BY DEF Row, Status, CallState
<1>2. UnopenedIsBlank'
  BY DEF UnopenedIsBlank
<1>3. ChoiceWhenResponded'
  BY DEF ChoiceWhenResponded, UnopenedIsBlank
<1>4. ActiveHasRow'
  BY DEF ActiveHasRow, UnopenedIsBlank, Active
<1>5. PromiseIsRecorded'
  BY DEF PromiseIsRecorded, ActiveHasRow, NoLostWakeup, ChoiceWhenResponded,
         UnopenedIsBlank, Active
<1>6. TimeoutIsDue'
  BY DEF TimeoutIsDue
<1>7. ToldIsRecorded'
  BY DEF ToldIsRecorded, PromiseIsRecorded, UnopenedIsBlank, Told, Active
<1>8. NoLostWakeup'
  BY DEF NoLostWakeup, ActiveHasRow, Active
<1>9. AnswerAuthorised'
  BY DEF AnswerAuthorised, TimeoutIsDue, UnopenedIsBlank
<1>10. LogAgrees'
  BY DEF LogAgrees, ChoiceWhenResponded, UnopenedIsBlank
<1>11. SweepIsSafe'
  BY DEF SweepIsSafe, ActiveHasRow, Active
<1> QED
  BY <1>1, <1>2, <1>3, <1>4, <1>5, <1>6, <1>7, <1>8, <1>9, <1>10, <1>11

LEMMA RespondStep ==
  ASSUME NEW d \in Decision, NEW a \in Actor, NEW option \in Option, IInv,
         Respond(d, a, option)
  PROVE  IInv'
<1> USE DecisionsAssumption DEF IInv, TypeOK, Respond, Accepted, mayRespond, Closable
<1>1. row' \in [Decision -> Row]
  BY CloseRowType
<1>2. TypeOK'
  <2>1. [option |-> option, by |-> a] \in Reply
    BY DEF Reply
  <2>2. log' \in [Decision -> SUBSET Reply]
    BY <2>1
  <2> QED
    BY <1>1, <2>2 DEF CallState
<1>3. UnopenedIsBlank'
  BY DEF CloseRow, UnopenedIsBlank, Row
<1>4. ChoiceWhenResponded'
  BY DEF CloseRow, ChoiceWhenResponded, UnopenedIsBlank, Row
<1>5. ActiveHasRow'
  BY DEF CloseRow, ActiveHasRow, UnopenedIsBlank, Active, Row
<1>6. PromiseIsRecorded'
  BY DEF CloseRow, PromiseIsRecorded, ActiveHasRow, NoLostWakeup, ChoiceWhenResponded,
         UnopenedIsBlank, Active, Row
<1>7. TimeoutIsDue'
  BY DEF CloseRow, TimeoutIsDue, Row
<1>8. ToldIsRecorded'
  BY DEF CloseRow, ToldIsRecorded, PromiseIsRecorded, UnopenedIsBlank, Told, Active,
         Row
<1>9. NoLostWakeup'
  BY DEF CloseRow, NoLostWakeup, ActiveHasRow, Active, Row
<1>10. AnswerAuthorised'
  BY DEF CloseRow, AnswerAuthorised, TimeoutIsDue, UnopenedIsBlank, Row
<1>11. LogAgrees'
  BY DEF CloseRow, LogAgrees, ChoiceWhenResponded, UnopenedIsBlank, Row
<1>12. SweepIsSafe'
  BY DEF CloseRow, SweepIsSafe, ActiveHasRow, Active, Row
<1> QED
  BY <1>2, <1>3, <1>4, <1>5, <1>6, <1>7, <1>8, <1>9, <1>10, <1>11, <1>12

LEMMA RespondLateStep ==
  ASSUME NEW d \in Decision, NEW a \in Actor, IInv, RespondLate(d, a)
  PROVE  IInv'
<1> USE DecisionsAssumption DEF IInv, TypeOK, RespondLate
<1>1. TypeOK'
  BY DEF CallState, Row
<1>2. /\ UnopenedIsBlank'
     /\ ChoiceWhenResponded'
     /\ ActiveHasRow'
     /\ PromiseIsRecorded'
     /\ TimeoutIsDue'
     /\ ToldIsRecorded'
     /\ NoLostWakeup'
     /\ AnswerAuthorised'
     /\ LogAgrees'
     /\ SweepIsSafe'
  BY DEF UnopenedIsBlank, ChoiceWhenResponded, ActiveHasRow,
         PromiseIsRecorded, TimeoutIsDue, ToldIsRecorded, NoLostWakeup,
         AnswerAuthorised, LogAgrees, SweepIsSafe, Active, Told
<1> QED
  BY <1>1, <1>2

LEMMA DieAfterWriteStep ==
  ASSUME NEW d \in Decision, NEW option \in Option,
         NEW by \in Actor \cup {SwitchDefault}, IInv, DieAfterWrite(d,
         option, by)
  PROVE  IInv'
<1> USE DecisionsAssumption DEF IInv, TypeOK, DieAfterWrite, FallbackDue, Accepted,
          mayRespond, Closable, LoseCalls, Active
<1>1. row' \in [Decision -> Row]
  BY CloseRowType
<1>2. TypeOK'
  BY <1>1 DEF Reply, CallState
<1>3. UnopenedIsBlank'
  BY DEF CloseRow, UnopenedIsBlank, Row
<1>4. ChoiceWhenResponded'
  BY DEF CloseRow, ChoiceWhenResponded, UnopenedIsBlank, Row
<1>5. ActiveHasRow'
  BY DEF CloseRow, ActiveHasRow, UnopenedIsBlank, Active, Row
<1>6. PromiseIsRecorded'
  BY DEF CloseRow, PromiseIsRecorded, ActiveHasRow, NoLostWakeup, ChoiceWhenResponded,
         UnopenedIsBlank, Active, Row
<1>7. TimeoutIsDue'
  BY DEF CloseRow, TimeoutIsDue, Row
<1>8. ToldIsRecorded'
  BY DEF CloseRow, ToldIsRecorded, PromiseIsRecorded, UnopenedIsBlank, Told, Active,
         Row
<1>9. NoLostWakeup'
  BY DEF CloseRow, NoLostWakeup, ActiveHasRow, Active, Row
<1>10. AnswerAuthorised'
  BY DEF CloseRow, AnswerAuthorised, TimeoutIsDue, UnopenedIsBlank, Row
<1>11. LogAgrees'
  BY DEF CloseRow, LogAgrees, ChoiceWhenResponded, UnopenedIsBlank, Row
<1>12. SweepIsSafe'
  BY DEF CloseRow, SweepIsSafe, ActiveHasRow, Active, Row
<1> QED
  BY <1>2, <1>3, <1>4, <1>5, <1>6, <1>7, <1>8, <1>9, <1>10, <1>11, <1>12

LEMMA CrashStep ==
  ASSUME IInv, Crash
  PROVE  IInv'
<1> USE DecisionsAssumption DEF IInv, TypeOK, Crash, LoseCalls, Active
<1>1. TypeOK'
  BY DEF CallState, Row
<1>2. ActiveHasRow'
  BY DEF ActiveHasRow, UnopenedIsBlank, Active
<1>3. PromiseIsRecorded'
  BY DEF PromiseIsRecorded, ActiveHasRow, NoLostWakeup, ChoiceWhenResponded,
         UnopenedIsBlank, Active
<1>4. TimeoutIsDue'
  BY DEF TimeoutIsDue
<1>5. ToldIsRecorded'
  BY DEF ToldIsRecorded, PromiseIsRecorded, UnopenedIsBlank, Told, Active
<1>6. NoLostWakeup'
  BY DEF NoLostWakeup, ActiveHasRow, Active
<1>7. SweepIsSafe'
  BY DEF SweepIsSafe, ActiveHasRow, Active
<1>8. UnopenedIsBlank'
  BY DEF UnopenedIsBlank
<1>9. /\ ChoiceWhenResponded'
     /\ AnswerAuthorised'
     /\ LogAgrees'
  BY DEF ChoiceWhenResponded, AnswerAuthorised, LogAgrees
<1> QED
  BY <1>1, <1>2, <1>3, <1>4, <1>5, <1>6, <1>7, <1>8, <1>9

LEMMA BootStep ==
  ASSUME IInv, Boot
  PROVE  IInv'
<1> USE DecisionsAssumption DEF IInv, TypeOK, Boot, Swept
<1>1. ASSUME NEW e \in Decision
      PROVE  /\ row'[e] \in Row
             /\ row'[e].status = IF e \in Swept THEN "expired"
                                               ELSE row[e].status
             /\ e \notin Swept => row'[e] = row[e]
             /\ row'[e].chosen = row[e].chosen
             /\ row'[e].by = row[e].by
  <2>1. row[e] \in Row
    OBVIOUS
  <2>2. CASE e \in Swept
    <3>1. row'[e] = [row[e] EXCEPT !.status = "expired"]
      BY <2>2
    <3> QED
      BY <2>1, <2>2, <3>1 DEF Row, Status
  <2>3. CASE e \notin Swept
    BY <2>1, <2>3
  <2> QED
    BY <2>2, <2>3
<1>2. TypeOK'
  BY <1>1
<1>3. UnopenedIsBlank'
  BY <1>1 DEF UnopenedIsBlank
<1>4. ChoiceWhenResponded'
  BY <1>1 DEF ChoiceWhenResponded, UnopenedIsBlank
<1>5. ActiveHasRow'
  BY <1>1 DEF ActiveHasRow, UnopenedIsBlank, Active
<1>6. PromiseIsRecorded'
  BY <1>1 DEF PromiseIsRecorded, ActiveHasRow, NoLostWakeup, ChoiceWhenResponded,
         UnopenedIsBlank, Active
<1>7. TimeoutIsDue'
  BY <1>1 DEF TimeoutIsDue
<1>8. ToldIsRecorded'
  BY <1>1 DEF ToldIsRecorded, PromiseIsRecorded, UnopenedIsBlank, Told, Active
<1>9. NoLostWakeup'
  BY <1>1 DEF NoLostWakeup, ActiveHasRow, Active
<1>10. AnswerAuthorised'
  BY <1>1 DEF AnswerAuthorised, TimeoutIsDue, UnopenedIsBlank
<1>11. LogAgrees'
  BY <1>1 DEF LogAgrees, ChoiceWhenResponded, UnopenedIsBlank
<1>12. SweepIsSafe'
  BY <1>1 DEF SweepIsSafe, ActiveHasRow, Active
<1> QED
  BY <1>2, <1>3, <1>4, <1>5, <1>6, <1>7, <1>8, <1>9, <1>10, <1>11, <1>12

LEMMA NextIInv == IInv /\ [Next]_vars => IInv'
<1> SUFFICES ASSUME IInv, [Next]_vars PROVE IInv'
  OBVIOUS
<1>1. ASSUME NEW d \in Decision, Requester(d) PROVE IInv'
  BY <1>1, BeginWaitStep, ResumeStep, TimerFiresStep, FallbackWritesStep,
     FallbackReadsStep, FallbackFailsStep DEF Requester
<1>2. CASE UNCHANGED vars
  BY <1>2 DEF vars, IInv, TypeOK, UnopenedIsBlank, ChoiceWhenResponded,
     ActiveHasRow, PromiseIsRecorded, TimeoutIsDue, ToldIsRecorded,
     NoLostWakeup, AnswerAuthorised, LogAgrees, SweepIsSafe
<1> QED
  BY <1>1, <1>2, DeadlinePassesStep, OpenStep, RespondStep, RespondLateStep,
     DieAfterWriteStep, CrashStep, BootStep DEF Next

\* The inductive invariant, hence every safety invariant of Decisions, holds
\* in every state, whatever decisions, options and identities there are.
THEOREM Safety == Spec => []IInv
BY InitIInv, NextIInv, PTL DEF Spec

\* Every variable has its type (the decisions table and the requesters of
\* decisions.ts).
THEOREM TypeCorrect == Spec => []TypeOK
<1>1. IInv => TypeOK
  BY DEF IInv
<1> QED
  BY <1>1, Safety, PTL

\* What a requester is told and what the log announces is what the row records,
\* and nobody sleeps on an answer: an approval is acted on as the audit trail says.
THEOREM ToldTheRecorded == Spec => []OneAnswer
<1>1. IInv => OneAnswer
  BY DEF IInv, OneAnswer
<1> QED
  BY <1>1, Safety, PTL

\* No requester sleeps on an answered decision.
THEOREM WakeupNotLost == Spec => []NoLostWakeup
<1>1. IInv => NoLostWakeup
  BY DEF IInv
<1> QED
  BY <1>1, Safety, PTL

\* Only operators other than the requester, or the default at the deadline,
\* settle a decision, and the boot sweep closes only what is overdue and waited
\* for by nobody (respond-policy.ts with the store's own fence).
THEOREM Authority == Spec => []ClosedRightly
<1>1. IInv => ClosedRightly
  BY DEF IInv, ClosedRightly
<1> QED
  BY <1>1, Safety, PTL

\* A responded or expired row is never written again.
THEOREM Finality == Spec => AnswerFinal
<1>1. IInv /\ [Next]_vars =>
        [\A d \in Decision : row[d].status \in {"responded", "expired"} =>
           row'[d] = row[d]]_vars
  <2> SUFFICES ASSUME IInv, Next, NEW e \in Decision,
                      row[e].status \in {"responded", "expired"}
               PROVE  row'[e] = row[e]
    OBVIOUS
  <2> USE DEF IInv, TypeOK
  <2>1. ASSUME NEW d \in Decision, NEW option, NEW by, Closable(d),
               CloseRow(d, option, by)
        PROVE  row'[e] = row[e]
    BY <2>1 DEF Closable, CloseRow
  <2>2. ASSUME NEW d \in Decision, Requester(d) PROVE row'[e] = row[e]
    <3>1. CASE FallbackWrites(d)
      BY <3>1, <2>1 DEF FallbackWrites, FallbackDue
    <3>2. CASE ~FallbackWrites(d)
      BY <2>2, <3>2 DEF Requester, BeginWait, Resume, TimerFires,
         FallbackReads, FallbackFails
    <3> QED
      BY <3>1, <3>2
  <2>3. ASSUME NEW d \in Decision, NEW offered, NEW dflt, NEW source,
               NEW caller, Open(d, offered, dflt, source, caller)
        PROVE  row'[e] = row[e]
    BY <2>3 DEF Open
  <2>4. ASSUME NEW d \in Decision, NEW a, NEW option, Respond(d, a, option)
        PROVE  row'[e] = row[e]
    BY <2>4, <2>1 DEF Respond, Accepted
  <2>5. ASSUME NEW d \in Decision, NEW option, NEW by,
               DieAfterWrite(d, option, by)
        PROVE  row'[e] = row[e]
    BY <2>5, <2>1 DEF DieAfterWrite, Accepted, FallbackDue
  <2>6. ASSUME Boot PROVE row'[e] = row[e]
    BY <2>6 DEF Boot, Swept
  <2>7. ASSUME NEW d \in Decision, NEW a \in Actor,
               DeadlinePasses(d) \/ RespondLate(d, a) \/ Crash
        PROVE  row'[e] = row[e]
    BY <2>7 DEF DeadlinePasses, RespondLate, Crash
  <2>8. ASSUME NEW d \in Decision, DeadlinePasses(d) \/ Crash
        PROVE  row'[e] = row[e]
    BY <2>8 DEF DeadlinePasses, Crash
  <2> QED
    BY <2>2, <2>3, <2>4, <2>5, <2>6, <2>7, <2>8 DEF Next
<1> QED
  BY <1>1, Safety, PTL DEF Spec, AnswerFinal

-----------------------------------------------------------------------------
(* Refinement: the rendezvous implements DecisionPromise.                  *)

\* Each requester, responder and failure action is a step of the promise or
\* leaves it alone; one fact per kind of step.
LEMMA PromiseStep == IInv /\ [Next]_vars => [Promise!Next]_Promise!vars
<1> SUFFICES ASSUME IInv, [Next]_vars
             PROVE  Promise!Next \/ UNCHANGED Promise!vars
  OBVIOUS
<1> USE DecisionsAssumption DEF IInv, TypeOK
<1>1. ASSUME NEW d \in Decision, NEW option \in Option,
             NEW by \in Actor \cup {SwitchDefault}, Closable(d),
             CloseRow(d, option, by),
             outcome' = outcome \/ outcome' = [outcome EXCEPT ![d] = option]
      PROVE  Promise!Settle(d, option)
  <2>1. row[d].status = "open" /\ row'[d].status = "responded"
    BY <1>1 DEF Closable, CloseRow, Row
  <2>2. row'[d].chosen = option
    BY <1>1 DEF CloseRow, Row
  <2>3. \A e \in Decision \ {d} : row'[e] = row[e]
    BY <1>1 DEF CloseRow
  <2>4. [e \in Decision |-> row'[e].chosen]
          = [[e \in Decision |-> row[e].chosen] EXCEPT ![d] = option]
    BY <2>2, <2>3
  <2> HIDE DEF IInv, TypeOK
  <2> QED
    BY <1>1, <2>1, <2>3, <2>4 DEF Promise!Settle
<1>2. ASSUME NEW d \in Decision, Resume(d) \/ FallbackReads(d)
      PROVE  Promise!Hear(d)
  <2>1. row' = row /\ outcome' = [outcome EXCEPT ![d] = row[d].chosen]
    BY <1>2 DEF Resume, FallbackReads, LandedAnswer, PromiseIsRecorded
  <2>2. row[d].chosen # None
    BY <1>2 DEF Resume, FallbackReads, PromiseIsRecorded, ChoiceWhenResponded
  <2> QED
    BY <2>1, <2>2 DEF Promise!Hear
<1>3. ASSUME NEW d \in Decision, NEW offered, NEW dflt, NEW source,
             NEW caller, Open(d, offered, dflt, source, caller)
      PROVE  Promise!Ask(d)
  BY <1>3 DEF Promise!Ask, Open, Absent, UnopenedIsBlank
<1>4. ASSUME Boot, NEW D \in SUBSET Decision, D = Swept
      PROVE  Promise!Abandon(D)
  BY <1>4 DEF Promise!Abandon, Boot, Swept
<1>5. ASSUME row' = row, outcome' = outcome
      PROVE  UNCHANGED Promise!vars
  BY <1>5 DEF Promise!vars
<1>6. CASE \E d \in Decision : Requester(d)
  <2>1. PICK d \in Decision : Requester(d)
    BY <1>6
  <2>2. CASE FallbackWrites(d)
    <3>1. row[d].dflt \in Option
      BY <2>2 DEF FallbackWrites, FallbackDue, Row
    <3>2. PICK option \in Option : option = row[d].dflt
      BY <3>1
    <3>3. /\ Closable(d)
          /\ CloseRow(d, option, SwitchDefault)
          /\ outcome' = [outcome EXCEPT ![d] = option]
      BY <2>2, <3>2 DEF FallbackWrites, FallbackDue, CloseRow
    <3>4. Promise!Settle(d, option)
      BY <3>3, <1>1
    <3> QED
      BY <3>4 DEF Promise!Next
  <2>3. CASE Resume(d) \/ FallbackReads(d)
    BY <2>3, <1>2 DEF Promise!Next
  <2>4. CASE BeginWait(d) \/ TimerFires(d) \/ FallbackFails(d)
    BY <2>4, <1>5 DEF BeginWait, TimerFires, FallbackFails
  <2> QED
    BY <2>1, <2>2, <2>3, <2>4 DEF Requester
<1>7. CASE \E d \in Decision, a \in Actor, option \in Option :
             Respond(d, a, option)
  BY <1>7, <1>1 DEF Respond, Accepted, Promise!Next
<1>8. CASE \E d \in Decision, by \in Actor \cup {SwitchDefault},
             option \in Option : DieAfterWrite(d, option, by)
  BY <1>8, <1>1 DEF DieAfterWrite, Accepted, FallbackDue, Promise!Next
<1>9. CASE \E d \in Decision, offered \in SUBSET Option,
             dflt \in Option \cup {None}, source \in Actor \cup {None},
             caller \in Caller : Open(d, offered, dflt, source, caller)
  BY <1>9, <1>3 DEF Promise!Next
<1>10. CASE Boot
  <2>1. PICK D \in SUBSET Decision : D = Swept
    BY DEF Swept
  <2>2. Promise!Abandon(D)
    BY <2>1, <1>4, <1>10
  <2> QED
    BY <2>2 DEF Promise!Next
<1>11. CASE \/ \E d \in Decision : DeadlinePasses(d)
            \/ \E d \in Decision, a \in Actor : RespondLate(d, a)
            \/ Crash
            \/ UNCHANGED vars
  BY <1>11, <1>5 DEF DeadlinePasses, RespondLate, Crash, vars
<1> QED
  BY <1>6, <1>7, <1>8, <1>9, <1>10, <1>11 DEF Next

\* The decision rendezvous implements its abstract promise: asked once,
\* settled at most once, heard as settled.
THEOREM Refinement == Spec => KeepsPromise
<1>1. Init => Promise!Init
  BY DEF Init, Promise!Init, Absent
<1> QED
  BY <1>1, PromiseStep, Safety, PTL DEF Spec, KeepsPromise, Promise!Spec
-----------------------------------------------------------------------------
(* The binding of a job.                                                   *)

Ways == {"working", "done", "failed", "killed"}

\* The flag tells whether the exit event was emitted.
ExitedMeansReported == exited <=> exits # <<>>

\* A request that is not settled is still worked on; nothing but its own end
\* reports the exit of an http job.
UnsettledIsOpen ==
  kind \in {"http", "mcp"} /\ step # "settled" =>
    work = "working" /\ (kind = "http" => ~exited)

\* Only terminate ends a request or detaches a session.
EndedWasAsked == ended => J!Run!Asked

\* The inductive invariant of a binding.
BindingInv ==
  /\ work \in Ways /\ exited \in BOOLEAN
  /\ stop \in [JobCallers -> {"idle", "waiting", "returned"}]
  /\ ExitedMeansReported /\ UnsettledIsOpen /\ EndedWasAsked

\* What a step of the binding may do, as JobRun allows it.
Promised == BindingInv' /\ J!Run!Next

LEMMA BindingBegins == J!Init => BindingInv /\ J!Run!Init
BY DEF J!Init, J!Run!Init, BindingInv, ExitedMeansReported, UnsettledIsOpen,
       EndedWasAsked, Ways

\* An exit event is the first one, and the flag goes with it.
LEMMA EmitsOnce ==
  ASSUME BindingInv, NEW reason, J!EmitOnce(reason) \/ (~exited /\ J!Emit(reason))
  PROVE  /\ exited' \in BOOLEAN /\ ExitedMeansReported'
         /\ exited => exited' /\ exits' = exits
         /\ \/ exits' = exits
            \/ exits = <<>> /\ exits' = <<reason>>
<1>1. Append(<<>>, reason) = <<reason>> /\ <<reason>> # <<>>
  OBVIOUS
<1> QED
  BY <1>1 DEF BindingInv, ExitedMeansReported, J!EmitOnce, J!Emit

\* An end of the work, as far as the orchestrator sees it.
LEMMA ReportStep ==
  ASSUME BindingInv, NEW reason, J!EmitOnce(reason) \/ (~exited /\ J!Emit(reason)),
         \/ reason = "crashed"
         \/ reason = "completed" /\ work' = "done"
         \/ reason = "terminated" /\ (work' = "killed" \/ J!Run!Asked)
  PROVE  J!Run!Report
BY EmitsOnce DEF J!Run!Report

LEMMA KindStays == J!Next => kind' = kind
BY DEF J!Next, J!ChildEnds, J!SessionEnds, J!Answered, J!Headers, J!CallBreaks, J!TimerFires,
       J!ProcessStops, J!AskCall, J!CallStopped, J!AskProcess

LEMMA WorkEndsStep ==
  ASSUME BindingInv, NEW w \in J!Outcomes,
         \/ J!ChildEnds(w) \/ J!SessionEnds(w)
         \/ w # "killed" /\ J!Answered(w)
  PROVE  Promised
<1> USE DEF J!Outcomes, J!Reason, Promised, BindingInv, UnsettledIsOpen, EndedWasAsked,
            J!Run!Asked, J!Run!Next, J!Run!Work, J!Run!Stop, Ways
<1>1. CASE J!ChildEnds(w)
  <2>1. J!EmitOnce(J!Reason(w))
    BY <1>1 DEF J!ChildEnds
  <2>2. J!Run!Report
    BY <1>1, <2>1, ReportStep DEF J!ChildEnds
  <2> QED
    BY <1>1, <2>1, <2>2, EmitsOnce DEF J!ChildEnds
<1>2. CASE J!SessionEnds(w)
  <2>1. CASE ended
    BY <1>2, <2>1 DEF J!SessionEnds, J!Run!Report, ExitedMeansReported
  <2>2. CASE ~ended
    <3>1. J!EmitOnce(J!Reason(w))
      BY <1>2, <2>2 DEF J!SessionEnds
    <3>2. J!Run!Report
      BY <1>2, <3>1, ReportStep DEF J!SessionEnds
    <3> QED
      BY <1>2, <3>1, <3>2, EmitsOnce DEF J!SessionEnds
  <2> QED
    BY <2>1, <2>2
<1>3. CASE w # "killed" /\ J!Answered(w)
  <2>1. J!EmitOnce(J!Reason(w)) \/ (~exited /\ J!Emit(J!Reason(w)))
    BY <1>3 DEF J!Answered
  <2>2. J!Run!Report
    BY <1>3, <2>1, ReportStep DEF J!Answered
  <2> QED
    BY <1>3, <2>1, <2>2, EmitsOnce DEF J!Answered
<1> QED
  BY <1>1, <1>2, <1>3

LEMMA RequestStep ==
  ASSUME BindingInv, J!Headers \/ J!CallBreaks \/ J!TimerFires
  PROVE  Promised
<1> USE DEF Promised, BindingInv, UnsettledIsOpen, EndedWasAsked,
            J!Run!Asked, J!Run!Next, J!Run!Work, J!Run!Stop, Ways
<1>1. CASE J!Headers \/ J!TimerFires
  BY <1>1 DEF J!Headers, J!TimerFires, J!Run!Report, ExitedMeansReported
<1>2. CASE J!CallBreaks
  <2> DEFINE reason == IF kind = "http" /\ ended THEN "terminated" ELSE "crashed"
  <2>1. J!EmitOnce(reason)
    BY <1>2 DEF J!CallBreaks
  <2>2. J!Run!Report
    BY <1>2, <2>1, ReportStep DEF J!CallBreaks
  <2> QED
    BY <1>2, <2>1, <2>2, EmitsOnce DEF J!CallBreaks
<1> QED
  BY <1>1, <1>2

\* A call of terminate goes on.
LEMMA StopStep ==
  ASSUME BindingInv, NEW c \in JobCallers, NEW s \in {"waiting", "returned"},
         stop[c] # "returned", J!At(c, s)
  PROVE  /\ stop' \in [JobCallers -> {"idle", "waiting", "returned"}]
         /\ J!Run!Stop
         /\ J!Run!Asked'
<1>1. stop'[c] = s
  BY DEF J!At, BindingInv
<1> QED
  BY <1>1 DEF J!At, BindingInv, J!Run!Stop, J!Run!Asked

LEMMA TerminateStep ==
  ASSUME BindingInv, NEW c \in JobCallers, NEW force \in BOOLEAN,
         J!ProcessStops(c) \/ J!AskProcess(c, force) \/ J!AskCall(c) \/ J!CallStopped(c)
  PROVE  Promised
<1>1. PICK s \in {"waiting", "returned"} : J!At(c, s)
  BY DEF J!ProcessStops, J!AskProcess, J!AskCall, J!CallStopped
<1>2. stop[c] # "returned"
  BY DEF J!ProcessStops, J!AskProcess, J!AskCall, J!CallStopped
<1>3. stop' \in [JobCallers -> {"idle", "waiting", "returned"}] /\ J!Run!Stop /\ J!Run!Asked'
  BY <1>1, <1>2, StopStep
<1>4. work' = work /\ step' = step /\ kind' = kind
  BY DEF J!ProcessStops, J!AskProcess, J!AskCall, J!CallStopped
<1>5. \/ exited' = exited /\ exits' = exits
      \/ J!EmitOnce("crashed")
      \/ /\ J!EmitOnce("terminated") /\ stop[c] = "waiting"
         /\ kind \in {"http", "mcp"} => step = "settled"
  BY DEF J!ProcessStops, J!AskProcess, J!AskCall, J!CallStopped, J!Kill, J!Terminated
<1>6. J!Run!Report /\ ExitedMeansReported' /\ exited' \in BOOLEAN
  BY <1>4, <1>5, ReportStep, EmitsOnce
     DEF J!Run!Report, J!Run!Asked, BindingInv, ExitedMeansReported
<1>7. UnsettledIsOpen'
  <2>1. CASE exited' = exited
    BY <2>1, <1>4 DEF BindingInv, UnsettledIsOpen
  <2>2. CASE exited' # exited
    <3>1. kind = "http" => step = "settled"
      BY <2>2, <1>5 DEF J!ProcessStops, J!AskProcess, J!AskCall, J!CallStopped
    <3> QED
      BY <3>1, <1>4 DEF BindingInv, UnsettledIsOpen
  <2> QED
    BY <2>1, <2>2
<1> QED
  BY <1>3, <1>4, <1>6, <1>7
     DEF Promised, BindingInv, EndedWasAsked, J!Run!Next, J!Run!Work

LEMMA BindingStep == BindingInv /\ J!Next => Promised
BY WorkEndsStep, RequestStep, TerminateStep DEF J!Next, J!Outcomes

LEMMA BindingRests ==
  BindingInv /\ UNCHANGED binding => BindingInv' /\ UNCHANGED J!Run!vars
BY DEF binding, BindingInv, ExitedMeansReported, UnsettledIsOpen, EndedWasAsked, J!Run!Asked,
       J!Run!vars

LEMMA BindingInvariant == EitherSpec => []BindingInv
<1>1. EitherInit => BindingInv
  BY BindingBegins DEF EitherInit
<1>2. BindingInv /\ [EitherNext]_all => BindingInv'
  BY BindingStep, BindingRests
     DEF Promised, EitherNext, Decides, Executes, Plans, Watches, Gates, Over, all
<1> QED
  BY <1>1, <1>2, PTL DEF EitherSpec

\* Whatever races behind a handle, the job runs as the orchestrator counts on: it
\* exits at most once, the reason is true, and no call of terminate returns twice
\* (binding-*.ts, event-bus.ts).  This is the safety half of KeepsJobPromise.
THEOREM BindingsRunAsPromised == EitherSpec => J!RunsAsPromised
<1>1. EitherInit => J!Run!Init
  BY BindingBegins DEF EitherInit
<1>2. BindingInv /\ [EitherNext]_all => [J!Run!Next]_J!Run!vars
  BY BindingStep, BindingRests
     DEF Promised, EitherNext, Decides, Executes, Plans, Watches, Gates, Over, all
<1> QED
  BY <1>1, <1>2, BindingInvariant, PTL DEF EitherSpec, J!RunsAsPromised

-----------------------------------------------------------------------------
(* The Steward agent's handle.                                             *)

LEMMA MailsArePosts ==
  /\ [type |-> "ready"] \in A!Mail /\ [type |-> "pong"] \in A!Mail /\ [type |-> "ping"] \in A!Mail
  /\ \A r \in PlanRequests :
       [type |-> "request", id |-> r] \in A!Mail /\ [type |-> "reply", id |-> r] \in A!Mail
BY DEF A!Mail

\* What is left of a channel, what is read and what is sent are messages.
LEMMA ChannelType ==
  ASSUME NEW box \in Seq(A!Mail)
  PROVE  /\ box # <<>> => Tail(box) \in Seq(A!Mail) /\ Head(box) \in A!Mail
         /\ \A msg \in A!Mail : Append(box, msg) \in Seq(A!Mail)
OBVIOUS

LEMMA SentType ==
  ASSUME A!TypeOK, NEW msg \in A!Mail, NEW open \in BOOLEAN, A!Sent(msg, open)
  PROVE  toChild' \in Seq(A!Mail)
BY ChannelType DEF A!TypeOK, A!Sent

LEMMA AgentBegins == A!Init => A!TypeOK
BY DEF A!Init, A!TypeOK, A!Counts, A!Settled

\* A step that leaves a plan as it is, or settles it.
Settles ==
  \A r \in PlanRequests :
    /\ plan[r] \in A!Settled => plan'[r] = plan[r]
    /\ plan[r] # "none" => plan'[r] \in {plan[r]} \cup A!Settled

PlanStates == {"none", "pending", "forgotten"} \cup A!Settled

\* The agent's own steps.
LEMMA ProcessStep ==
  ASSUME A!TypeOK,
         \/ A!Boot \/ A!Hang \/ A!Read \/ A!Die
         \/ \E r \in PlanRequests : A!Planned(r)
  PROVE  A!TypeOK' /\ Settles
<1> USE DEF A!TypeOK, A!daemon, A!Counts, Settles
<1>1. CASE A!Boot
  BY <1>1, ChannelType, MailsArePosts DEF A!Boot
<1>2. CASE A!Hang
  BY <1>2 DEF A!Hang
<1>3. CASE A!Read
  <2>1. toChild' \in Seq(A!Mail) /\ Head(toChild) \in A!Mail
    BY <1>3, ChannelType DEF A!Read
  <2>2. Head(toChild).type = "request" => Head(toChild).id \in PlanRequests
    BY <2>1 DEF A!Mail
  <2>3. fromChild' \in Seq(A!Mail)
    BY <1>3, ChannelType, MailsArePosts DEF A!Read
  <2> QED
    BY <1>3, <2>1, <2>2, <2>3 DEF A!Read
<1>4. CASE A!Die
  <2>1. toChild' \in Seq(A!Mail)
    BY <1>4 DEF A!Die
  <2> QED
    BY <1>4, <2>1 DEF A!Die
<1>5. ASSUME NEW r \in PlanRequests, A!Planned(r) PROVE A!TypeOK' /\ Settles
  BY <1>5, ChannelType, MailsArePosts DEF A!Planned
<1> QED
  BY <1>1, <1>2, <1>3, <1>4, <1>5

\* A message is read: at most one plan changes, and only from pending.
LEMMA ReceiveStep == A!TypeOK /\ A!Receive => A!TypeOK' /\ Settles
<1> SUFFICES ASSUME A!TypeOK, A!Receive PROVE A!TypeOK' /\ Settles
  OBVIOUS
<1> DEFINE msg == Head(fromChild)
<1>1. fromChild' \in Seq(A!Mail) /\ msg \in A!Mail
  BY ChannelType DEF A!Receive, A!TypeOK
<1>2. msg.type = "reply" => msg.id \in PlanRequests
  BY <1>1 DEF A!Mail
<1>3. plan' \in [PlanRequests -> PlanStates] /\ Settles
  <2>1. CASE A!Listens /\ msg.type = "reply"
    <3>1. PICK r \in PlanRequests : r = msg.id
      BY <1>2, <2>1
    <3>2. plan' = [plan EXCEPT ![r] = A!Answered(r)]
      BY <3>1, <2>1 DEF A!Receive
    <3> QED
      BY <3>2 DEF A!TypeOK, A!Answered, A!Pending, A!Settled, PlanStates, Settles
  <2>2. CASE ~(A!Listens /\ msg.type = "reply")
    BY <2>2 DEF A!Receive, A!TypeOK, PlanStates, Settles
  <2> QED
    BY <2>1, <2>2
<1>4. status' \in {"starting", "up", "unhealthy", "down"} /\ heard' \in A!Counts \cup {None}
  BY PromisesAssumption DEF A!Receive, A!TypeOK, A!Counts
<1> QED
  BY <1>1, <1>3, <1>4 DEF A!Receive, A!TypeOK, PlanStates

LEMMA HeartbeatStep == A!TypeOK /\ A!Heartbeat => A!TypeOK' /\ Settles
<1> SUFFICES ASSUME A!TypeOK, A!Heartbeat PROVE A!TypeOK' /\ Settles
  OBVIOUS
<1>1. toChild' \in Seq(A!Mail)
  BY SentType, MailsArePosts DEF A!Heartbeat, A!TypeOK
<1>2. heard' \in A!Counts \cup {None}
  BY PromisesAssumption DEF A!Heartbeat, A!TypeOK, A!Counts, A!Older
<1> QED
  BY <1>1, <1>2 DEF A!Heartbeat, A!TypeOK, Settles

\* The daemon's other steps.
LEMMA HandleStep ==
  ASSUME A!TypeOK,
         \/ A!ExitSeen \/ A!Shutdown \/ A!ShutdownEnds
         \/ \E r \in PlanRequests : A!RequestPlan(r) \/ A!TimeOut(r)
  PROVE  A!TypeOK' /\ Settles
<1>1. CASE A!ExitSeen
  BY <1>1 DEF A!ExitSeen, A!TypeOK, A!Failed, A!Pending, A!Settled, Settles
<1>2. CASE A!Shutdown \/ A!ShutdownEnds
  BY <1>2 DEF A!Shutdown, A!ShutdownEnds, A!TypeOK, A!ends, Settles
<1>3. ASSUME NEW r \in PlanRequests, A!RequestPlan(r) PROVE A!TypeOK' /\ Settles
  <2>1. toChild' \in Seq(A!Mail)
    BY <1>3, SentType, MailsArePosts DEF A!RequestPlan
  <2> QED
    BY <1>3, <2>1 DEF A!RequestPlan, A!TypeOK, A!Settled, Settles
<1>4. ASSUME NEW r \in PlanRequests, A!TimeOut(r) PROVE A!TypeOK' /\ Settles
  BY <1>4 DEF A!TimeOut, A!TypeOK, A!ends, A!Pending, A!Settled, Settles
<1> QED
  BY <1>1, <1>2, <1>3, <1>4

LEMMA AgentStep == A!TypeOK /\ A!Next => A!TypeOK' /\ Settles
BY ProcessStep, ReceiveStep, HeartbeatStep, HandleStep DEF A!Next

LEMMA AgentRests == A!TypeOK /\ UNCHANGED agent => A!TypeOK' /\ Settles
BY DEF agent, A!TypeOK, Settles

\* Every variable of the handle and of the agent keeps its type.
THEOREM AgentTypeCorrect == EitherSpec => []A!TypeOK
<1>1. EitherInit => A!TypeOK
  BY AgentBegins DEF EitherInit
<1>2. A!TypeOK /\ [EitherNext]_all => A!TypeOK'
  BY AgentStep, AgentRests DEF EitherNext, Decides, Executes, Plans, Watches, Gates, Over, all
<1> QED
  BY <1>1, <1>2, PTL DEF EitherSpec

\* A plan is settled by the first of its reply, its time-out, the agent's exit and a
\* closed channel; whatever comes later finds it settled, and no plan that was asked
\* for is dropped (spawner.ts, requestPlan).  A safety part of HandleKeepsWord.
THEOREM PlansSettleOnce == EitherSpec => A!SettledOnce
<1>1. A!TypeOK /\ [EitherNext]_all => [Settles]_A!vars
  BY AgentStep, AgentRests
     DEF EitherNext, Decides, Executes, Plans, Watches, Gates, Over, all, agent, A!vars, A!ends
<1>2. [Settles]_A!vars <=>
        [\A r \in PlanRequests :
           /\ plan[r] \in A!Settled => plan'[r] = plan[r]
           /\ plan[r] # "none" => plan'[r] \in {plan[r]} \cup A!Settled]_A!vars
  BY DEF Settles
<1> QED
  BY <1>1, <1>2, AgentTypeCorrect, PTL DEF EitherSpec, A!SettledOnce
=============================================================================
