-------------------------- MODULE GatedActionsProofs --------------------------
(***************************************************************************)
(* What gatedAction guarantees for every set of calls, scopes and terms.   *)
(*                                                                         *)
(* The argument has two halves.  Evolves says how the store may change in  *)
(* one step, whoever makes it: terms are kept, granted scopes stay         *)
(* granted, terminal ones stay terminal.  CallInv says what a suspended    *)
(* handler may rely on; it survives the steps of everybody else because    *)
(* the store only evolves.                                                 *)
(***************************************************************************)
EXTENDS GatedActions, TrustScopesProofs

-----------------------------------------------------------------------------
(* The calls.                                                              *)

CallTypeOK ==
  /\ pc \in [Call -> PC]
  /\ via \in [Call -> Scope \cup {None}]
  /\ effect \in SUBSET Call
  /\ asked \in SUBSET Call
  /\ settled \in [Call -> Answer \cup {None}]
  /\ closed \in SUBSET Call
  /\ heard \in [Call -> Answer \cup {None}]

Started == {"acting", "acted", "done", "failed", "lost"}

\* A call under a scope was covered by it when it started and still is.
CoveredCalls ==
  \A c \in Call : via[c] # None =>
    /\ pc[c] \in Started
    /\ Acts(c) /\ request[c].act \notin NoGo
    /\ Covers(via[c], request[c].act)
    /\ \E i \in DOMAIN granted : granted[i] = via[c]

\* A call under no scope that runs was approved, and an approval is settled.
ApprovedCalls ==
  \A c \in Call :
    /\ via[c] = None /\ pc[c] \in {"cleared", "acting", "acted"} => settled[c] = "approve"
    /\ via[c] = None /\ c \in effect => settled[c] = "approve"
    /\ settled[c] # None => c \in closed
    /\ pc[c] = "deciding" => c \in asked

CallInv == CallTypeOK /\ CoveredCalls /\ ApprovedCalls /\ LedgerComplete

\* The inductive invariant of calls and store.
IInv == StoreInv /\ CallInv

LEMMA InitIInv == Init => IInv
<1> SUFFICES ASSUME Init PROVE IInv
  OBVIOUS
<1>1. StoreInv
  BY StoreBegins DEF Init
<1>2. CallTypeOK /\ CoveredCalls /\ ApprovedCalls
  BY DEF Init, Promise!Init, CallTypeOK, CoveredCalls, ApprovedCalls, PC
<1>3. LedgerComplete
  <2>1. \A s \in Scope : {c \in Call : pc[c] = "done" /\ via[c] = s} = {}
    BY DEF Init
  <2> QED
    BY <2>1, FS_EmptySet DEF Init, StoreInit, LedgerComplete
<1> QED
  BY <1>1, <1>2, <1>3 DEF IInv, CallInv

\* What a call under a scope relies on outlives every step of the store.
LEMMA CoverageKept ==
  ASSUME IInv, Evolves, NEW s \in Scope, NEW a, Covers(s, a),
         \E i \in DOMAIN granted : granted[i] = s
  PROVE  Covers(s, a)' /\ \E i \in DOMAIN granted' : granted'[i] = s
<1>1. PICK i \in DOMAIN granted : granted[i] = s
  OBVIOUS
<1>2. scope[s].status # "absent"
  BY <1>1 DEF IInv, StoreInv, GrantedRows, Pending
<1> QED
  BY <1>1, <1>2 DEF Evolves, EvolvesBut, Covers

\* Nothing was charged to a scope that is still absent.
LEMMA AbsentUnused ==
  ASSUME IInv, NEW c \in Call, via[c] # None
  PROVE  scope[via[c]].status # "absent"
BY DEF IInv, StoreInv, GrantedRows, Pending, CallInv, CoveredCalls

\* The ledger depends on who is done under which scope only.
LEMMA LedgerKept ==
  ASSUME IInv, SameCharge,
         \A c \in Call, s \in Scope :
           (pc'[c] = "done" /\ via'[c] = s) <=> (pc[c] = "done" /\ via[c] = s)
  PROVE  LedgerComplete'
<1> SUFFICES ASSUME NEW s \in Scope
             PROVE  scope'[s].used = Cardinality({c \in Call : pc'[c] = "done" /\ via'[c] = s})
  BY DEF LedgerComplete
<1>1. {c \in Call : pc'[c] = "done" /\ via'[c] = s} = {c \in Call : pc[c] = "done" /\ via[c] = s}
  OBVIOUS
<1> QED
  BY <1>1 DEF IInv, CallInv, LedgerComplete, SameCharge

\* A step of the store that moves no call keeps what the calls rely on.
LEMMA CallsStutter ==
  ASSUME IInv, Evolves, SameCharge, UNCHANGED callVars,
         UNCHANGED <<asked, settled, closed, heard>>
  PROVE  IInv'
<1>1. CoveredCalls'
  BY CoverageKept DEF IInv, CallInv, CallTypeOK, CoveredCalls, callVars, Acts
<1>2. ApprovedCalls' /\ CallTypeOK'
  BY DEF IInv, CallInv, CallTypeOK, ApprovedCalls, callVars
<1>3. LedgerComplete'
  BY LedgerKept DEF callVars
<1> QED
  BY <1>1, <1>2, <1>3 DEF IInv, CallInv, Evolves, EvolvesBut, StoreInv

\* A handler that moves on without starting, finishing or charging anything.
LEMMA HandlerMoves ==
  ASSUME IInv, Evolves, SameCharge, CallTypeOK',
         NEW c \in Call, NEW l \in PC, Goto(c, l), via' = via, effect' = effect,
         \A d \in Call : settled[d] # None => settled'[d] = settled[d],
         \A d \in Call : settled'[d] # None => d \in closed',
         asked \subseteq asked', l = "deciding" => c \in asked',
         pc[c] # "done",
         via[c] # None => l \in Started \ {"done"},
         via[c] = None /\ l \in {"cleared", "acting", "acted"} => settled'[c] = "approve"
  PROVE  IInv'
<1>1. pc' = [pc EXCEPT ![c] = l]
  BY DEF Goto
<1>2. pc'[c] = l /\ \A d \in Call \ {c} : pc'[d] = pc[d]
  BY <1>1 DEF IInv, CallInv, CallTypeOK
<1>3. CoveredCalls'
  <2> SUFFICES ASSUME NEW d \in Call, via[d] # None
               PROVE  /\ pc'[d] \in Started
                      /\ Acts(d) /\ request[d].act \notin NoGo
                      /\ Covers(via[d], request[d].act)'
                      /\ \E i \in DOMAIN granted' : granted'[i] = via[d]
    BY DEF CoveredCalls, Acts
  <2>1. /\ via[d] \in Scope
        /\ pc[d] \in Started
        /\ Acts(d) /\ request[d].act \notin NoGo
        /\ Covers(via[d], request[d].act)
        /\ \E i \in DOMAIN granted : granted[i] = via[d]
    BY DEF IInv, CallInv, CoveredCalls, CallTypeOK
  <2>2. Covers(via[d], request[d].act)' /\ \E i \in DOMAIN granted' : granted'[i] = via[d]
    <3> HIDE DEF IInv
    <3>1. \A s \in Scope, a \in {request[d].act} :
            Covers(s, a) /\ (\E i \in DOMAIN granted : granted[i] = s)
              => Covers(s, a)' /\ \E i \in DOMAIN granted' : granted'[i] = s
      BY CoverageKept
    <3>2. PICK s \in Scope : s = via[d]
      BY <2>1
    <3>3. Covers(s, request[d].act)' /\ \E i \in DOMAIN granted' : granted'[i] = s
      BY <2>1, <3>1, <3>2
    <3> QED
      BY <3>2, <3>3 DEF Covers
  <2> QED
    BY <1>2, <2>1, <2>2
<1>4. ApprovedCalls'
  BY <1>2, GatedActionsAssumption DEF IInv, CallInv, ApprovedCalls, CallTypeOK, Answer
<1>5. LedgerComplete'
  <2>1. \A d \in Call, s \in Scope :
          (pc'[d] = "done" /\ via'[d] = s) <=> (pc[d] = "done" /\ via[d] = s)
    BY <1>2, TrustScopesAssumption
  <2> QED
    BY <2>1, LedgerKept
<1> QED
  BY <1>3, <1>4, <1>5 DEF IInv, CallInv, Evolves, EvolvesBut, StoreInv

LEMMA StartCoveredStep ==
  ASSUME IInv, NEW c \in Call, StartCovered(c)
  PROVE  IInv' /\ Evolves
<1> DEFINE a == request[c].act
<1>1. a \in Act /\ a \notin NoGo
  BY GatedActionsAssumption DEF StartCovered, Acts, Request, Barred
<1>2. Evolves /\ SameCharge
  BY <1>1, FindEvolves DEF StartCovered, IInv
<1>3. PICK i \in Found(a) : via' = [via EXCEPT ![c] = granted[i]]
  BY DEF StartCovered
<1>4. i \in DOMAIN granted /\ granted[i] \in Scope /\ Covers(granted[i], a)
  BY <1>3 DEF Found, Hits, Takes, IInv, StoreInv, StoreTypeOK
<1>5. /\ via'[c] = granted[i] /\ \A d \in Call \ {c} : via'[d] = via[d]
      /\ pc'[c] = "acting" /\ \A d \in Call \ {c} : pc'[d] = pc[d]
      /\ pc[c] = "idle" /\ via[c] = None
      /\ effect' = effect /\ settled' = settled /\ closed' = closed
      /\ asked' = asked /\ heard' = heard
  BY <1>3, <1>4 DEF StartCovered, Goto, IInv, CallInv, CallTypeOK, CoveredCalls,
     Started, promiseVars
<1>6. CallTypeOK'
  BY <1>3, <1>4, <1>5 DEF StartCovered, Goto, IInv, CallInv, CallTypeOK, PC
<1>7. CoveredCalls'
  <2> SUFFICES ASSUME NEW d \in Call, via'[d] # None
               PROVE  /\ pc'[d] \in Started
                      /\ Acts(d) /\ request[d].act \notin NoGo
                      /\ Covers(via[d], request[d].act)'
                      /\ \E j \in DOMAIN granted' : granted'[j] = via'[d]
    BY DEF CoveredCalls, Acts
  <2>1. /\ Acts(d) /\ request[d].act \notin NoGo
        /\ via'[d] \in Scope
        /\ Covers(via'[d], request[d].act)
        /\ \E j \in DOMAIN granted : granted[j] = via'[d]
        /\ pc'[d] \in Started
    <3>1. CASE d = c
      BY <3>1, <1>1, <1>4, <1>5 DEF StartCovered, Started
    <3>2. CASE d # c
      BY <3>2, <1>5 DEF IInv, CallInv, CoveredCalls, CallTypeOK
    <3> QED
      BY <3>1, <3>2
  <2>2. PICK s \in Scope : s = via'[d]
    BY <2>1
  <2>3. \A b \in {request[d].act} : Covers(s, b)
            => Covers(s, b)' /\ \E j \in DOMAIN granted' : granted'[j] = s
    BY <1>2, <2>1, <2>2, CoverageKept
  <2>4. Covers(s, request[d].act)' /\ \E j \in DOMAIN granted' : granted'[j] = s
    BY <2>1, <2>2, <2>3
  <2> QED
    BY <2>1, <2>2, <2>4 DEF Covers
<1>8. ApprovedCalls'
  BY <1>4, <1>5, TrustScopesAssumption DEF IInv, CallInv, ApprovedCalls
<1>9. LedgerComplete'
  <2>1. \A d \in Call, s \in Scope :
          (pc'[d] = "done" /\ via'[d] = s) <=> (pc[d] = "done" /\ via[d] = s)
    BY <1>5
  <2> QED
    BY <1>2, <2>1, LedgerKept
<1> QED
  BY <1>2, <1>6, <1>7, <1>8, <1>9 DEF IInv, CallInv, Evolves, EvolvesBut, StoreInv

\* The steps that leave the store alone.
LEMMA StoreUntouched ==
  ASSUME IInv, UNCHANGED storeVars
  PROVE  Evolves /\ SameCharge
BY StoreStutter DEF IInv

LEMMA AskingSteps ==
  ASSUME IInv, NEW c \in Call,
         StartUncovered(c) \/ StartBarred(c) \/ AskBarred(c) \/ StartScopeTool(c)
  PROVE  IInv' /\ Evolves
<1>1. Evolves /\ SameCharge
  <2>1. CASE StartUncovered(c) \/ StartBarred(c)
    <3>1. request[c].act \in Act
      BY <2>1, GatedActionsAssumption DEF StartUncovered, StartBarred, Acts, Request
    <3> QED
      BY <2>1, <3>1, FindEvolves DEF StartUncovered, StartBarred, IInv
  <2>2. CASE AskBarred(c) \/ StartScopeTool(c)
    BY <2>2, StoreUntouched DEF AskBarred, StartScopeTool
  <2> QED
    BY <2>1, <2>2
<1>2. PICK l \in {"warned", "deciding", "refused"} :
        Goto(c, l) /\ (l = "deciding" => c \in asked')
  BY DEF StartUncovered, StartBarred, AskBarred, StartScopeTool, Promise!Ask
<1>3. /\ via' = via /\ effect' = effect
      /\ settled' = settled /\ closed' = closed /\ heard' = heard
      /\ asked' \in SUBSET Call /\ asked \subseteq asked'
      /\ pc[c] \in {"idle", "warned"}
  BY DEF StartUncovered, StartBarred, AskBarred, StartScopeTool, Promise!Ask,
     promiseVars, IInv, CallInv, CallTypeOK
<1>4. CallTypeOK'
  BY <1>2, <1>3 DEF IInv, CallInv, CallTypeOK, Goto, PC
<1>5. via[c] = None
  BY <1>3 DEF IInv, CallInv, CoveredCalls, Started
<1>6. \A d \in Call : settled[d] # None => d \in closed
  BY DEF IInv, CallInv, ApprovedCalls
<1>7. l \in PC /\ l \notin {"cleared", "acting", "acted"}
  BY <1>2 DEF PC
<1> QED
  BY <1>1, <1>2, <1>3, <1>4, <1>5, <1>6, <1>7, HandlerMoves

LEMMA TimeOutStep ==
  ASSUME IInv, NEW c \in Call, TimeOut(c)
  PROVE  IInv' /\ Evolves
<1>1. Evolves /\ SameCharge
  BY StoreUntouched DEF TimeOut
<1>2. /\ Goto(c, "rejected") /\ via' = via /\ effect' = effect
      /\ pc[c] = "deciding" /\ c \notin closed
      /\ settled' = [settled EXCEPT ![c] = "reject"] /\ closed' = closed \cup {c}
      /\ asked' = asked
  BY DEF TimeOut, MayTimeOut
<1>3. CallTypeOK'
  BY DEF TimeOut, IInv, CallInv, CallTypeOK, Goto, PC, Answer
<1>4. \A d \in Call : settled[d] # None => d \in closed /\ settled'[d] = settled[d]
  BY <1>2 DEF IInv, CallInv, ApprovedCalls, CallTypeOK
<1>5. \A d \in Call : settled'[d] # None => d \in closed'
  BY <1>2, <1>4 DEF IInv, CallInv, CallTypeOK
<1>6. via[c] = None
  BY <1>2 DEF IInv, CallInv, CoveredCalls, Started
<1>7. "rejected" \in PC
  BY DEF PC
<1> QED
  BY <1>1, <1>2, <1>3, <1>4, <1>5, <1>6, <1>7, HandlerMoves

LEMMA HearingSteps ==
  ASSUME IInv, NEW c \in Call,
         HearReject(c) \/ HearApprove(c) \/ ApplyGrant(c) \/ ApplyExtend(c)
  PROVE  IInv' /\ Evolves
<1>1. Evolves /\ SameCharge
  <2>1. CASE HearReject(c) \/ HearApprove(c)
    BY <2>1, StoreUntouched DEF HearReject, HearApprove
  <2>2. CASE ApplyGrant(c)
    <3>1. request[c].scope \in Scope
      BY <2>2, GatedActionsAssumption DEF ApplyGrant, Request
    <3> QED
      BY <2>2, <3>1, GrantEvolves DEF ApplyGrant, IInv
  <2>3. CASE ApplyExtend(c)
    <3>1. /\ request[c].scope \in Scope /\ request[c].later \in BOOLEAN
          /\ request[c].cap \in NewCaps \cup {None}
      BY <2>3, GatedActionsAssumption DEF ApplyExtend, Request
    <3> QED
      BY <2>3, <3>1, ExtendEvolves, GatedActionsAssumption DEF ApplyExtend, IInv
  <2> QED
    BY <2>1, <2>2, <2>3
<1>2. PICK l \in {"rejected", "cleared", "acting", "done"} :
        Goto(c, l) /\ (l \in {"cleared", "acting"} => settled[c] = "approve")
  BY DEF HearReject, HearApprove, ApplyGrant, ApplyExtend
<1>3. /\ via' = via /\ effect' = effect /\ settled' = settled /\ closed' = closed
      /\ asked' = asked /\ pc[c] = "deciding"
      /\ heard' = [heard EXCEPT ![c] = settled[c]]
  BY DEF HearReject, HearApprove, ApplyGrant, ApplyExtend, Promise!Hear
<1>4. CallTypeOK'
  BY <1>2, <1>3 DEF IInv, CallInv, CallTypeOK, Goto, PC
<1>5. \A d \in Call : settled[d] # None => d \in closed
  BY DEF IInv, CallInv, ApprovedCalls
<1>6. via[c] = None
  BY <1>3 DEF IInv, CallInv, CoveredCalls, Started
<1>7. l \in PC /\ l # "acted"
  BY <1>2 DEF PC
<1> QED
  BY <1>1, <1>2, <1>3, <1>4, <1>5, <1>6, <1>7, HandlerMoves

\* Cleared, failed, and returned without a scope.
LEMMA MovingSteps ==
  ASSUME IInv, NEW c \in Call, Cleared(c) \/ Fail(c) \/ ReturnAsked(c)
  PROVE  IInv' /\ Evolves
<1>1. Evolves /\ SameCharge
  BY StoreUntouched DEF Cleared, Fail, ReturnAsked
<1>2. PICK l \in {"acting", "failed", "done"} :
        /\ Goto(c, l)
        /\ l = "acting" => pc[c] = "cleared"
        /\ l = "done" => via[c] = None
  BY DEF Cleared, Fail, ReturnAsked
<1>3. /\ via' = via /\ effect' = effect
      /\ settled' = settled /\ closed' = closed /\ asked' = asked /\ heard' = heard
      /\ pc[c] \in {"cleared", "acting", "acted"}
  BY DEF Cleared, Fail, ReturnAsked, promiseVars
<1>4. CallTypeOK'
  BY <1>2, <1>3 DEF IInv, CallInv, CallTypeOK, Goto, PC
<1>5. /\ \A d \in Call : settled[d] # None => d \in closed
      /\ via[c] = None => settled[c] = "approve"
  BY <1>3 DEF IInv, CallInv, ApprovedCalls
<1>6. l \in PC /\ (l # "done" => l \in Started \ {"done"}) /\ l \notin {"cleared", "acted"}
  BY <1>2 DEF PC, Started
<1> QED
  BY <1>1, <1>2, <1>3, <1>4, <1>5, <1>6, HandlerMoves

LEMMA TakeEffectStep ==
  ASSUME IInv, NEW c \in Call, TakeEffect(c)
  PROVE  IInv' /\ Evolves
<1>1. Evolves /\ SameCharge
  BY StoreUntouched DEF TakeEffect
<1>2. /\ pc[c] = "acting" /\ pc' = [pc EXCEPT ![c] = "acted"] /\ via' = via
      /\ effect' = effect \cup {c}
      /\ settled' = settled /\ closed' = closed /\ asked' = asked /\ heard' = heard
      /\ scope' = scope /\ granted' = granted
  BY DEF TakeEffect, Goto, promiseVars, storeVars
<1>3. CallTypeOK'
  BY <1>2 DEF IInv, CallInv, CallTypeOK, PC
<1>4. CoveredCalls'
  BY <1>2 DEF IInv, CallInv, CallTypeOK, CoveredCalls, Started, Acts, Covers
<1>5. ApprovedCalls'
  BY <1>2 DEF IInv, CallInv, CallTypeOK, ApprovedCalls
<1>6. LedgerComplete'
  <2>1. \A d \in Call, s \in Scope :
          (pc'[d] = "done" /\ via'[d] = s) <=> (pc[d] = "done" /\ via[d] = s)
    BY <1>2 DEF IInv, CallInv, CallTypeOK
  <2> QED
    BY <1>1, <2>1, LedgerKept
<1> QED
  BY <1>1, <1>3, <1>4, <1>5, <1>6 DEF IInv, CallInv, Evolves, EvolvesBut, StoreInv

\* The one step that charges: the set of calls done under the scope grows by
\* the returning call, and so does the count.
LEMMA ReturnCoveredStep ==
  ASSUME IInv, NEW c \in Call, ReturnCovered(c)
  PROVE  IInv' /\ Evolves
<1>1. PICK s \in Scope : s = via[c]
  BY DEF ReturnCovered, IInv, CallInv, CallTypeOK
<1>2. scope[s].status # "absent"
  BY <1>1, AbsentUnused DEF ReturnCovered
<1>3. /\ Evolves
      /\ scope'[s].used = scope[s].used + 1
      /\ \A t \in Scope \ {s} : scope'[t].used = scope[t].used
  BY <1>1, <1>2, RecordEvolves DEF ReturnCovered, IInv
<1>4. /\ pc[c] = "acted" /\ pc' = [pc EXCEPT ![c] = "done"] /\ via' = via
      /\ effect' = effect
      /\ settled' = settled /\ closed' = closed /\ asked' = asked /\ heard' = heard
  BY DEF ReturnCovered, Goto, promiseVars
<1>5. CallTypeOK'
  BY <1>4 DEF IInv, CallInv, CallTypeOK, PC
<1>6. CoveredCalls'
  <2> SUFFICES ASSUME NEW d \in Call, via[d] # None
               PROVE  /\ pc'[d] \in Started
                      /\ Acts(d) /\ request[d].act \notin NoGo
                      /\ Covers(via[d], request[d].act)'
                      /\ \E j \in DOMAIN granted' : granted'[j] = via[d]
    BY <1>4 DEF CoveredCalls, Acts
  <2>1. /\ via[d] \in Scope /\ pc[d] \in Started
        /\ Acts(d) /\ request[d].act \notin NoGo
        /\ Covers(via[d], request[d].act)
        /\ \E j \in DOMAIN granted : granted[j] = via[d]
    BY DEF IInv, CallInv, CoveredCalls, CallTypeOK
  <2>2. PICK t \in Scope : t = via[d]
    BY <2>1
  <2>3. \A b \in {request[d].act} : Covers(t, b)
            => Covers(t, b)' /\ \E j \in DOMAIN granted' : granted'[j] = t
    BY <1>3, <2>1, <2>2, CoverageKept
  <2>4. Covers(t, request[d].act)' /\ \E j \in DOMAIN granted' : granted'[j] = t
    BY <2>1, <2>2, <2>3
  <2>5. pc'[d] \in Started
    BY <1>4, <2>1 DEF Started, IInv, CallInv, CallTypeOK
  <2> QED
    BY <1>4, <2>1, <2>2, <2>4, <2>5 DEF Covers
<1>7. ApprovedCalls'
  BY <1>4 DEF IInv, CallInv, CallTypeOK, ApprovedCalls
<1>8. LedgerComplete'
  <2> DEFINE Done(t) == {d \in Call : pc[d] = "done" /\ via[d] = t}
             DoneNow(t) == {d \in Call : pc'[d] = "done" /\ via'[d] = t}
  <2>1. DoneNow(s) = Done(s) \cup {c} /\ c \notin Done(s)
    BY <1>1, <1>4 DEF IInv, CallInv, CallTypeOK
  <2>2. \A t \in Scope \ {s} : DoneNow(t) = Done(t)
    BY <1>1, <1>4 DEF IInv, CallInv, CallTypeOK
  <2>3. IsFiniteSet(Done(s))
    BY GatedActionsAssumption, FS_Subset
  <2>4. Cardinality(DoneNow(s)) = Cardinality(Done(s)) + 1
    BY <2>1, <2>3, FS_AddElement
  <2>5. \A t \in Scope : scope[t].used = Cardinality(Done(t))
    BY DEF IInv, CallInv, LedgerComplete
  <2>6. \A t \in Scope : scope'[t].used = Cardinality(DoneNow(t))
    BY <1>3, <2>2, <2>4, <2>5
  <2> QED
    BY <2>6 DEF LedgerComplete
<1> QED
  BY <1>3, <1>5, <1>6, <1>7, <1>8 DEF IInv, CallInv, Evolves, EvolvesBut, StoreInv

LEMMA RespondStep ==
  ASSUME IInv, NEW c \in Call, NEW o \in Answer, Respond(c, o)
  PROVE  IInv' /\ Evolves
<1>1. Evolves /\ SameCharge
  BY StoreUntouched DEF Respond
<1>2. /\ pc' = pc /\ via' = via /\ effect' = effect
      /\ scope' = scope /\ granted' = granted
      /\ c \in asked \ closed /\ asked' = asked /\ heard' = heard
      /\ settled' = [settled EXCEPT ![c] = o] /\ closed' = closed \cup {c}
  BY DEF Respond, callVars, storeVars, Promise!Settle
<1>3. CallTypeOK'
  BY <1>2 DEF IInv, CallInv, CallTypeOK
<1>4. settled[c] = None
  BY <1>2 DEF IInv, CallInv, ApprovedCalls, CallTypeOK
<1>5. ApprovedCalls'
  BY <1>2, <1>4, GatedActionsAssumption DEF IInv, CallInv, CallTypeOK, ApprovedCalls, Answer
<1>6. CoveredCalls'
  BY <1>2 DEF IInv, CallInv, CoveredCalls, Acts, Covers
<1>7. LedgerComplete'
  BY <1>1, <1>2, LedgerKept
<1> QED
  BY <1>1, <1>3, <1>5, <1>6, <1>7 DEF IInv, CallInv, Evolves, EvolvesBut, StoreInv

LEMMA ConsoleStep ==
  ASSUME IInv, Console
  PROVE  IInv' /\ Evolves
<1>1. ASSUME NEW c \in Call, NEW o \in Answer, Respond(c, o)
      PROVE  IInv' /\ Evolves
  BY <1>1, RespondStep
<1>2. ASSUME NEW s \in Scope, NEW p \in Proposals, Propose(s, p)
      PROVE  IInv' /\ Evolves
  BY <1>2, CreateEvolves, CallsStutter DEF Propose, promiseVars, IInv, CallInv, CallTypeOK
<1>3. ASSUME NEW s \in Scope, GrantDirectly(s)
      PROVE  IInv' /\ Evolves
  BY <1>3, GrantEvolves, CallsStutter DEF GrantDirectly, promiseVars, IInv
<1>4. ASSUME NEW s \in Scope, RevokeScope(s)
      PROVE  IInv' /\ Evolves
  BY <1>4, RevokeEvolves, CallsStutter DEF RevokeScope, promiseVars, IInv, CallInv, CallTypeOK
<1>5. ASSUME NEW s \in Scope, NEW later \in BOOLEAN, NEW cap \in NewCaps \cup {None},
             ExtendDirectly(s, later, cap)
      PROVE  IInv' /\ Evolves
  BY <1>5, ExtendEvolves, GatedActionsAssumption, CallsStutter DEF ExtendDirectly, promiseVars, IInv, CallInv, CallTypeOK
<1> QED
  BY <1>1, <1>2, <1>3, <1>4, <1>5 DEF Console

LEMMA ClockStep ==
  ASSUME IInv, Clock
  PROVE  IInv' /\ Evolves
<1>1. Evolves /\ SameCharge
  <2>1. CASE SweepExpired
    <3>1. lapsed \in SUBSET Scope /\ {} \in SUBSET Scope
      BY DEF IInv, StoreInv, StoreTypeOK
    <3> QED
      BY <2>1, <3>1, MarkedEvolves DEF SweepExpired, IInv
  <2>2. ASSUME NEW s \in Scope, Lapse(s)
        PROVE  Evolves /\ SameCharge
    BY <2>2 DEF Lapse, IInv, StoreInv, StoreTypeOK, GrantedRows, BlankRows, Evolves, EvolvesBut, SameCharge
  <2> QED
    BY <2>1, <2>2 DEF Clock
<1> QED
  BY <1>1, CallsStutter DEF Clock, promiseVars, IInv, CallInv, CallTypeOK

LEMMA RestartStep ==
  ASSUME IInv, Restart
  PROVE  IInv' /\ Evolves
<1>1. Evolves /\ SameCharge
  BY StoreUntouched DEF Restart
<1>2. /\ via' = via /\ effect' = effect
      /\ scope' = scope /\ granted' = granted
      /\ asked' = asked /\ heard' = heard /\ settled' = settled
      /\ closed' \in SUBSET Call /\ closed \subseteq closed'
  BY DEF Restart, storeVars, Promise!Abandon, IInv, CallInv, CallTypeOK
<1>3. \A c \in Call : pc'[c] = IF pc[c] \in InFlight THEN "lost" ELSE pc[c]
  BY DEF Restart
<1>4. CallTypeOK'
  BY <1>2 DEF Restart, IInv, CallInv, CallTypeOK, PC
<1>5. CoveredCalls'
  BY <1>2, <1>3 DEF IInv, CallInv, CoveredCalls, Started, Acts, Covers
<1>6. ApprovedCalls'
  BY <1>2, <1>3 DEF IInv, CallInv, ApprovedCalls, InFlight
<1>7. LedgerComplete'
  <2>1. \A d \in Call, s \in Scope :
          (pc'[d] = "done" /\ via'[d] = s) <=> (pc[d] = "done" /\ via[d] = s)
    BY <1>2, <1>3 DEF InFlight
  <2> QED
    BY <1>1, <2>1, LedgerKept
<1> QED
  BY <1>1, <1>4, <1>5, <1>6, <1>7 DEF IInv, CallInv, Evolves, EvolvesBut, StoreInv

LEMMA StutterStep ==
  ASSUME IInv, UNCHANGED vars
  PROVE  IInv' /\ Evolves
BY StoreUntouched, CallsStutter DEF vars, promiseVars, IInv, CallInv, CallTypeOK

\* Every step of the program preserves the invariant and lets the store evolve.
LEMMA NextStep ==
  ASSUME IInv, [Next]_vars
  PROVE  IInv' /\ Evolves
<1>1. ASSUME NEW c \in Call, Start(c)
      PROVE  IInv' /\ Evolves
  BY <1>1, StartCoveredStep, AskingSteps DEF Start
<1>2. ASSUME NEW c \in Call, Handler(c)
      PROVE  IInv' /\ Evolves
  BY <1>2, AskingSteps, TimeOutStep, HearingSteps, MovingSteps, TakeEffectStep,
     ReturnCoveredStep DEF Handler
<1> QED
  BY <1>1, <1>2, ConsoleStep, ClockStep, RestartStep, StutterStep DEF Next

-----------------------------------------------------------------------------
(* Theorems.                                                               *)

\* The inductive invariant holds in every reachable state.
THEOREM Safety == Spec => []IInv
<1>1. IInv /\ [Next]_vars => IInv'
  BY NextStep
<1> QED
  BY InitIInv, <1>1, PTL DEF Spec

\* Type correctness of the calls, the decisions and the scope table.
THEOREM TypeCorrect == Spec => []TypeOK
<1>1. IInv => TypeOK
  BY DEF IInv, StoreInv, CallInv, CallTypeOK, TypeOK
<1> QED
  BY Safety, <1>1, PTL

\* Nothing takes effect without an approval of the call or a granted scope
\* that covers it, and a no-go action only with the approval.
THEOREM OnlyAuthorised == Spec => []Authorised
<1>1. IInv => Authorised
  BY DEF IInv, CallInv, CallTypeOK, CoveredCalls, ApprovedCalls, Authorised
<1> QED
  BY Safety, <1>1, PTL

\* A scope is charged once for each call that came back under it.
THEOREM Ledger == Spec => []LedgerComplete
<1>1. IInv => LedgerComplete
  BY DEF IInv, CallInv
<1> QED
  BY Safety, <1>1, PTL

\* Revoked, expired and completed scopes are final.
THEOREM TerminalScopesFinal == Spec => Finality
<1>1. IInv /\ [Next]_vars =>
        [\A s \in Scope :
           scope[s].status \in Terminal => scope'[s].status = scope[s].status]_vars
  BY NextStep DEF Evolves, EvolvesBut
<1> QED
  BY Safety, <1>1, PTL DEF Spec, Finality

\* A call starts only under a scope that is active, in time and below its cap.
THEOREM CallsStartWithinBounds == Spec => StartsWithinBounds
<1> DEFINE Bounded == \A c \in Call : via'[c] # via[c] =>
                        /\ Active(via'[c])
                        /\ via'[c] \notin lapsed
                        /\ ~Spent(via'[c])
<1>1. ASSUME IInv, NEW c \in Call, StartCovered(c)
      PROVE  Bounded
  <2>1. PICK i \in Found(request[c].act) : via' = [via EXCEPT ![c] = granted[i]]
    BY <1>1 DEF StartCovered
  <2>2. Takes(granted[i], request[c].act)
    BY <2>1 DEF Found, Hits
  <2>3. PICK s : s = granted[i]
    OBVIOUS
  <2>4. Active(s) /\ s \notin lapsed /\ ~Spent(s)
    BY <2>2, <2>3 DEF Takes, Active, Spent
  <2>5. via' = [via EXCEPT ![c] = s] /\ via \in [Call -> Scope \cup {None}]
    BY <1>1, <2>1, <2>3 DEF IInv, CallInv, CallTypeOK
  <2>6. \A d \in Call : via'[d] # via[d] => via'[d] = s
    BY <2>5
  <2> QED
    BY <2>4, <2>6 DEF Active, Spent
<1>2. ASSUME IInv, [Next]_vars, ~ \E c \in Call : StartCovered(c)
      PROVE  via' = via
  BY <1>2 DEF Next, vars, callVars, Start, Handler, StartUncovered, StartBarred, StartScopeTool,
     AskBarred, TimeOut, HearReject, HearApprove, Cleared, ApplyGrant, ApplyExtend,
     TakeEffect, Fail, ReturnCovered, ReturnAsked, Console, Respond, Propose,
     GrantDirectly, RevokeScope, ExtendDirectly, Clock, Restart
<1>3. IInv /\ [Next]_vars => [Bounded]_vars
  BY <1>1, <1>2
<1> QED
  BY Safety, <1>3, PTL DEF Spec, StartsWithinBounds

\* Scopes are obeyed: ends are final and starts are within bounds, however the
\* calls, charges, extensions and revocations interleave.
THEOREM ScopesAlwaysObeyed == Spec => ScopesObeyed
BY TerminalScopesFinal, CallsStartWithinBounds DEF ScopesObeyed

\* Every step of a gated call is a step of the decision promise or leaves the
\* decisions alone.
LEMMA PromiseStep ==
  ASSUME IInv, [Next]_vars
  PROVE  [Promise!Next]_promiseVars
<1>1. ASSUME NEW c \in Call,
             StartUncovered(c) \/ AskBarred(c) \/ (StartScopeTool(c) /\ Admissible(c))
      PROVE  Promise!Next
  BY <1>1 DEF StartUncovered, AskBarred, StartScopeTool, Promise!Next
<1>2. ASSUME NEW c \in Call,
             HearReject(c) \/ HearApprove(c) \/ ApplyGrant(c) \/ ApplyExtend(c)
      PROVE  Promise!Next
  BY <1>2 DEF HearReject, HearApprove, ApplyGrant, ApplyExtend, Promise!Next
<1>3. ASSUME NEW c \in Call, TimeOut(c)
      PROVE  Promise!Next
  <2>1. c \in asked \ closed
    BY <1>3 DEF TimeOut, MayTimeOut, IInv, CallInv, ApprovedCalls
  <2>2. Promise!Settle(c, "reject")
    BY <1>3, <2>1 DEF TimeOut, Promise!Settle
  <2>3. "reject" \in Answer
    BY DEF Answer
  <2> QED
    BY <2>2, <2>3 DEF Promise!Next
<1>4. ASSUME NEW c \in Call, NEW o \in Answer, Respond(c, o)
      PROVE  Promise!Next
  BY <1>4 DEF Respond, Promise!Next
<1>5. ASSUME Restart
      PROVE  Promise!Next
  <2>1. PICK D \in SUBSET (asked \ closed) : Promise!Abandon(D)
    BY <1>5 DEF Restart
  <2>2. D \in SUBSET Call
    BY DEF IInv, CallInv, CallTypeOK
  <2> QED
    BY <2>1, <2>2 DEF Promise!Next
<1>6. ASSUME NEW c \in Call,
             \/ StartCovered(c) \/ StartBarred(c) \/ (StartScopeTool(c) /\ ~Admissible(c))
             \/ Cleared(c) \/ TakeEffect(c) \/ Fail(c) \/ ReturnCovered(c) \/ ReturnAsked(c)
      PROVE  UNCHANGED promiseVars
  BY <1>6 DEF StartCovered, StartBarred, StartScopeTool, Cleared, TakeEffect, Fail,
     ReturnCovered, ReturnAsked, promiseVars
<1>7. ASSUME Console, ~ \E c \in Call, o \in Answer : Respond(c, o)
      PROVE  UNCHANGED promiseVars
  BY <1>7 DEF Console, Propose, GrantDirectly, RevokeScope, ExtendDirectly, promiseVars
<1>8. ASSUME Clock \/ UNCHANGED vars
      PROVE  UNCHANGED promiseVars
  BY <1>8 DEF Clock, vars, promiseVars
<1> QED
  BY <1>1, <1>2, <1>3, <1>4, <1>5, <1>6, <1>7, <1>8 DEF Next, Start, Handler, Console

\* The calls use their decisions exactly as DecisionPromise promises them.
THEOREM DecisionsUsedAsPromised == Spec => PromiseKept
<1>1. Init => Promise!Init
  BY DEF Init
<1>2. IInv /\ [Next]_vars => [Promise!Next]_(Promise!vars)
  BY PromiseStep DEF promiseVars, Promise!vars
<1> QED
  BY Safety, <1>1, <1>2, PTL DEF Spec, PromiseKept, Promise!Spec
=============================================================================
