----------------------------- MODULE ClientsProofs -----------------------------
(***************************************************************************)
(* What holds of the shim, the Steward role and the Governor for every     *)
(* value of their constants.                                               *)
(***************************************************************************)
EXTENDS MCClients, SequenceTheorems, TLAPS

-----------------------------------------------------------------------------
(* The shim.  NeverStranded is inductive with the types: every way a        *)
(* transport comes to be broken schedules a reconnect in the same step, a   *)
(* timer is taken away only by an attempt or by the end of the shim, and an *)
(* attempt ends with another transport or with an error, which schedules    *)
(* again.                                                                   *)

\* The inductive invariant.
ShimInv == TypeOK /\ NeverStranded

LEMMA AgedType ==
  ASSUME NEW bound \in Nat, NEW t \in None..bound
  PROVE  Aged(t, bound) \in None..bound /\ (t # None => Aged(t, bound) \in 0..bound)
BY DEF Aged, Lower, None

LEMMA InitShimInv == Init => ShimInv
<1> SUFFICES ASSUME Init PROVE ShimInv
  OBVIOUS
<1>1. /\ outages \in 0..MaxOutages /\ sinceError \in None..(ResetAfterClean + 1)
      /\ sinceSuccess \in 0..(ResetAfterClean + 1)
      /\ sinceFirstFailure \in None..(GiveUpAfter + 1)
  BY ShimAssumption DEF Init, None
<1>2. NeverStranded
  BY DEF Init, NeverStranded
<1> QED
  BY <1>1, <1>2, ShimAssumption DEF Init, ShimInv, TypeOK

\* A reconnect that is scheduled has a timer.
LEMMA ScheduleArms ==
  ASSUME TypeOK, NEW b \in Nat, Schedule(b)
  PROVE  pending' \in Nat /\ backoff' \in Nat
BY ShimAssumption DEF TypeOK, Schedule, Lower, None

\* An error leaves a shim that runs with a timer.
LEMMA ErrorArms ==
  ASSUME TypeOK, NEW t \in Transports, NEW w \in {"none", "broken"}, HandleError(t, w)
  PROVE  /\ wire' \in [Transports -> {"none", "open", "broken", "shut"}]
         /\ failing' \in BOOLEAN /\ closed' \in {"no", "gave_up", "ended"}
         /\ pending' \in Nat \cup {None} /\ backoff' \in Nat
         /\ sinceError' \in None..(ResetAfterClean + 1)
         /\ sinceSuccess' \in 0..(ResetAfterClean + 1)
         /\ sinceFirstFailure' \in None..(GiveUpAfter + 1)
         /\ closed' = "no" => pending' # None
<1>1. CASE closed # "no"
  BY <1>1 DEF TypeOK, HandleError, timeVars
<1>2. CASE closed = "no"
  <2> DEFINE first == IF CleanStretch \/ sinceFirstFailure = None THEN 0 ELSE sinceFirstFailure
             b == IF CleanStretch THEN InitialBackoff ELSE backoff
  <2>1. /\ failing' = TRUE /\ sinceError' = 0 /\ sinceFirstFailure' = first
        /\ UNCHANGED sinceSuccess
        /\ IF first > GiveUpAfter THEN Shutdown("gave_up")
           ELSE Schedule(b) /\ wire' = [wire EXCEPT ![t] = w] /\ UNCHANGED closed
    BY <1>2 DEF HandleError
  <2>2. 0 \in None..(ResetAfterClean + 1)
    BY ShimAssumption DEF None
  <2>3. first \in None..(GiveUpAfter + 1)
    BY ShimAssumption DEF TypeOK, None
  <2>4. b \in Nat
    BY ShimAssumption DEF TypeOK
  <2>5. CASE first > GiveUpAfter
    BY <2>1, <2>2, <2>3, <2>5 DEF TypeOK, Shutdown
  <2>6. CASE ~(first > GiveUpAfter)
    <3>1. Schedule(b) /\ wire' = [wire EXCEPT ![t] = w] /\ UNCHANGED closed
      BY <2>1, <2>6
    <3>2. pending' \in Nat /\ backoff' \in Nat
      BY <2>4, <3>1, ScheduleArms
    <3>3. pending' # None
      BY <3>2 DEF None
    <3> HIDE DEF first, b
    <3> QED
      BY <2>1, <2>2, <2>3, <3>1, <3>2, <3>3 DEF TypeOK
  <2> QED
    BY <2>5, <2>6
<1> QED
  BY <1>1, <1>2

LEMMA StepShimInv == ShimInv /\ [Next]_vars => ShimInv'
<1> SUFFICES ASSUME ShimInv, [Next]_vars PROVE ShimInv'
  OBVIOUS
<1> USE DEF ShimInv
<1>1. CASE Fire
  BY <1>1 DEF Fire, TypeOK, NeverStranded, timeVars
<1>2. CASE Tick
  <2>1. pending' \in Nat \cup {None} /\ (pending # None => pending' # None)
    BY <1>2 DEF Tick, TypeOK, None
  <2>2. /\ sinceError' \in None..(ResetAfterClean + 1)
        /\ sinceSuccess' \in 0..(ResetAfterClean + 1)
        /\ sinceFirstFailure' \in None..(GiveUpAfter + 1)
    <3>1. ResetAfterClean + 1 \in Nat /\ GiveUpAfter + 1 \in Nat
      BY ShimAssumption
    <3>2. sinceSuccess \in None..(ResetAfterClean + 1) /\ sinceSuccess # None
      BY DEF TypeOK, None
    <3> QED
      BY <1>2, <3>1, <3>2, AgedType DEF Tick, TypeOK
  <2> QED
    BY <1>2, <2>1, <2>2 DEF Tick, TypeOK, NeverStranded
<1>3. CASE StdinEnds
  BY <1>3 DEF StdinEnds, Shutdown, TypeOK, NeverStranded, timeVars
<1>4. CASE DaemonGoes \/ DaemonReturns
  <2>1. outages' \in 0..MaxOutages
    BY <1>4, ShimAssumption DEF DaemonGoes, DaemonReturns, TypeOK
  <2> QED
    BY <1>4, <2>1 DEF DaemonGoes, DaemonReturns, TypeOK, NeverStranded, timeVars
<1>5. ASSUME NEW t \in Transports, Error(t) PROVE ShimInv'
  <2>1. PICK w \in {"none", "broken"} : HandleError(t, w)
    BY <1>5 DEF Error
  <2> QED
    BY <1>5, <2>1, ErrorArms DEF Error, TypeOK, NeverStranded
<1>6. ASSUME NEW t \in Transports, Started(t) PROVE ShimInv'
  <2>1. pending' \in Nat \cup {None} /\ backoff' \in Nat
    BY <1>6, ScheduleArms DEF Started, TypeOK
  <2>2. wire'[sse'] # "broken"
    BY <1>6 DEF Started, TypeOK
  <2> QED
    BY <1>6, <2>1, <2>2 DEF Started, TypeOK, NeverStranded, timeVars
<1>7. ASSUME NEW t \in Transports, StartFails(t) PROVE ShimInv'
  <2>1. HandleError(t, "none")
    BY <1>7 DEF StartFails
  <2> QED
    BY <1>7, <2>1, ErrorArms DEF StartFails, TypeOK, NeverStranded
<1>8. ASSUME NEW t \in Transports, Reconnected(t) PROVE ShimInv'
  <2>1. /\ sinceSuccess' \in 0..(ResetAfterClean + 1) /\ sinceFirstFailure' \in None..(GiveUpAfter + 1)
        /\ backoff' \in Nat
    BY <1>8, ShimAssumption DEF Reconnected, None
  <2>2. \A u \in Transports : attempt[u] = "starting" => attempt'[u] = "starting"
    BY <1>8 DEF Reconnected, TypeOK
  <2> QED
    BY <1>8, <2>1, <2>2 DEF Reconnected, TypeOK, NeverStranded
<1>9. CASE UNCHANGED vars
  BY <1>9 DEF vars, timeVars, TypeOK, NeverStranded
<1> QED
  BY <1>1, <1>2, <1>3, <1>4, <1>5, <1>6, <1>7, <1>8, <1>9 DEF Next

\* Every variable of the shim keeps its type.
THEOREM ShimTypeCorrect == Spec => []TypeOK
<1>1. ShimInv => TypeOK
  BY DEF ShimInv
<1> QED
  BY <1>1, InitShimInv, StepShimInv, PTL DEF Spec

\* handleSseError, attemptReconnect and scheduleReconnect never leave a running
\* shim with a broken transport and nothing on its way to replace it.
THEOREM NeverStrandedAlways == Spec => []NeverStranded
<1>1. ShimInv => NeverStranded
  BY DEF ShimInv
<1> QED
  BY <1>1, InitShimInv, StepShimInv, PTL DEF Spec

\* Only the transport that takes over opens, and it shuts the one before it; only
\* the current one can break.
LEMMA StepOneTransport == TypeOK /\ OneTransport /\ [Next]_vars => OneTransport'
<1> SUFFICES ASSUME TypeOK, OneTransport, [Next]_vars, closed' = "no",
                    NEW u \in Transports, wire'[u] \in {"open", "broken"}
             PROVE  u = sse'
  BY DEF OneTransport
<1>1. ASSUME NEW t \in Transports, NEW w \in {"none", "broken"}, HandleError(t, w),
             w = "broken" => t = sse, sse' = sse
      PROVE  u = sse'
  <2>1. closed = "no" /\ wire' = [wire EXCEPT ![t] = w]
    BY <1>1 DEF HandleError, Shutdown
  <2> QED
    BY <1>1, <2>1 DEF TypeOK, OneTransport
<1>2. CASE Fire
  BY <1>2 DEF Fire, TypeOK, OneTransport
<1>3. CASE Tick \/ StdinEnds \/ DaemonGoes \/ DaemonReturns \/ UNCHANGED vars
  BY <1>3 DEF Tick, StdinEnds, Shutdown, DaemonGoes, DaemonReturns, vars, OneTransport
<1>4. ASSUME NEW t \in Transports, Error(t) PROVE u = sse'
  <2>1. PICK w \in {"none", "broken"} :
          HandleError(t, w) /\ (w = "broken" => wire[t] \in {"open", "broken"})
    BY <1>4 DEF Error
  <2>2. closed = "no"
    BY <2>1 DEF HandleError, Shutdown
  <2> QED
    BY <1>1, <1>4, <2>1, <2>2 DEF Error, OneTransport
<1>5. ASSUME NEW t \in Transports, Started(t) PROVE u = sse'
  BY <1>5 DEF Started, TypeOK, OneTransport
<1>6. ASSUME NEW t \in Transports, StartFails(t) PROVE u = sse'
  BY <1>1, <1>6 DEF StartFails
<1>7. ASSUME NEW t \in Transports, Reconnected(t) PROVE u = sse'
  BY <1>7 DEF Reconnected, OneTransport
<1> QED
  BY <1>2, <1>3, <1>4, <1>5, <1>6, <1>7 DEF Next

\* However attempts, errors and outages overlap, a running shim has one transport,
\* which works or is about to be replaced.
THEOREM TransportsAlwaysHold == Spec => []TransportsHold
<1>1. Init => OneTransport
  BY DEF Init, OneTransport
<1>2. NeverStranded /\ OneTransport => TransportsHold
  BY DEF TransportsHold
<1> QED
  BY <1>1, <1>2, ShimTypeCorrect, NeverStrandedAlways, StepOneTransport, PTL DEF Spec

-----------------------------------------------------------------------------
(* The Steward role.  The store's look at the table and its write are one   *)
(* step, so the argument is about the table alone: an operation that opens  *)
(* a session redeems a fresh token, tokens of sessions are redeemed, and it *)
(* opens one only where none is active or where it ends the only active     *)
(* one.                                                                     *)

\* The tokens of sessions are spent.
SessionsRedeem == \A i \in DOMAIN session : token[session[i].token] = "redeemed"

\* A call that was begun has a client, and unless it releases, a token.
CallsHaveArguments ==
  \A c \in Calls : call[c].at \in {"asked", "approved", "performed"} =>
    /\ call[c].kind \in R!CallKinds /\ call[c].client \in Clients
    /\ call[c].kind # "release" => call[c].token \in Tokens

\* The inductive invariant.
RoleInv == R!TypeOK /\ R!OneSteward /\ SessionsRedeem /\ R!TokenOnce /\ CallsHaveArguments

LEMMA InitRoleInv == R!Init => RoleInv
<1> SUFFICES ASSUME R!Init PROVE RoleInv
  OBVIOUS
<1>1. session \in Seq(R!Row) /\ DOMAIN session = {}
  BY EmptySeq DEF R!Init
<1> QED
  BY <1>1 DEF R!Init, RoleInv, R!TypeOK, R!OneSteward, SessionsRedeem, R!TokenOnce, CallsHaveArguments,
              R!ActiveSessions, R!Blank, R!Over, R!CallKinds, R!Unset

\* The newest active session is an active session.
LEMMA ActiveIsActive ==
  ASSUME RoleInv, R!ActiveSessions # {}
  PROVE  R!Active \in R!ActiveSessions
<1>1. PICK a \in R!ActiveSessions : \A j \in R!ActiveSessions : j = a
  BY DEF RoleInv, R!OneSteward
<1>2. a \in Nat
  BY LenProperties DEF RoleInv, R!TypeOK, R!ActiveSessions
<1>3. \A j \in R!ActiveSessions : j <= a
  BY <1>1, <1>2
<1> QED
  BY <1>1, <1>3 DEF R!Active

\* Ending the active session leaves none active and every session's token.
LEMMA EndingActive ==
  ASSUME RoleInv, R!ActiveSessions # {}, NEW x \in Clients \cup {"transferred"},
         NEW s, s = [session EXCEPT ![R!Active].ended = x]
  PROVE  /\ s \in Seq(R!Row) /\ Len(s) = Len(session)
         /\ \A i \in 1..Len(session) : s[i].token = session[i].token
         /\ \A i \in 1..Len(session) : i # R!Active => s[i] = session[i]
         /\ s[R!Active].ended = x
<1>1. R!Active \in 1..Len(session) /\ session \in Seq(R!Row)
  BY ActiveIsActive, LenProperties DEF R!ActiveSessions, RoleInv, R!TypeOK
<1>2. session[R!Active] \in R!Row
  BY <1>1, ElementOfSeq
<1> DEFINE r == [session[R!Active] EXCEPT !.ended = x]
<1>3. r \in R!Row /\ r.token = session[R!Active].token /\ r.ended = x
  BY <1>2 DEF R!Row
<1>4. s = [session EXCEPT ![R!Active] = r]
  OBVIOUS
<1> HIDE DEF r
<1> QED
  BY <1>1, <1>3, <1>4, ExceptSeq

\* A session appended to a table without active ones, with a token no session has.
LEMMA Appending ==
  ASSUME RoleInv, NEW m \in Clients, NEW t \in Tokens, token[t] # "redeemed",
         NEW s \in Seq(R!Row), Len(s) = Len(session),
         \A i \in 1..Len(session) : s[i].token = session[i].token,
         \A i \in 1..Len(session) : s[i].ended # R!Unset,
         session' = Append(s, R!Opened(m, t)),
         token' = [token EXCEPT ![t] = "redeemed"]
  PROVE  /\ session' \in Seq(R!Row)
         /\ token' \in [Tokens -> {"unminted", "fresh", "expired", "redeemed"}]
         /\ R!OneSteward' /\ SessionsRedeem' /\ R!TokenOnce'
<1> DEFINE n == Len(session)
<1>1. n \in Nat /\ DOMAIN session = 1..n /\ session \in Seq(R!Row)
  BY LenProperties DEF RoleInv, R!TypeOK
<1>2. R!Opened(m, t) \in R!Row /\ R!Opened(m, t).token = t
  BY DEF R!Opened, R!Row
<1>3. /\ session' \in Seq(R!Row) /\ Len(session') = n + 1
      /\ \A i \in 1..n : session'[i] = s[i]
      /\ session'[n + 1] = R!Opened(m, t)
  BY <1>2, AppendProperties
<1>4. DOMAIN session' = 1..(n + 1)
  BY <1>3, LenProperties
<1>5. \A i \in 1..n : session[i].token \in Tokens /\ session[i].token # t
                      /\ token[session[i].token] = "redeemed"
  <2>1. \A i \in 1..n : session[i] \in R!Row
    BY <1>1, ElementOfSeq
  <2> QED
    BY <1>1, <2>1 DEF RoleInv, SessionsRedeem, R!Row
<1>6. \A i \in 1..(n + 1) : i \in 1..n \/ i = n + 1
  BY <1>1
<1>7. token' \in [Tokens -> {"unminted", "fresh", "expired", "redeemed"}]
  BY DEF RoleInv, R!TypeOK
<1>8. \A i \in 1..(n + 1) : session'[i].ended = R!Unset => i = n + 1
  BY <1>3, <1>6
<1>9. R!OneSteward'
  BY <1>4, <1>8 DEF R!OneSteward, R!ActiveSessions
<1>10. \A i \in 1..n : session'[i].token = session[i].token
  BY <1>3
<1>11. session'[n + 1].token = t /\ token'[t] = "redeemed"
  BY <1>2, <1>3 DEF RoleInv, R!TypeOK
<1>12. \A i \in 1..n : token'[session[i].token] = "redeemed"
  BY <1>5 DEF RoleInv, R!TypeOK
<1>13. SessionsRedeem'
  <2> SUFFICES ASSUME NEW i \in 1..(n + 1) PROVE token'[session'[i].token] = "redeemed"
    BY <1>4 DEF SessionsRedeem
  <2> QED
    BY <1>6, <1>10, <1>11, <1>12
<1>14. R!TokenOnce'
  <2> SUFFICES ASSUME NEW i \in 1..(n + 1), NEW j \in 1..(n + 1),
                      session'[i].token = session'[j].token
               PROVE  i = j
    BY <1>4 DEF R!TokenOnce
  <2>1. CASE i \in 1..n /\ j \in 1..n
    BY <2>1, <1>1, <1>10 DEF RoleInv, R!TokenOnce
  <2>2. CASE i \in 1..n /\ j = n + 1
    BY <2>2, <1>5, <1>10, <1>11
  <2>3. CASE i = n + 1 /\ j \in 1..n
    BY <2>3, <1>5, <1>10, <1>11
  <2> QED
    BY <1>6, <2>1, <2>2, <2>3
<1> QED
  BY <1>3, <1>7, <1>9, <1>13, <1>14

LEMMA PerformKeepsRoleInv ==
  ASSUME RoleInv, NEW c \in Calls, R!Perform(c)
  PROVE  RoleInv'
<1>1. /\ call' \in [Calls -> [at : R!Over \cup {"asked", "approved", "performed"},
                              kind : R!CallKinds \cup {R!Unset}, client : Clients \cup {R!Unset},
                              token : Tokens \cup {R!Unset}]]
      /\ CallsHaveArguments'
  BY DEF RoleInv, R!TypeOK, CallsHaveArguments, R!Perform
<1>2. call[c].client \in Clients /\ (call[c].kind # "release" => call[c].token \in Tokens)
  BY DEF RoleInv, CallsHaveArguments, R!Perform
<1>3. session \in Seq(R!Row) /\ Len(session) \in Nat /\ DOMAIN session = 1..Len(session)
  BY LenProperties DEF RoleInv, R!TypeOK
<1>4. CASE R!Claimed(c)
  <2>1. \A i \in 1..Len(session) : session[i].ended # R!Unset
    BY <1>3, <1>4 DEF R!Claimed, R!Vacant, R!ActiveSessions
  <2>2. call[c].token \in Tokens /\ token[call[c].token] # "redeemed"
    BY <1>2, <1>4 DEF R!Claimed, R!Redeemable
  <2> QED
    BY <1>1, <1>2, <1>3, <1>4, <2>1, <2>2, Appending DEF R!Claimed, RoleInv, R!TypeOK
<1>5. CASE R!Transferred(c)
  <2> DEFINE s == [session EXCEPT ![R!Active].ended = "transferred"]
  <2>1. call[c].token \in Tokens /\ token[call[c].token] # "redeemed" /\ R!ActiveSessions # {}
    BY <1>2, <1>5 DEF R!Transferred, R!Redeemable
  <2>2. /\ s \in Seq(R!Row) /\ Len(s) = Len(session)
        /\ \A i \in 1..Len(session) : s[i].token = session[i].token
        /\ \A i \in 1..Len(session) : i # R!Active => s[i] = session[i]
        /\ s[R!Active].ended = "transferred"
    BY <2>1, EndingActive
  <2>3. \A i \in 1..Len(session) : s[i].ended # R!Unset
    <3> SUFFICES ASSUME NEW i \in 1..Len(session), i # R!Active PROVE session[i].ended # R!Unset
      BY <2>2 DEF R!Unset
    <3> QED
      BY <1>3, <2>1, ActiveIsActive DEF RoleInv, R!OneSteward, R!ActiveSessions
  <2>4. session' = Append(s, R!Opened(call[c].client, call[c].token))
        /\ token' = [token EXCEPT ![call[c].token] = "redeemed"]
    BY <1>5 DEF R!Transferred, R!HandsOver
  <2> HIDE DEF s
  <2> QED
    BY <1>1, <1>2, <2>1, <2>2, <2>3, <2>4, Appending DEF RoleInv, R!TypeOK
<1>6. CASE R!Released(c)
  <2>1. /\ session' \in Seq(R!Row) /\ Len(session') = Len(session)
        /\ \A i \in 1..Len(session) : session'[i].token = session[i].token
        /\ \A i \in 1..Len(session) : i # R!Active => session'[i] = session[i]
    <3>0. PICK x \in Clients \cup {"transferred"} : x = call[c].client
      BY <1>2
    <3> DEFINE s == [session EXCEPT ![R!Active].ended = x]
    <3>1. session' = s /\ R!ActiveSessions # {}
      BY <1>6, <3>0 DEF R!Released
    <3>2. /\ s \in Seq(R!Row) /\ Len(s) = Len(session)
          /\ \A i \in 1..Len(session) : s[i].token = session[i].token
          /\ \A i \in 1..Len(session) : i # R!Active => s[i] = session[i]
          /\ s[R!Active].ended = x
      BY <3>1, EndingActive
    <3> QED
      BY <3>1, <3>2
  <2>2. DOMAIN session' = 1..Len(session)
    BY <2>1, LenProperties
  <2>3. R!Active \in R!ActiveSessions
    BY <1>6, ActiveIsActive DEF R!Released
  <2>4. R!OneSteward'
    BY <1>3, <2>1, <2>2, <2>3 DEF R!OneSteward, R!ActiveSessions, RoleInv
  <2>5. SessionsRedeem' /\ R!TokenOnce'
    BY <1>3, <1>6, <2>1, <2>2 DEF SessionsRedeem, R!TokenOnce, RoleInv, R!Released
  <2> QED
    BY <1>1, <1>6, <2>1, <2>4, <2>5 DEF RoleInv, R!TypeOK, R!Released
<1> QED
  BY <1>4, <1>5, <1>6 DEF R!Perform

LEMMA StepRoleInv == RoleInv /\ [R!Next]_R!vars => RoleInv'
<1> SUFFICES ASSUME RoleInv, [R!Next]_R!vars PROVE RoleInv'
  OBVIOUS
<1> USE DEF RoleInv, R!TypeOK, R!OneSteward, SessionsRedeem, R!TokenOnce, CallsHaveArguments, R!ActiveSessions
<1>1. ASSUME NEW t \in Tokens, R!MintToken(t) \/ R!TokenExpires(t) PROVE RoleInv'
  <2>1. session' = session /\ call' = call /\ token[t] # "redeemed"
        /\ token' \in [Tokens -> {"unminted", "fresh", "expired", "redeemed"}]
        /\ \A u \in Tokens : u # t => token'[u] = token[u]
    BY <1>1 DEF R!MintToken, R!TokenExpires
  <2>2. \A i \in DOMAIN session : session[i].token \in Tokens
    <3>1. \A i \in DOMAIN session : session[i] \in R!Row
      BY ElementOfSeq, LenProperties
    <3> QED
      BY <3>1 DEF R!Row
  <2> QED
    BY <2>1, <2>2
<1>2. ASSUME NEW c \in Calls, NEW k \in R!CallKinds, NEW m \in Clients, NEW t \in Tokens \cup {R!Unset},
             R!Begin(c, k, m, t)
      PROVE  RoleInv'
  BY <1>2 DEF R!Begin, R!CallKinds, R!Over
<1>3. ASSUME NEW c \in Calls,
             R!Approved(c) \/ R!Refused(c) \/ R!Fail(c) \/ R!DirectoryFails(c) \/ R!Return(c)
      PROVE  RoleInv'
  BY <1>3 DEF R!Approved, R!Refused, R!Fail, R!DirectoryFails, R!Return, R!Over
<1>4. ASSUME NEW c \in Calls, R!Perform(c) PROVE RoleInv'
  BY <1>4, PerformKeepsRoleInv
<1>5. CASE UNCHANGED R!vars
  BY <1>5 DEF R!vars
<1> QED
  BY <1>1, <1>2, <1>3, <1>4, <1>5 DEF R!Next

\* For every set of clients, tokens and calls, the tables and the calls keep their types.
THEOREM RoleTypeCorrect == R!Spec => []R!TypeOK
<1>1. RoleInv => R!TypeOK
  BY DEF RoleInv
<1> QED
  BY <1>1, InitRoleInv, StepRoleInv, PTL DEF R!Spec

\* The newest session is the only one that may be active: registerClaim,
\* registerTransfer and registerRelease cannot make two Stewards.
THEOREM OneStewardAlways == R!Spec => []R!OneSteward
<1>1. RoleInv => R!OneSteward
  BY DEF RoleInv
<1> QED
  BY <1>1, InitRoleInv, StepRoleInv, PTL DEF R!Spec

\* A token that opened a session opens no other: the claim token is one-shot.
THEOREM TokensOpenOnce == R!Spec => []R!TokenOnce
<1>1. RoleInv => R!TokenOnce
  BY DEF RoleInv
<1> QED
  BY <1>1, InitRoleInv, StepRoleInv, PTL DEF R!Spec

\* What runs beside the Steward role leaves its variables alone.
LEMMA EitherRole ==
  /\ EitherInit => R!Init
  /\ [EitherNext]_all => [R!Next]_R!vars
<1>1. EitherInit => R!Init
  BY DEF EitherInit
<1>2. EitherNext => R!Next \/ UNCHANGED R!vars
  BY DEF EitherNext, Relays, Governs, Seeks, steward, R!vars
<1>3. UNCHANGED all => UNCHANGED R!vars
  BY DEF all, steward, R!vars
<1> QED
  BY <1>1, <1>2, <1>3

\* In the composition that is model-checked too, for any number of clients, tokens
\* and calls: one Steward at a time, and a token opens one session.
THEOREM RoleGivenOnceAlways == EitherSpec => []RoleGivenOnce
<1>1. R!OneSteward /\ R!TokenOnce => RoleGivenOnce
  BY DEF RoleGivenOnce, R!RoleGivenOnce
<1>2. RoleInv => RoleGivenOnce
  BY <1>1 DEF RoleInv
<1> QED
  BY <1>2, EitherRole, InitRoleInv, StepRoleInv, PTL DEF EitherSpec

-----------------------------------------------------------------------------
(* The Governor.  The state machine keeps two counters instead of history:  *)
(* each tells, up to its bound, how many of the last probes went one way,   *)
(* and that is what the verdict needs.                                      *)

MonitorOK ==
  /\ daemon \in G!Outcomes /\ verdict \in G!Verdicts /\ proven \in BOOLEAN
  /\ unreachable \in 0..UnreachableToDown
  /\ sinceOk \in G!Never..(DegradedToDown + 1) /\ sinceBoot \in 0..SettleWindow
  /\ trail \in Seq(G!Outcomes) /\ Len(trail) <= G!TrailLength

\* LastAre of any trail.
EndsIn(t, n, S) == Len(t) >= n /\ \A i \in (Len(t) - n + 1)..Len(t) : t[i] \in S

\* consecutive_unreachable counts probes that were all unreachable.
StreakIsUnreachable == G!LastAre(unreachable, {"Unreachable"})

\* No probe was good since last_ok_probe.
NoneGoodSince == sinceOk # G!Never => G!LastAre(sinceOk, G!Outcomes \ {"Ok"})

GovernorInv ==
  MonitorOK /\ StreakIsUnreachable /\ NoneGoodSince /\ G!VerdictMatchesProbes

LEMMA TrailBound ==
  /\ G!TrailLength \in Nat \ {0}
  /\ UnreachableToDown <= G!TrailLength /\ DegradedToDown + 1 <= G!TrailLength
BY GovernorAssumption DEF G!TrailLength

LEMMA InitGovernorInv == G!Init => GovernorInv
<1> SUFFICES ASSUME G!Init PROVE GovernorInv
  OBVIOUS
<1>1. trail = <<>> /\ Len(trail) = 0 /\ trail \in Seq(G!Outcomes)
  BY DEF G!Init
<1>2. /\ unreachable \in 0..UnreachableToDown /\ sinceBoot \in 0..SettleWindow
      /\ sinceOk \in G!Never..(DegradedToDown + 1) /\ Len(trail) <= G!TrailLength
  BY <1>1, GovernorAssumption, TrailBound DEF G!Init, G!Never
<1>3. MonitorOK
  BY <1>1, <1>2 DEF G!Init, MonitorOK, G!Verdicts
<1> QED
  BY <1>1, <1>3 DEF G!Init, GovernorInv, StreakIsUnreachable, NoneGoodSince,
                    G!VerdictMatchesProbes, G!LastAre

\* A probe is appended and at most the oldest is forgotten: the last n probes went
\* one way if the new one did and so did the n - 1 before it.
LEMMA ProbeLengthens ==
  ASSUME MonitorOK, G!Turn
  PROVE  /\ trail' \in Seq(G!Outcomes) /\ Len(trail') \in 1..G!TrailLength
         /\ trail'[Len(trail')] = daemon
         /\ \A S, m, n : /\ m \in Nat /\ n \in Nat /\ n <= m + 1 /\ n <= G!TrailLength
                         /\ EndsIn(trail, m, S) /\ daemon \in S
                         => EndsIn(trail', n, S)
<1> DEFINE t == Append(trail, daemon)
<1>1. /\ t \in Seq(G!Outcomes) /\ Len(t) = Len(trail) + 1 /\ Len(trail) \in Nat
      /\ t[Len(t)] = daemon /\ \A i \in 1..Len(trail) : t[i] = trail[i]
  BY AppendProperties, LenProperties DEF MonitorOK
<1>2. PICK k \in {0, 1} :
        /\ trail' \in Seq(G!Outcomes) /\ Len(trail') = Len(t) - k
        /\ \A i \in 1..(Len(t) - k) : trail'[i] = t[i + k]
        /\ k = 1 => Len(trail') = G!TrailLength
        /\ Len(trail') <= G!TrailLength
  <2>1. CASE Len(t) > G!TrailLength
    <3>1. trail' = Tail(t) /\ t # <<>>
      BY <1>1, <2>1 DEF G!Turn
    <3>2. /\ Tail(t) \in Seq(G!Outcomes) /\ Len(Tail(t)) = Len(t) - 1
          /\ \A i \in 1..Len(Tail(t)) : Tail(t)[i] = t[i + 1]
      BY <1>1, <3>1, HeadTailProperties
    <3>3. Len(trail') = Len(t) - 1 /\ Len(trail') = G!TrailLength
      BY <1>1, <2>1, <3>1, <3>2, TrailBound DEF MonitorOK
    <3> QED
      BY <1>1, <3>1, <3>2, <3>3, TrailBound
  <2>2. CASE ~(Len(t) > G!TrailLength)
    <3>1. trail' = t
      BY <2>2 DEF G!Turn
    <3> QED
      BY <1>1, <2>2, <3>1, TrailBound
  <2> QED
    BY <2>1, <2>2
<1> HIDE DEF t
<1>3. Len(trail') \in 1..G!TrailLength /\ trail'[Len(trail')] = daemon
  BY <1>1, <1>2, TrailBound
<1>4. ASSUME NEW S, NEW m \in Nat, NEW n \in Nat, n <= m + 1, n <= G!TrailLength,
             EndsIn(trail, m, S), daemon \in S
      PROVE  EndsIn(trail', n, S)
  <2>1. Len(trail) >= m /\ \A i \in (Len(trail) - m + 1)..Len(trail) : trail[i] \in S
    BY <1>4 DEF EndsIn
  <2>2. Len(trail') >= n
    BY <1>1, <1>2, <1>4, <2>1, TrailBound
  <2>3. ASSUME NEW i \in (Len(trail') - n + 1)..Len(trail') PROVE trail'[i] \in S
    <3>1. i \in 1..Len(trail') /\ trail'[i] = t[i + k]
      BY <1>1, <1>2, <2>2, <1>4
    <3>2. CASE i = Len(trail')
      BY <1>3, <1>4, <3>2
    <3>3. CASE i # Len(trail')
      <4>1. i + k \in (Len(trail) - m + 1)..Len(trail) /\ i + k \in 1..Len(trail)
        BY <1>1, <1>2, <1>4, <2>1, <3>1, <3>3
      <4> QED
        BY <1>1, <2>1, <3>1, <4>1
    <3> QED
      BY <3>2, <3>3
  <2> QED
    BY <2>2, <2>3 DEF EndsIn
<1> QED
  BY <1>2, <1>3, <1>4

LEMMA TurnKeepsGovernorInv ==
  ASSUME GovernorInv, G!Turn
  PROVE  GovernorInv'
<1> DEFINE age == G!Lower(sinceBoot + 1, SettleWindow)
           okAge == G!Aged(sinceOk, DegradedToDown + 1)
           misses == G!Lower(unreachable + 1, UnreachableToDown)
           bad == G!Outcomes \ {"Ok"}
<1>1. /\ MonitorOK /\ StreakIsUnreachable /\ NoneGoodSince
      /\ G!RecordProbe(daemon, age, okAge) /\ sinceBoot' = age /\ UNCHANGED daemon
  BY DEF GovernorInv, G!Turn
<1>2. /\ trail' \in Seq(G!Outcomes) /\ Len(trail') \in 1..G!TrailLength
      /\ trail'[Len(trail')] = daemon
      /\ \A S, m, n : /\ m \in Nat /\ n \in Nat /\ n <= m + 1 /\ n <= G!TrailLength
                      /\ EndsIn(trail, m, S) /\ daemon \in S
                      => EndsIn(trail', n, S)
  BY <1>1, ProbeLengthens
<1>3. \A S : EndsIn(trail', 1, S) <=> daemon \in S
  BY <1>2, TrailBound DEF EndsIn
<1>4. \A S : EndsIn(trail', 0, S)
  BY <1>2, TrailBound DEF EndsIn
<1>5. /\ age \in 0..SettleWindow /\ misses \in 0..UnreachableToDown
      /\ misses <= unreachable + 1
  BY <1>1, GovernorAssumption DEF MonitorOK, G!Lower
<1>6. /\ okAge \in G!Never..(DegradedToDown + 1)
      /\ okAge # G!Never => sinceOk # G!Never /\ sinceOk \in Nat /\ okAge \in Nat
                            /\ okAge <= sinceOk + 1
  <2>1. sinceOk \in G!Never..(DegradedToDown + 1) /\ DegradedToDown + 1 \in Nat
    BY <1>1, GovernorAssumption DEF MonitorOK
  <2> QED
    BY <2>1 DEF G!Aged, G!Lower, G!Never
<1>7. daemon = "Unreachable" => EndsIn(trail', misses, {"Unreachable"})
  <2>1. unreachable \in Nat /\ misses \in Nat /\ misses <= G!TrailLength
    BY <1>1, <1>5, GovernorAssumption, TrailBound DEF MonitorOK
  <2> QED
    BY <1>1, <1>2, <1>5, <2>1 DEF StreakIsUnreachable, G!LastAre, EndsIn
<1>8. daemon # "Ok" /\ okAge # G!Never => EndsIn(trail', okAge, bad)
  <2>1. okAge # G!Never => okAge <= G!TrailLength
    BY <1>6, GovernorAssumption, TrailBound
  <2>2. daemon # "Ok" => daemon \in bad
    BY <1>1 DEF MonitorOK
  <2> QED
    BY <1>1, <1>2, <1>6, <2>1, <2>2 DEF NoneGoodSince, G!LastAre, EndsIn
<1>9. daemon \in {"Ok", "Unhealthy", "Unreachable"} /\ trail' # <<>>
  BY <1>1, <1>2, EmptySeq DEF MonitorOK, G!Outcomes
<1>10. /\ 0 \in G!Never..(DegradedToDown + 1) /\ 0 \in 0..UnreachableToDown /\ 0 # G!Never
       /\ Len(trail') <= G!TrailLength
  BY <1>2, GovernorAssumption, TrailBound DEF G!Never
<1> HIDE DEF age, okAge, misses
<1>11. CASE daemon = "Ok"
  <2>1. /\ verdict' = "Healthy" /\ unreachable' = 0 /\ sinceOk' = 0 /\ proven' = TRUE
        /\ daemon' = "Ok"
    BY <1>1, <1>11 DEF G!RecordProbe
  <2>2. MonitorOK'
    BY <1>1, <1>2, <1>5, <1>10, <2>1 DEF MonitorOK, G!Verdicts
  <2> QED
    BY <1>3, <1>4, <1>9, <1>11, <2>1, <2>2
       DEF GovernorInv, StreakIsUnreachable, NoneGoodSince, G!VerdictMatchesProbes, G!LastAre, EndsIn
<1>12. CASE daemon = "Unhealthy"
  <2>1. /\ verdict' = "Degraded" /\ unreachable' = 0 /\ sinceOk' = okAge
        /\ UNCHANGED <<proven, daemon>>
    BY <1>1, <1>12 DEF G!RecordProbe
  <2>2. MonitorOK'
    BY <1>1, <1>2, <1>5, <1>6, <1>10, <2>1 DEF MonitorOK, G!Verdicts
  <2> QED
    BY <1>3, <1>4, <1>8, <1>9, <1>12, <2>1, <2>2
       DEF GovernorInv, StreakIsUnreachable, NoneGoodSince, G!VerdictMatchesProbes, G!LastAre, EndsIn
<1>13. CASE daemon = "Unreachable"
  <2>1. /\ verdict' = IF G!PromotesToDown(misses, okAge) /\ ~G!InSettleWindow(age)
                      THEN "Down" ELSE "Degraded"
        /\ unreachable' = misses /\ sinceOk' = okAge /\ UNCHANGED <<proven, daemon>>
    BY <1>1, <1>13 DEF G!RecordProbe, misses
  <2>2. MonitorOK'
    BY <1>1, <1>2, <1>5, <1>6, <1>10, <2>1 DEF MonitorOK, G!Verdicts
  <2>3. StreakIsUnreachable' /\ NoneGoodSince'
    BY <1>7, <1>8, <1>13, <2>1 DEF StreakIsUnreachable, NoneGoodSince, G!LastAre, EndsIn
  <2>4. ASSUME verdict' = "Down"
        PROVE  /\ \/ EndsIn(trail', UnreachableToDown, {"Unreachable"})
                  \/ EndsIn(trail', DegradedToDown + 1, bad)
               /\ sinceBoot' < SettleWindow => proven'
    <3>1. G!PromotesToDown(misses, okAge) /\ ~G!InSettleWindow(age)
      BY <2>1, <2>4
    <3>2. CASE misses >= UnreachableToDown
      <4>1. misses = UnreachableToDown
        BY <1>5, <3>2, GovernorAssumption
      <4> QED
        BY <1>1, <1>7, <1>13, <2>1, <3>1, <4>1 DEF G!InSettleWindow
    <3>3. CASE okAge # G!Never /\ okAge > DegradedToDown
      <4>1. okAge = DegradedToDown + 1
        BY <1>6, <3>3, GovernorAssumption
      <4> QED
        BY <1>1, <1>8, <1>13, <2>1, <3>1, <3>3, <4>1 DEF G!InSettleWindow
    <3> QED
      BY <3>1, <3>2, <3>3 DEF G!PromotesToDown
  <2>5. verdict' \in {"Down", "Degraded"}
    BY <2>1
  <2> QED
    BY <1>3, <1>9, <1>13, <2>2, <2>3, <2>4, <2>5 DEF GovernorInv, G!VerdictMatchesProbes, G!LastAre, EndsIn
<1> QED
  BY <1>9, <1>11, <1>12, <1>13

LEMMA StepGovernorInv == GovernorInv /\ [G!Next]_G!vars => GovernorInv'
<1> SUFFICES ASSUME GovernorInv, [G!Next]_G!vars PROVE GovernorInv'
  OBVIOUS
<1>1. CASE G!Turn
  BY <1>1, TurnKeepsGovernorInv
<1>2. CASE G!Relaunch
  <2>1. /\ verdict' = "Unknown" /\ unreachable' = 0 /\ sinceOk' = G!Never
        /\ sinceBoot' = 0 /\ proven' = FALSE /\ trail' = <<>> /\ daemon' = daemon
    BY <1>2 DEF G!Relaunch
  <2>2. Len(trail') = 0 /\ trail' \in Seq(G!Outcomes)
    BY <2>1
  <2>3. /\ unreachable' \in 0..UnreachableToDown /\ sinceBoot' \in 0..SettleWindow
        /\ sinceOk' \in G!Never..(DegradedToDown + 1) /\ Len(trail') <= G!TrailLength
    BY <2>1, <2>2, GovernorAssumption, TrailBound DEF G!Never
  <2>4. MonitorOK'
    BY <2>1, <2>2, <2>3 DEF GovernorInv, MonitorOK, G!Verdicts
  <2> QED
    BY <2>1, <2>2, <2>4 DEF GovernorInv, StreakIsUnreachable, NoneGoodSince,
                            G!VerdictMatchesProbes, G!LastAre
<1>3. ASSUME UNCHANGED G!monitorVars, daemon' \in G!Outcomes PROVE GovernorInv'
  BY <1>3 DEF GovernorInv, MonitorOK, StreakIsUnreachable, NoneGoodSince, G!monitorVars,
              G!VerdictMatchesProbes, G!LastAre
<1>4. ASSUME G!Connect \/ G!Heartbeat \/ G!Unmute \/ G!Quit PROVE GovernorInv'
  <2>1. UNCHANGED <<G!monitorVars, daemon>>
    BY <1>4 DEF G!Connect, G!Heartbeat, G!Unmute, G!Quit, G!monitorVars
  <2> QED
    BY <1>3, <2>1 DEF GovernorInv, MonitorOK
<1>5. ASSUME \/ \E clean \in BOOLEAN : G!StreamEnds(clean)
             \/ \E k \in Kinds : G!RouteEvent(k)
             \/ \E w \in MuteWindows : G!Mute(w)
      PROVE  GovernorInv'
  <2>1. UNCHANGED <<G!monitorVars, daemon>>
    BY <1>5 DEF G!StreamEnds, G!RouteEvent, G!Mute, G!monitorVars
  <2> QED
    BY <1>3, <2>1 DEF GovernorInv, MonitorOK
<1>6. ASSUME NEW d \in G!Outcomes, G!DaemonChanges(d) \/ G!DaemonEnds(d) PROVE GovernorInv'
  BY <1>3, <1>6 DEF G!DaemonChanges, G!DaemonEnds, G!monitorVars
<1>7. CASE UNCHANGED G!vars
  BY <1>3, <1>7 DEF G!vars, G!monitorVars, GovernorInv, MonitorOK
<1> QED
  BY <1>1, <1>2, <1>4, <1>5, <1>6, <1>7 DEF G!Next

\* For all thresholds and windows: StateMachine's counters and clocks give the
\* verdict that the probes themselves call for, in a cold start too.
THEOREM VerdictAlwaysMatches == G!Spec => []G!VerdictMatchesProbes
<1>1. GovernorInv => G!VerdictMatchesProbes
  BY DEF GovernorInv
<1> QED
  BY <1>1, InitGovernorInv, StepGovernorInv, PTL DEF G!Spec
=============================================================================
