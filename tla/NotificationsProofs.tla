------------------------- MODULE NotificationsProofs -------------------------
(***************************************************************************)
(* For every set of targets, links, polls, replies and crashes: a          *)
(* notification is routed at most once, and one that is consumed was acted *)
(* on, is being acted on, or was lost with the daemon.                     *)
(*                                                                         *)
(* Both follow from what a claim hands over: a live notification has never *)
(* been routed and nobody carries it; a consumed one is carried by at most *)
(* one handler, and by none once it was routed.                            *)
(***************************************************************************)
EXTENDS MCOutside, WellFoundedInduction, TLAPS

\* Handler h carries a claimed reply for target t.
Carries(h, t) == job[h].at = "audit" /\ job[h].target = t

\* The shapes the argument needs of the state.
Shapes ==
  /\ DOMAIN target = Targets /\ DOMAIN note = Targets
  /\ DOMAIN routed = Targets /\ DOMAIN job = Handlers
  /\ \A t \in Targets : routed[t] \in Nat

\* A target that has a notification was opened.
AnnouncedExists == \A t \in Targets : note[t] # "none" => target[t].by # "absent"

\* Only a consumed notification is carried or was routed.
LiveIsUntouched ==
  \A t \in Targets : note[t] # "consumed" =>
    routed[t] = 0 /\ \A h \in Handlers : ~Carries(h, t)

\* One carrier at most, and none after the routing.
OneCarrier ==
  \A t \in Targets :
    /\ \A g, h \in Handlers : Carries(g, t) /\ Carries(h, t) => g = h
    /\ routed[t] > 0 => \A h \in Handlers : ~Carries(h, t)

\* The inductive invariant.
IInv ==
  /\ Shapes /\ AnnouncedExists /\ LiveIsUntouched /\ OneCarrier
  /\ OneShot /\ ConsumedIsActedOn

LEMMA InitIInv == Init => IInv
BY DEF Init, IInv, Shapes, AnnouncedExists, LiveIsUntouched, OneCarrier, OneShot,
       ConsumedIsActedOn, Carries, Idle, Unset

\* A step in which nobody takes or drops a reply and no row changes.
LEMMA QuietStep ==
  ASSUME IInv, UNCHANGED <<target, note, routed, lost>>, DOMAIN job' = Handlers,
         \A h \in Handlers : (job'[h].at = "audit" <=> job[h].at = "audit")
                             /\ (job[h].at = "audit" => job'[h] = job[h])
  PROVE  IInv'
<1>1. \A h \in Handlers, t \in Targets : Carries(h, t)' <=> Carries(h, t)
  BY DEF Carries
<1>2. Shapes' /\ AnnouncedExists' /\ OneShot'
  BY DEF IInv, Shapes, AnnouncedExists, OneShot
<1>3. LiveIsUntouched' /\ OneCarrier'
  BY <1>1 DEF IInv, LiveIsUntouched, OneCarrier
<1>4. ConsumedIsActedOn'
  BY DEF IInv, ConsumedIsActedOn, Settled
<1> QED
  BY <1>2, <1>3, <1>4 DEF IInv

\* A handler that carries nothing claims a notification and carries its reply.
LEMMA ClaimStep ==
  ASSUME IInv, NEW w \in Handlers, NEW t, NEW option, Claimable(t), Claim(t),
         job[w].at # "audit",
         job' = [job EXCEPT ![w] = [at |-> "audit", target |-> t, option |-> option]],
         UNCHANGED <<target, routed, lost>>
  PROVE  IInv'
<1>1. \A h \in Handlers, u \in Targets :
        /\ h # w => (Carries(h, u)' <=> Carries(h, u))
        /\ Carries(w, u)' <=> u = t
        /\ ~Carries(w, u)
  BY DEF Carries, IInv, Shapes
<1>2. \A u \in Targets : note'[u] = IF u = t THEN "consumed" ELSE note[u]
  BY DEF Claim, IInv, Shapes
<1>3. t \in Targets => note[t] = "live" /\ routed[t] = 0 /\ \A h \in Handlers : ~Carries(h, t)
  BY DEF Claimable, IInv, LiveIsUntouched
<1>4. Shapes' /\ OneShot'
  BY DEF IInv, Shapes, OneShot, Claim
<1>5. AnnouncedExists'
  BY <1>2, <1>3 DEF IInv, AnnouncedExists
<1>6. LiveIsUntouched'
  BY <1>1, <1>2 DEF IInv, LiveIsUntouched
<1>7. OneCarrier'
  BY <1>1, <1>3 DEF IInv, OneCarrier
<1>8. ConsumedIsActedOn'
  <2> SUFFICES ASSUME NEW u \in Targets, note'[u] = "consumed"
               PROVE  Settled(u)' \/ u \in lost' \/ \E h \in Handlers : Carries(h, u)'
    BY DEF ConsumedIsActedOn, Carries
  <2>1. CASE u = t
    BY <2>1, <1>1
  <2>2. CASE u # t
    <3>1. Settled(u) \/ u \in lost \/ \E h \in Handlers : Carries(h, u)
      BY <2>2, <1>2 DEF IInv, ConsumedIsActedOn, Carries
    <3> QED
      BY <3>1, <1>1 DEF Settled
  <2> QED
    BY <2>1, <2>2
<1> QED
  BY <1>4, <1>5, <1>6, <1>7, <1>8 DEF IInv

\* The carrier hands its reply to the target.
LEMMA RouteStep ==
  ASSUME IInv, NEW w \in Handlers, Route(w)
  PROVE  IInv'
<1> DEFINE t == job[w].target
<1>1. \A h \in Handlers, u \in Targets :
        /\ h # w => (Carries(h, u)' <=> Carries(h, u))
        /\ ~Carries(w, u)'
  BY DEF Carries, IInv, Shapes, Route
<1>2. \A u \in Targets : /\ routed'[u] = IF u = t THEN routed[u] + 1 ELSE routed[u]
                         /\ target'[u] = IF u = t THEN Effect(w) ELSE target[u]
  BY DEF Route, IInv, Shapes
<1>3. t \in Targets => Carries(w, t) /\ routed[t] = 0 /\ note[t] = "consumed"
  BY DEF Carries, Route, IInv, OneCarrier, LiveIsUntouched, Shapes
<1>4. t \in Targets => \A h \in Handlers : Carries(h, t) => h = w
  BY <1>3 DEF IInv, OneCarrier
<1>5. note' = note /\ lost' = lost
  BY DEF Route
<1>6. Shapes' /\ OneShot'
  BY <1>2, <1>3 DEF IInv, Shapes, OneShot, Route
<1>7. t \in Targets => target'[t].by \notin {"absent", "open"}
  <2> SUFFICES ASSUME t \in Targets PROVE target'[t].by \notin {"absent", "open"}
    OBVIOUS
  <2>1. target[t].by # "absent" /\ target'[t] = Effect(w)
    BY <1>2, <1>3 DEF IInv, AnnouncedExists
  <2> QED
    BY <2>1 DEF Effect, SettlesAnyway
<1>8. AnnouncedExists'
  BY <1>2, <1>5, <1>7 DEF IInv, AnnouncedExists, Settled
<1>9. LiveIsUntouched'
  BY <1>1, <1>2, <1>3, <1>5 DEF IInv, LiveIsUntouched
<1>10. OneCarrier'
  BY <1>1, <1>2, <1>4 DEF IInv, OneCarrier
<1>11. ConsumedIsActedOn'
  <2> SUFFICES ASSUME NEW u \in Targets, note[u] = "consumed"
               PROVE  Settled(u)' \/ u \in lost \/ \E h \in Handlers : Carries(h, u)'
    BY <1>5 DEF ConsumedIsActedOn, Carries
  <2>1. CASE u = t
    BY <2>1, <1>7 DEF Settled
  <2>2. CASE u # t
    <3>1. Settled(u) \/ u \in lost \/ \E h \in Handlers : Carries(h, u)
      BY DEF IInv, ConsumedIsActedOn, Carries
    <3>2. \A h \in Handlers : Carries(h, u) => h # w
      BY <2>2 DEF Carries
    <3> QED
      BY <2>2, <3>1, <3>2, <1>1, <1>2 DEF Settled
  <2> QED
    BY <2>1, <2>2
<1> QED
  BY <1>6, <1>8, <1>9, <1>10, <1>11 DEF IInv

\* The daemon stops: what was carried is lost.
LEMMA CrashStep ==
  ASSUME IInv, Crash
  PROVE  IInv'
<1>1. \A h \in Handlers, u \in Targets : ~Carries(h, u)'
  BY DEF Carries, Crash, Idle
<1>2. UNCHANGED <<target, note, routed>> /\ DOMAIN job' = Handlers
  BY DEF Crash, rows
<1>3. Shapes' /\ OneShot' /\ AnnouncedExists'
  BY <1>2 DEF IInv, Shapes, OneShot, AnnouncedExists
<1>4. LiveIsUntouched' /\ OneCarrier'
  BY <1>1, <1>2 DEF IInv, LiveIsUntouched, OneCarrier
<1>5. ConsumedIsActedOn'
  BY <1>2 DEF Crash, IInv, ConsumedIsActedOn, Settled
<1> QED
  BY <1>3, <1>4, <1>5 DEF IInv

\* A target is announced, or settled on another way.
LEMMA TargetStep ==
  ASSUME IInv, NEW t \in Targets, Announce(t) \/ \E o : Elsewhere(t, o)
  PROVE  IInv'
<1>1. \A h \in Handlers, u \in Targets : Carries(h, u)' <=> Carries(h, u)
  BY DEF Announce, Elsewhere, Carries
<1>2. /\ UNCHANGED <<routed, lost, job>>
      /\ \A u \in Targets : u # t => target'[u] = target[u] /\ note'[u] = note[u]
      /\ DOMAIN target' = Targets /\ DOMAIN note' = Targets
  BY DEF Announce, Elsewhere, history, IInv, Shapes
<1>3. /\ note[t] = "consumed" <=> note'[t] = "consumed"
      /\ target'[t].by # "absent"
      /\ note[t] = "consumed" => (Settled(t) => Settled(t)')
  BY DEF Announce, Elsewhere, IInv, Shapes, AnnouncedExists, Unset, Settled
<1>4. Shapes' /\ OneShot'
  BY <1>2 DEF IInv, Shapes, OneShot
<1>5. AnnouncedExists'
  BY <1>2, <1>3 DEF IInv, AnnouncedExists
<1>6. LiveIsUntouched' /\ OneCarrier'
  BY <1>1, <1>2, <1>3 DEF IInv, LiveIsUntouched, OneCarrier
<1>7. ConsumedIsActedOn'
  BY <1>2, <1>3 DEF IInv, ConsumedIsActedOn, Settled
<1> QED
  BY <1>4, <1>5, <1>6, <1>7 DEF IInv

LEMMA StepIInv == IInv /\ [Next]_vars => IInv'
<1> SUFFICES ASSUME IInv, [Next]_vars PROVE IInv'
  OBVIOUS
<1>0. DOMAIN job = Handlers
  BY DEF IInv, Shapes
<1>1. ASSUME NEW t \in Targets, Dispatch(t) \/ Lapse(t) PROVE IInv'
  BY <1>0, <1>1, QuietStep DEF Dispatch, Lapse, rows, history
<1>2. ASSUME NEW t \in Targets, NEW o, Tap(t, o) PROVE IInv'
  BY <1>0, <1>2, QuietStep DEF Tap, rows
<1>3. ASSUME NEW d \in Directives, Direct(d) PROVE IInv'
  BY <1>0, <1>3, QuietStep DEF Direct, rows, history
<1>4. ASSUME NEW t \in Targets, NEW o, NEW w \in Webhooks, Click(w, t, o) PROVE IInv'
  <2>1. /\ job[w].at # "audit" /\ w \in Handlers /\ Claimable(t) /\ Claim(t)
        /\ UNCHANGED <<target, routed, lost>>
    BY <1>4 DEF Click, Idle, Handlers
  <2>2. job' = [job EXCEPT ![w] = [at |-> "audit", target |-> t, option |-> o]]
    BY <1>4 DEF Click
  <2> QED
    BY <2>1, <2>2, ClaimStep
<1>5. ASSUME NEW p \in Polls, PollTick(p) PROVE IInv'
  BY <1>0, <1>5, QuietStep DEF PollTick, rows, Idle, Handlers
<1>6. ASSUME NEW p \in Polls, Fetched(p) \/ FetchFails(p) \/ BatchEnds(p) PROVE IInv'
  BY <1>0, <1>6, QuietStep DEF Fetched, FetchFails, BatchEnds, rows, history, Idle, Handlers
<1>7. ASSUME NEW p \in Polls, Handle(p) PROVE IInv'
  <2>1. job[p].at = "handling" /\ p \in Handlers /\ UNCHANGED <<target, routed, lost>>
    BY <1>7 DEF Handle, Handlers
  <2> PICK u \in batch[p] :
        IF u.target \in Directives
        THEN job' = [job EXCEPT ![p] = [at |-> "telling"]] /\ note' = note
        ELSE IF Claimable(u.target)
        THEN /\ Claim(u.target)
             /\ job' = [job EXCEPT ![p] = [at |-> "audit", target |-> u.target,
                                           option |-> Read(u.target, u.option)]]
        ELSE job' = [job EXCEPT ![p] = [at |-> "telling"]] /\ note' = note
    BY <1>7 DEF Handle
  <2>2. CASE u.target \notin Directives /\ Claimable(u.target)
    <3>1. PICK option : job' = [job EXCEPT ![p] = [at |-> "audit", target |-> u.target,
                                                   option |-> option]]
      BY <2>2
    <3>2. Claim(u.target)
      BY <2>2
    <3> QED
      BY <2>1, <2>2, <3>1, <3>2, ClaimStep
  <2>3. CASE u.target \in Directives \/ ~Claimable(u.target)
    <3>1. note' = note /\ job' = [job EXCEPT ![p] = [at |-> "telling"]]
      BY <2>3
    <3> QED
      BY <1>0, <2>1, <3>1, QuietStep
  <2> QED
    BY <2>2, <2>3
<1>8. ASSUME NEW h \in Handlers, Told(h) PROVE IInv'
  BY <1>0, <1>8, QuietStep DEF Told, rows, history, Idle
<1>9. CASE UNCHANGED vars
  BY <1>0, <1>9, QuietStep DEF vars, rows, history
<1> QED
  BY <1>1, <1>2, <1>3, <1>4, <1>5, <1>6, <1>7, <1>8, <1>9, TargetStep, RouteStep, CrashStep DEF Next

\* markConsumed lets one reply through: whichever devices, overlapping polls and
\* redeliveries bring replies, the router sees a notification at most once.
THEOREM RoutedOnce == Spec => []OneShot
<1>1. IInv => OneShot
  BY DEF IInv
<1> QED
  BY <1>1, InitIInv, StepIInv, PTL DEF Spec

\* "This notification was already acted on" is true unless the daemon stopped
\* between the claim and the routing.
THEOREM ConsumedWasActedOn == Spec => []ConsumedIsActedOn
<1>1. IInv => ConsumedIsActedOn
  BY DEF IInv
<1> QED
  BY <1>1, InitIInv, StepIInv, PTL DEF Spec

-----------------------------------------------------------------------------
(* What is carried is meant by a pressed button, and a directive is         *)
(* published once.                                                          *)
(* The first is inductive for everything Telegram and the polls hold; the   *)
(* second while polls do not overlap, because the offset then separates     *)
(* what was handled from what was not.                                      *)

\* What is known of an update; batches hold updates too.
Genuine(u) ==
  /\ u.id \in Nat /\ u.id < taps
  /\ u.target \notin Directives =>
       /\ u.target \in Targets /\ u.option \in Range(Buttons(u.target))
       /\ <<u.target, u.option>> \in pressed

HeldIsGenuine ==
  /\ \A u \in updates : Genuine(u)
  /\ \A p \in Polls : \A u \in batch[p] : Genuine(u)

\* Updates differ by their ids.
IdsDiffer == \A u, v \in updates : u.id = v.id => u = v

\* A button that was pressed for t may mean this option.
Meant(t, option) ==
  \E o \in Range(Buttons(t)) : <<t, o>> \in pressed /\ MayMean(o, option)

CarriedWasMeant ==
  \A h \in Handlers : job[h].at = "audit" => Meant(job[h].target, job[h].option)

\* The shapes this argument needs.
Counts ==
  /\ taps \in Nat /\ offset \in Nat /\ crashes \in Nat /\ overlapped \in BOOLEAN
  /\ DOMAIN target = Targets /\ DOMAIN job = Handlers /\ DOMAIN batch = Polls
  /\ issued \in [Directives -> Nat]

PressInv == Counts /\ HeldIsGenuine /\ IdsDiffer /\ CarriedWasMeant /\ AnswerWasMeant

\* One poll at a time works on what it fetched, all of it at or past the offset.
OnePoll ==
  /\ \A p, q \in Polls : job[p] # Idle /\ job[q] # Idle => p = q
  /\ \A p \in Polls :
       /\ job[p].at = "fetching" => job[p].asked = offset
       /\ job[p].at \in {"idle", "fetching"} => batch[p] = {}
       /\ batch[p] \subseteq updates /\ \A u \in batch[p] : u.id >= offset

\* A directive is in one update, which the offset is past once it was published.
Published ==
  \A d \in Directives :
    /\ \A u, v \in updates : u.target = d /\ v.target = d => u = v
    /\ issued[d] = 0 \/ (issued[d] = 1 /\ \A u \in updates : u.target = d => u.id < offset)

InTurn == ~overlapped /\ crashes = 0 => OnePoll /\ Published

LEMMA InitPressInv == Init => PressInv /\ InTurn
<1> SUFFICES ASSUME Init PROVE PressInv /\ InTurn
  OBVIOUS
<1>1. Counts
  BY DEF Init, Counts
<1>2. HeldIsGenuine /\ IdsDiffer /\ CarriedWasMeant /\ AnswerWasMeant
  BY DEF Init, HeldIsGenuine, IdsDiffer, CarriedWasMeant, AnswerWasMeant, Settled, Unset, Idle
<1>3. OnePoll
  BY DEF Init, OnePoll, Idle, Handlers
<1>4. Published
  BY DEF Init, Published
<1> QED
  BY <1>1, <1>2, <1>3, <1>4 DEF PressInv, InTurn

\* A nonempty set of numbers has a least one.
LEMMA Least ==
  ASSUME NEW T \in SUBSET Nat, T # {}
  PROVE  \E x \in T : \A y \in T : x <= y
<1> DEFINE Below == OpToRel(<, Nat)
<1>1. IsWellFoundedOn(Below, Nat)
  BY NatLessThanWellFounded
<1>2. \A x, y \in Nat : y < x => <<y, x>> \in Below
  BY DEF OpToRel
<1> HIDE DEF Below
<1>3. PICK x \in T : \A y \in T : ~ (<<y, x>> \in Below)
  BY <1>1, WFMin
<1>4. \A y \in T : ~ (y < x)
  BY <1>2, <1>3
<1> QED
  BY <1>3, <1>4

\* What a button is read as is what it may mean.
LEMMA ReadsWhatIsMeant ==
  ASSUME NEW t \in Targets, NEW o \in Range(Buttons(t))
  PROVE  MayMean(o, Read(t, o))
<1> DEFINE B == Buttons(t)
           Hits == {i \in DOMAIN B : MayMean(o, B[i])}
<1>1. /\ DOMAIN B = 1 .. Len(B) /\ Len(B) \in Nat
      /\ \A i \in DOMAIN B : B[i] \in Range(B)
  <2>1. CASE t \in Scopes
    BY <2>1 DEF Buttons, Range
  <2>2. CASE t \notin Scopes
    BY <2>2, NotificationsAssumption DEF Buttons, Range
  <2> QED
    BY <2>1, <2>2
<1>2. PICK k \in DOMAIN B : B[k] = o
  BY DEF Range
<1>3. \A i \in Hits : MayMean(o, B[i])
  OBVIOUS
<1>4. k \in Hits
  BY <1>2 DEF MayMean
<1> HIDE DEF B
<1>5. PICK n \in Hits : \A m \in Hits : n <= m
  <2>1. Hits \in SUBSET Nat /\ Hits # {}
    BY <1>1, <1>4
  <2> QED
    BY <2>1, Least
<1>6. ASSUME NEW j \in 1 .. n - 1 PROVE ~MayMean(o, B[j])
  <2>1. j \in DOMAIN B /\ j < n
    BY <1>1
  <2>2. j \notin Hits
    BY <1>1, <1>5, <2>1
  <2> QED
    BY <2>1, <2>2
<1>7. \E i \in DOMAIN B : MayMean(o, B[i]) /\ \A j \in 1 .. i - 1 : ~MayMean(o, B[j])
  BY <1>5, <1>6
<1>8. Read(t, o) = B[CHOOSE i \in DOMAIN B :
                       MayMean(o, B[i]) /\ \A j \in 1 .. i - 1 : ~MayMean(o, B[j])]
  BY DEF Read, B
<1> QED
  BY <1>3, <1>7, <1>8

\* No new update: what is held stays genuine.
LEMMA PressFrame ==
  ASSUME PressInv, Counts', pressed \subseteq pressed', taps <= taps',
         updates' \subseteq updates,
         \A p \in Polls : batch'[p] \subseteq updates \cup batch[p],
         CarriedWasMeant', AnswerWasMeant'
  PROVE  PressInv'
<1>1. ASSUME NEW u, Genuine(u) PROVE Genuine(u)'
  BY <1>1 DEF Genuine, PressInv, Counts
<1>2. \A p \in Polls : \A u \in updates \cup batch[p] : Genuine(u)
  BY DEF PressInv, HeldIsGenuine
<1>3. \A u \in updates : Genuine(u)
  BY DEF PressInv, HeldIsGenuine
<1>4. HeldIsGenuine'
  BY <1>1, <1>2, <1>3 DEF HeldIsGenuine
<1>5. IdsDiffer'
  BY DEF PressInv, IdsDiffer
<1> QED
  BY <1>4, <1>5 DEF PressInv

\* Nobody takes a reply or settles a target.
LEMMA CarriedStays ==
  ASSUME PressInv, pressed \subseteq pressed', target' = target,
         \A h \in Handlers : job'[h].at = "audit" => job'[h] = job[h]
  PROVE  CarriedWasMeant' /\ AnswerWasMeant'
BY DEF PressInv, CarriedWasMeant, AnswerWasMeant, Meant, Settled

LEMMA StepPressInv ==
  ASSUME PressInv, Next
  PROVE  PressInv'
<1>0. Counts /\ Polls \subseteq Handlers /\ Webhooks \subseteq Handlers
  BY DEF PressInv, Handlers
<1>1. ASSUME NEW t \in Targets, Announce(t) PROVE PressInv'
  <2>1. Counts' /\ CarriedWasMeant'
    BY <1>0, <1>1 DEF Announce, Counts, PressInv, CarriedWasMeant, Meant, history
  <2>2. AnswerWasMeant'
    BY <1>0, <1>1 DEF Announce, Counts, PressInv, AnswerWasMeant, history, Unset, Settled
  <2> QED
    BY <1>0, <1>1, <2>1, <2>2, PressFrame DEF Announce, Counts, history
<1>2. ASSUME NEW t \in Targets, Dispatch(t) \/ Lapse(t) PROVE PressInv'
  <2>1. UNCHANGED <<target, updates, taps, offset, job, batch, crashes, history>>
    BY <1>2 DEF Dispatch, Lapse, rows
  <2>2. Counts'
    BY <1>0, <2>1 DEF Counts, history
  <2> QED
    BY <1>0, <2>1, <2>2, CarriedStays, PressFrame DEF Counts, history
<1>3. ASSUME NEW t \in Targets, NEW o, Elsewhere(t, o) PROVE PressInv'
  <2>1. UNCHANGED <<updates, taps, offset, job, batch, crashes, history>>
    BY <1>3 DEF Elsewhere
  <2>2. Counts' /\ CarriedWasMeant'
    BY <1>0, <1>3, <2>1 DEF Elsewhere, Counts, history, PressInv, CarriedWasMeant, Meant
  <2>3. AnswerWasMeant'
    BY <1>0, <1>3, <2>1 DEF Elsewhere, Counts, history, PressInv, AnswerWasMeant, Settled
  <2> QED
    BY <1>0, <2>1, <2>2, <2>3, PressFrame DEF Counts, history
<1>4. ASSUME NEW t \in Targets, NEW o, Tap(t, o) PROVE PressInv'
  <2> PICK new : new = [id |-> taps, target |-> t, option |-> o]
    OBVIOUS
  <2>1. Counts' /\ taps' = taps + 1 /\ updates' = updates \cup {new} /\ batch' = batch
        /\ pressed' = pressed \cup {<<t, o>>} /\ o \in Range(Buttons(t))
    BY <1>0, <1>4 DEF Tap, Counts, rows
  <2>2. ASSUME NEW u, Genuine(u) PROVE Genuine(u)'
    BY <1>0, <2>1, <2>2 DEF Genuine, Counts
  <2>3. Genuine(new)'
    BY <1>0, <2>1 DEF Genuine, Counts
  <2>4. HeldIsGenuine'
    <3>1. \A u \in updates : Genuine(u)'
      BY <2>2 DEF PressInv, HeldIsGenuine
    <3>2. \A p \in Polls : \A u \in batch[p] : Genuine(u)'
      BY <2>2 DEF PressInv, HeldIsGenuine
    <3> QED
      BY <2>1, <2>3, <3>1, <3>2 DEF HeldIsGenuine
  <2>5. ASSUME NEW u \in updates PROVE u.id # taps
    <3>1. Genuine(u)
      BY DEF PressInv, HeldIsGenuine
    <3> QED
      BY <1>0, <3>1 DEF Genuine, Counts
  <2>6. IdsDiffer'
    BY <2>1, <2>5 DEF PressInv, IdsDiffer
  <2>7. CarriedWasMeant' /\ AnswerWasMeant'
    BY <1>4, <2>1, CarriedStays DEF Tap, rows
  <2> QED
    BY <2>1, <2>4, <2>6, <2>7 DEF PressInv
<1>5. ASSUME NEW d \in Directives, Direct(d) PROVE PressInv'
  <2> PICK new : new = [id |-> taps, target |-> d]
    OBVIOUS
  <2>1. Counts' /\ taps' = taps + 1 /\ updates' = updates \cup {new} /\ batch' = batch
        /\ pressed' = pressed
    BY <1>0, <1>5 DEF Direct, Counts, rows, history
  <2>2. ASSUME NEW u, Genuine(u) PROVE Genuine(u)'
    BY <1>0, <2>1, <2>2 DEF Genuine, Counts
  <2>3. Genuine(new)'
    BY <1>0, <2>1 DEF Genuine, Counts
  <2>4. HeldIsGenuine'
    <3>1. \A u \in updates : Genuine(u)'
      BY <2>2 DEF PressInv, HeldIsGenuine
    <3>2. \A p \in Polls : \A u \in batch[p] : Genuine(u)'
      BY <2>2 DEF PressInv, HeldIsGenuine
    <3> QED
      BY <2>1, <2>3, <3>1, <3>2 DEF HeldIsGenuine
  <2>5. ASSUME NEW u \in updates PROVE u.id # taps
    <3>1. Genuine(u)
      BY DEF PressInv, HeldIsGenuine
    <3> QED
      BY <1>0, <3>1 DEF Genuine, Counts
  <2>6. IdsDiffer'
    BY <2>1, <2>5 DEF PressInv, IdsDiffer
  <2>7. CarriedWasMeant' /\ AnswerWasMeant'
    BY <1>5, <2>1, CarriedStays DEF Direct, rows
  <2> QED
    BY <2>1, <2>4, <2>6, <2>7 DEF PressInv
<1>6. ASSUME NEW t \in Targets, NEW o, NEW w \in Webhooks, Click(w, t, o) PROVE PressInv'
  <2>1. Counts' /\ taps <= taps' /\ UNCHANGED <<target, updates, batch>>
        /\ pressed' = pressed \cup {<<t, o>>}
    BY <1>0, <1>6 DEF Click, Counts
  <2>2. CarriedWasMeant'
    <3> SUFFICES ASSUME NEW h \in Handlers, job'[h].at = "audit"
                 PROVE  Meant(job[h].target, job[h].option)'
      BY DEF CarriedWasMeant
    <3>1. CASE h # w
      BY <1>0, <1>6, <2>1, <3>1 DEF Click, Counts, PressInv, CarriedWasMeant, Meant
    <3>2. CASE h = w
      <4>1. job'[h] = [at |-> "audit", target |-> t, option |-> o] /\ o \in Range(Buttons(t))
        BY <1>0, <1>6, <3>2 DEF Click, Counts
      <4> QED
        BY <2>1, <4>1 DEF Meant, MayMean
    <3> QED
      BY <3>1, <3>2
  <2>3. AnswerWasMeant'
    BY <2>1 DEF PressInv, AnswerWasMeant, Settled
  <2> QED
    BY <2>1, <2>2, <2>3, PressFrame
<1>7. ASSUME NEW p \in Polls, PollTick(p) PROVE PressInv'
  <2>1. overlapped' \in BOOLEAN
    BY <1>0, <1>7 DEF PollTick, Counts
  <2>2. Counts'
    BY <1>0, <1>7, <2>1 DEF PollTick, Counts, rows
  <2>3. CarriedWasMeant' /\ AnswerWasMeant'
    BY <1>0, <1>7, CarriedStays DEF PollTick, Counts, rows
  <2> QED
    BY <1>0, <1>7, <2>2, <2>3, PressFrame DEF PollTick, Counts
<1>8. ASSUME NEW p \in Polls, Fetched(p) PROVE PressInv'
  <2>1. Counts' /\ CarriedWasMeant' /\ AnswerWasMeant'
    BY <1>0, <1>8, CarriedStays DEF Fetched, Counts, rows, history
  <2>2. updates' \subseteq updates /\ \A q \in Polls : batch'[q] \subseteq updates \cup batch[q]
    BY <1>0, <1>8 DEF Fetched, Counts
  <2> QED
    BY <1>0, <1>8, <2>1, <2>2, PressFrame DEF Fetched, Counts, history
<1>9. ASSUME NEW p \in Polls, FetchFails(p) \/ BatchEnds(p) PROVE PressInv'
  <2>1. /\ UNCHANGED <<target, updates, taps, offset, batch, crashes, history>>
        /\ job' = [job EXCEPT ![p] = Idle]
    BY <1>9 DEF FetchFails, BatchEnds, rows
  <2>2. Counts'
    BY <1>0, <2>1 DEF Counts, history
  <2>3. CarriedWasMeant' /\ AnswerWasMeant'
    BY <1>0, <2>1, CarriedStays DEF Counts, history, Idle
  <2> QED
    BY <1>0, <2>1, <2>2, <2>3, PressFrame DEF Counts, history
<1>10. ASSUME NEW p \in Polls, Handle(p) PROVE PressInv'
  <2>1. PICK u \in batch[p] :
          /\ batch' = [batch EXCEPT ![p] = @ \ {u}]
          /\ offset' = OffsetPast(u.id)
          /\ IF u.target \in Directives
             THEN /\ issued' = [issued EXCEPT ![u.target] = @ + 1]
                  /\ job' = [job EXCEPT ![p] = [at |-> "telling"]]
             ELSE /\ \/ job' = [job EXCEPT ![p] = [at |-> "telling"]]
                     \/ job' = [job EXCEPT ![p] = [at |-> "audit", target |-> u.target,
                                                   option |-> Read(u.target, u.option)]]
                  /\ UNCHANGED issued
    BY <1>10 DEF Handle
  <2>2. UNCHANGED <<target, updates, taps, crashes, pressed, overlapped>>
    BY <1>10 DEF Handle
  <2>3. Genuine(u)
    BY DEF PressInv, HeldIsGenuine
  <2>4. Counts'
    <3>1. offset' \in Nat
      BY <1>0, <2>1, <2>3 DEF OffsetPast, Genuine, Counts
    <3>2. issued' \in [Directives -> Nat] /\ DOMAIN job' = Handlers /\ DOMAIN batch' = Polls
      BY <1>0, <2>1 DEF Counts
    <3> QED
      BY <1>0, <2>2, <3>1, <3>2 DEF Counts
  <2>5. CarriedWasMeant'
    <3> SUFFICES ASSUME NEW h \in Handlers, job'[h].at = "audit"
                 PROVE  Meant(job'[h].target, job'[h].option)
      BY <2>2 DEF CarriedWasMeant, Meant
    <3>1. CASE h # p
      BY <1>0, <2>1, <3>1 DEF Counts, PressInv, CarriedWasMeant
    <3>2. CASE h = p
      <4>1. /\ u.target \notin Directives
            /\ job'[h] = [at |-> "audit", target |-> u.target, option |-> Read(u.target, u.option)]
        BY <1>0, <2>1, <3>2 DEF Counts
      <4>2. u.target \in Targets /\ u.option \in Range(Buttons(u.target))
            /\ <<u.target, u.option>> \in pressed
        BY <2>3, <4>1 DEF Genuine
      <4>3. MayMean(u.option, Read(u.target, u.option))
        BY <4>2, ReadsWhatIsMeant
      <4> QED
        BY <4>1, <4>2, <4>3 DEF Meant
    <3> QED
      BY <3>1, <3>2
  <2>6. AnswerWasMeant'
    BY <2>2 DEF PressInv, AnswerWasMeant, Settled
  <2>7. \A q \in Polls : batch'[q] \subseteq updates \cup batch[q]
    BY <1>0, <2>1 DEF Counts
  <2> QED
    BY <1>0, <2>2, <2>4, <2>5, <2>6, <2>7, PressFrame DEF Counts
<1>11. ASSUME NEW h \in Handlers, Route(h) PROVE PressInv'
  <2>1. /\ UNCHANGED <<updates, taps, offset, batch, crashes, pressed, issued, overlapped>>
        /\ target' = [target EXCEPT ![job[h].target] = Effect(h)]
        /\ job' = [job EXCEPT ![h] = [at |-> "telling"]] /\ job[h].at = "audit"
    BY <1>11 DEF Route
  <2>2. Counts' /\ CarriedWasMeant'
    BY <1>0, <2>1 DEF Counts, PressInv, CarriedWasMeant, Meant
  <2>3. AnswerWasMeant'
    <3> SUFFICES ASSUME NEW t \in Targets, Settled(t)', target'[t].by = "reply"
                 PROVE  Meant(t, target'[t].option)
      BY <2>1 DEF AnswerWasMeant, Meant
    <3>1. CASE target'[t] = target[t]
      BY <3>1 DEF PressInv, AnswerWasMeant, Meant, Settled
    <3>2. CASE target'[t] # target[t]
      <4>1. t = job[h].target /\ target'[t] = [option |-> job[h].option, by |-> "reply"]
        BY <1>0, <2>1, <3>2 DEF Counts, Effect, SettlesAnyway
      <4>2. Meant(job[h].target, job[h].option)
        BY <2>1 DEF PressInv, CarriedWasMeant
      <4> QED
        BY <4>1, <4>2
    <3> QED
      BY <3>1, <3>2
  <2> QED
    BY <1>0, <2>1, <2>2, <2>3, PressFrame DEF Counts
<1>12. ASSUME NEW h \in Handlers, Told(h) PROVE PressInv'
  <2>1. Counts' /\ CarriedWasMeant' /\ AnswerWasMeant'
    BY <1>0, <1>12, CarriedStays DEF Told, Counts, rows, history, Idle
  <2> QED
    BY <1>0, <1>12, <2>1, PressFrame DEF Told, Counts, history
<1>13. ASSUME Crash PROVE PressInv'
  <2>1. Counts' /\ CarriedWasMeant' /\ AnswerWasMeant'
    BY <1>0, <1>13, CarriedStays DEF Crash, Counts, rows, Idle
  <2>2. UNCHANGED <<updates, taps, pressed>> /\ \A p \in Polls : batch'[p] = {}
    BY <1>13 DEF Crash
  <2> QED
    BY <1>0, <2>1, <2>2, PressFrame DEF Counts
<1> QED
  BY <1>1, <1>2, <1>3, <1>4, <1>5, <1>6, <1>7, <1>8, <1>9, <1>10, <1>11, <1>12, <1>13 DEF Next
\* The polls and directives are not disturbed.
LEMMA InTurnFrame ==
  ASSUME InTurn, UNCHANGED <<updates, offset, batch, crashes, issued, overlapped>>,
         \A p \in Polls : /\ job'[p] = Idle => job[p] = Idle
                          /\ job'[p].at \in {"idle", "fetching"} => job'[p] = job[p]
                          /\ job[p] = Idle => job'[p] = Idle
  PROVE  InTurn'
<1> SUFFICES ASSUME ~overlapped, crashes = 0, OnePoll, Published PROVE OnePoll' /\ Published'
  BY DEF InTurn
<1>1. Published'
  BY DEF Published
<1>2. \A p, q \in Polls : job'[p] # Idle /\ job'[q] # Idle => p = q
  BY DEF OnePoll
<1>3. OnePoll'
  BY <1>2 DEF OnePoll
<1> QED
  BY <1>1, <1>3

\* A new update, a directive at most once, changes nothing of what is under way.
LEMMA InTurnNew ==
  ASSUME PressInv, InTurn, NEW u, updates' = updates \cup {u}, u.id = taps,
         UNCHANGED <<offset, batch, job, crashes, issued, overlapped>>,
         u.target \in Directives =>
           issued[u.target] = 0 /\ \A v \in updates : v.target # u.target
  PROVE  InTurn'
<1> SUFFICES ASSUME ~overlapped, crashes = 0, OnePoll, Published PROVE OnePoll' /\ Published'
  BY DEF InTurn
<1>1. OnePoll'
  BY DEF OnePoll
<1>2. ASSUME NEW d \in Directives
      PROVE  /\ \A v, w \in updates' : v.target = d /\ w.target = d => v = w
             /\ issued[d] = 0 \/ (issued[d] = 1 /\ \A v \in updates' : v.target = d => v.id < offset)
  BY DEF Published
<1>3. Published'
  BY <1>2 DEF Published
<1> QED
  BY <1>1, <1>3

LEMMA StepInTurn ==
  ASSUME PressInv, InTurn, Next
  PROVE  InTurn'
<1>0. Counts /\ Polls \subseteq Handlers /\ Webhooks \subseteq Handlers
      /\ \A w \in Webhooks : w \notin Polls
  BY NotificationsAssumption DEF PressInv, Handlers
<1>1. ASSUME NEW t \in Targets, Announce(t) \/ Dispatch(t) \/ Lapse(t) \/ \E o : Elsewhere(t, o)
      PROVE  InTurn'
  BY <1>1, InTurnFrame DEF Announce, Dispatch, Lapse, Elsewhere, history
<1>2. ASSUME NEW t \in Targets, NEW o, Tap(t, o) PROVE InTurn'
  <2> PICK new : new = [id |-> taps, target |-> t, option |-> o]
    OBVIOUS
  <2>1. updates' = updates \cup {new} /\ new.id = taps /\ new.target \notin Directives
        /\ UNCHANGED <<offset, batch, job, crashes, issued, overlapped>>
    BY <1>2, NotificationsAssumption DEF Tap
  <2> QED
    BY <2>1, InTurnNew
<1>3. ASSUME NEW d \in Directives, Direct(d) PROVE InTurn'
  <2> PICK new : new = [id |-> taps, target |-> d]
    OBVIOUS
  <2>1. updates' = updates \cup {new} /\ new.id = taps /\ new.target = d
        /\ issued[d] = 0 /\ (\A v \in updates : v.target # d)
        /\ UNCHANGED <<offset, batch, job, crashes, issued, overlapped>>
    BY <1>3 DEF Direct, history
  <2> QED
    BY <2>1, InTurnNew
<1>4. ASSUME NEW t \in Targets, NEW o, NEW w \in Webhooks, Click(w, t, o) PROVE InTurn'
  <2>1. \A p \in Polls : job'[p] = job[p]
    BY <1>0, <1>4 DEF Click, Counts
  <2> QED
    BY <1>4, <2>1, InTurnFrame DEF Click
<1>5. ASSUME NEW p \in Polls, PollTick(p) PROVE InTurn'
  <2>1. /\ UNCHANGED <<updates, offset, batch, crashes, issued>>
        /\ job' = [job EXCEPT ![p] = [at |-> "fetching", asked |-> offset]] /\ job[p] = Idle
    BY <1>5 DEF PollTick
  <2>2. overlapped' = (overlapped \/ \E q \in Polls \ {p} : job[q] # Idle)
    BY <1>5 DEF PollTick
  <2> SUFFICES ASSUME ~overlapped', crashes' = 0 PROVE OnePoll' /\ Published'
    BY DEF InTurn
  <2>3. ~overlapped /\ \A q \in Polls \ {p} : job[q] = Idle
    BY <2>2
  <2>4. OnePoll /\ Published
    BY <2>1, <2>3 DEF InTurn
  <2>5. \A q \in Polls : job'[q] = IF q = p THEN [at |-> "fetching", asked |-> offset] ELSE Idle
    BY <1>0, <2>1, <2>3 DEF Counts
  <2>6. \A q \in Polls : batch[q] = {}
    BY <2>1, <2>3, <2>4 DEF OnePoll, Idle
  <2>7. OnePoll'
    BY <2>1, <2>5, <2>6 DEF OnePoll, Idle
  <2> QED
    BY <2>1, <2>4, <2>7 DEF Published
<1>6. ASSUME NEW p \in Polls, Fetched(p) PROVE InTurn'
  <2>1. /\ UNCHANGED <<offset, crashes, issued, overlapped>>
        /\ updates' = {u \in updates : u.id >= job[p].asked}
        /\ batch' = [batch EXCEPT ![p] = updates'] /\ job[p].at = "fetching"
        /\ job' = [job EXCEPT ![p] = [at |-> "handling"]]
    BY <1>6 DEF Fetched, history
  <2> SUFFICES ASSUME ~overlapped, crashes = 0, OnePoll, Published PROVE OnePoll' /\ Published'
    BY <2>1 DEF InTurn
  <2>2. job[p].asked = offset /\ job[p] # Idle
    BY <2>1 DEF OnePoll, Idle
  <2>3. \A q \in Polls : q # p => job[q] = Idle /\ batch[q] = {}
    BY <2>2 DEF OnePoll, Idle
  <2>4. \A q \in Polls : /\ job'[q] = IF q = p THEN [at |-> "handling"] ELSE Idle
                         /\ batch'[q] = IF q = p THEN updates' ELSE {}
    BY <1>0, <2>1, <2>3 DEF Counts
  <2>5. OnePoll'
    <3>1. offset' = offset /\ \A u \in updates' : u.id >= offset
      BY <2>1, <2>2
    <3>2. \A q \in Polls : batch'[q] \subseteq updates' /\ \A u \in batch'[q] : u.id >= offset'
      BY <2>4, <3>1
    <3> QED
      BY <2>4, <3>2 DEF OnePoll, Idle
  <2>6. Published'
    BY <2>1 DEF Published
  <2> QED
    BY <2>5, <2>6
<1>7. ASSUME NEW p \in Polls, FetchFails(p) \/ BatchEnds(p) PROVE InTurn'
  <2>1. /\ UNCHANGED <<updates, offset, batch, crashes, issued, overlapped>>
        /\ job' = [job EXCEPT ![p] = Idle] /\ job[p] # Idle
        /\ job[p].at = "fetching" \/ batch[p] = {}
    BY <1>7 DEF FetchFails, BatchEnds, history, Idle
  <2> SUFFICES ASSUME ~overlapped, crashes = 0, OnePoll, Published PROVE OnePoll' /\ Published'
    BY <2>1 DEF InTurn
  <2>2. batch[p] = {} /\ \A q \in Polls : q # p => job[q] = Idle /\ batch[q] = {}
    BY <2>1 DEF OnePoll, Idle
  <2>3. \A q \in Polls : job'[q] = Idle /\ batch'[q] = {}
    BY <1>0, <2>1, <2>2 DEF Counts
  <2>4. OnePoll'
    BY <2>3 DEF OnePoll, Idle
  <2> QED
    BY <2>1, <2>4 DEF Published
<1>8. ASSUME NEW p \in Polls, Handle(p) PROVE InTurn'
  <2>1. job[p].at = "handling" /\ UNCHANGED <<updates, crashes, overlapped>>
    BY <1>8 DEF Handle
  <2>2. PICK u \in batch[p] :
          /\ \A v \in batch[p] : u.id <= v.id
          /\ batch' = [batch EXCEPT ![p] = @ \ {u}]
          /\ offset' = OffsetPast(u.id)
          /\ IF u.target \in Directives
             THEN /\ issued' = [issued EXCEPT ![u.target] = @ + 1]
                  /\ job' = [job EXCEPT ![p] = [at |-> "telling"]]
             ELSE /\ \/ job' = [job EXCEPT ![p] = [at |-> "telling"]]
                     \/ job' = [job EXCEPT ![p] = [at |-> "audit", target |-> u.target,
                                                   option |-> Read(u.target, u.option)]]
                  /\ UNCHANGED issued
    BY <1>8 DEF Handle
  <2> SUFFICES ASSUME ~overlapped, crashes = 0, OnePoll, Published PROVE OnePoll' /\ Published'
    BY <2>1 DEF InTurn
  <2>3. job[p] # Idle /\ \A q \in Polls : q # p => job[q] = Idle /\ batch[q] = {}
    BY <2>1 DEF OnePoll, Idle
  <2>4. u \in updates /\ u.id >= offset /\ offset' = u.id + 1
    <3>1. u \in updates /\ u.id >= offset
      BY DEF OnePoll
    <3>2. Genuine(u)
      BY <3>1 DEF PressInv, HeldIsGenuine
    <3> QED
      BY <1>0, <2>2, <3>1, <3>2 DEF OffsetPast, Genuine, Counts
  <2>5. \A v \in updates : v.id \in Nat
    <3>1. \A v \in updates : Genuine(v)
      BY DEF PressInv, HeldIsGenuine
    <3> QED
      BY <3>1 DEF Genuine
  <2>6. \A q \in Polls : /\ q # p => job'[q] = Idle /\ batch'[q] = {}
                         /\ q = p => job'[q].at \in {"telling", "audit"} /\ batch'[q] = batch[p] \ {u}
    BY <1>0, <2>2, <2>3 DEF Counts
  <2>7. OnePoll'
    <3>1. ASSUME NEW v \in batch[p] \ {u} PROVE v \in updates /\ v.id >= offset'
      <4>1. v \in updates /\ u.id <= v.id /\ v # u
        BY <2>2 DEF OnePoll
      <4>2. v.id # u.id
        BY <2>4, <4>1 DEF PressInv, IdsDiffer
      <4> QED
        BY <2>4, <2>5, <4>1, <4>2
    <3>2. \A q \in Polls : batch'[q] \subseteq updates /\ \A v \in batch'[q] : v.id >= offset'
      BY <2>6, <3>1
    <3> QED
      BY <2>1, <2>6, <3>2 DEF OnePoll, Idle
  <2>8. ASSUME NEW d \in Directives
        PROVE  issued'[d] = 0 \/ (issued'[d] = 1 /\ \A v \in updates : v.target = d => v.id < offset')
    <3>1. CASE d = u.target
      <4>1. \A v \in updates : v.target = d => v = u
        BY <2>4, <3>1 DEF Published
      <4>2. ~(u.id < offset)
        BY <1>0, <2>4, <2>5 DEF Counts
      <4>3. issued[d] = 0
        BY <2>4, <3>1, <4>2 DEF Published
      <4>4. issued'[d] = 1
        BY <1>0, <2>2, <3>1, <4>3 DEF Counts
      <4> QED
        BY <2>4, <2>5, <4>1, <4>4
    <3>2. CASE d # u.target
      <4>1. issued'[d] = issued[d]
        BY <1>0, <2>2, <3>2 DEF Counts
      <4> QED
        BY <1>0, <2>4, <2>5, <4>1 DEF Published, Counts
    <3> QED
      BY <3>1, <3>2
  <2>9. Published'
    BY <2>1, <2>8 DEF Published
  <2> QED
    BY <2>7, <2>9
<1>9. ASSUME NEW h \in Handlers, Route(h) PROVE InTurn'
  <2>1. \A p \in Polls : job'[p] = job[p] \/ (job[p].at = "audit" /\ job'[p].at = "telling")
    BY <1>0, <1>9 DEF Route, Counts
  <2> QED
    BY <1>9, <2>1, InTurnFrame DEF Route, Idle
<1>10. ASSUME NEW h \in Handlers, Told(h) PROVE InTurn'
  <2>1. \A p \in Polls : job'[p] = job[p] \/ (job[p].at = "telling" /\ job'[p].at = "handling")
    BY <1>0, <1>10 DEF Told, Counts
  <2> QED
    BY <1>10, <2>1, InTurnFrame DEF Told, Idle, history
<1>11. ASSUME Crash PROVE InTurn'
  BY <1>0, <1>11 DEF Crash, Counts, InTurn
<1> QED
  BY <1>1, <1>2, <1>3, <1>4, <1>5, <1>6, <1>7, <1>8, <1>9, <1>10, <1>11 DEF Next

\* Claiming a notification counts: a consumed one was acted on, an answer that
\* came by reply is one a pressed button may mean, and while polls take turns and
\* the daemon stays up a directive is published once.
THEOREM RepliesAlwaysCount == Spec => []RepliesCount
<1> DEFINE Inv == IInv /\ PressInv /\ InTurn
<1>1. Init => Inv
  BY InitIInv, InitPressInv
<1>2. Inv /\ [Next]_vars => Inv'
  <2> SUFFICES ASSUME Inv, [Next]_vars PROVE Inv'
    OBVIOUS
  <2>1. CASE Next
    BY <2>1, StepIInv, StepPressInv, StepInTurn
  <2>2. CASE UNCHANGED vars
    <3>1. PressInv'
      BY <2>2 DEF vars, rows, history, PressInv, Counts, HeldIsGenuine, Genuine, IdsDiffer,
                  CarriedWasMeant, AnswerWasMeant, Meant, Settled
    <3>2. InTurn'
      BY <2>2 DEF vars, history, InTurn, OnePoll, Published
    <3> QED
      BY <2>2, <3>1, <3>2, StepIInv
  <2> QED
    BY <2>1, <2>2
<1>3. Inv => RepliesCount
  <2> SUFFICES ASSUME Inv PROVE RepliesCount
    OBVIOUS
  <2>1. DirectiveOnce
    BY DEF DirectiveOnce, InTurn, Published
  <2> QED
    BY <2>1 DEF RepliesCount, IInv, PressInv
<1> QED
  BY <1>1, <1>2, <1>3, PTL DEF Spec

-----------------------------------------------------------------------------
(* The federation peers.  The invariant is what TrustFollowsYaml says of   *)
(* one record (Right) next to the types; every handler's change keeps it.  *)

Posts == P!BoundedSeq({"up", "down"}, MaxMail)

LEMMA PostsAreShort ==
  ASSUME NEW box
  PROVE  box \in Posts <=> box \in Seq({"up", "down"}) /\ Len(box) <= MaxMail
<1>1. ASSUME box \in Posts PROVE box \in Seq({"up", "down"}) /\ Len(box) <= MaxMail
  <2>1. PICK n \in 0..MaxMail : box \in [1..n -> {"up", "down"}]
    BY <1>1 DEF Posts, P!BoundedSeq, P!SeqOf
  <2>2. n \in Nat /\ n <= MaxMail
    BY PeersAssumption
  <2> QED
    BY <2>1, <2>2
<1>2. ASSUME box \in Seq({"up", "down"}), Len(box) <= MaxMail PROVE box \in Posts
  <2>1. Len(box) \in 0..MaxMail /\ box \in [1..Len(box) -> {"up", "down"}]
    BY <1>2, PeersAssumption
  <2> QED
    BY <2>1 DEF Posts, P!BoundedSeq, P!SeqOf
<1> QED
  BY <1>1, <1>2

LEMMA PostsType ==
  /\ <<>> \in Posts
  /\ \A box \in Posts :
       /\ box # <<>> => Tail(box) \in Posts
       /\ \A m \in {"up", "down"} : Len(box) < MaxMail => Append(box, m) \in Posts
<1>1. <<>> \in Posts
  <2>1. <<>> \in [1..0 -> {"up", "down"}] /\ 0 \in 0..MaxMail
    BY PeersAssumption
  <2> QED
    BY <2>1 DEF Posts, P!BoundedSeq, P!SeqOf
<1>2. ASSUME NEW box \in Posts, box # <<>> PROVE Tail(box) \in Posts
  <2>1. box \in Seq({"up", "down"}) /\ Len(box) <= MaxMail
    BY PostsAreShort
  <2>2. Tail(box) \in Seq({"up", "down"}) /\ Len(Tail(box)) <= MaxMail
    BY <1>2, <2>1, PeersAssumption
  <2> QED
    BY <2>2, PostsAreShort
<1>3. ASSUME NEW box \in Posts, NEW m \in {"up", "down"}, Len(box) < MaxMail
      PROVE  Append(box, m) \in Posts
  <2>1. box \in Seq({"up", "down"}) /\ Len(box) <= MaxMail
    BY PostsAreShort
  <2>2. Append(box, m) \in Seq({"up", "down"}) /\ Len(Append(box, m)) <= MaxMail
    BY <1>3, <2>1, PeersAssumption
  <2> QED
    BY <2>2, PostsAreShort
<1> QED
  BY <1>1, <1>2, <1>3

Record == [state : P!States, trust : Levels, configured : BOOLEAN, discovered : BOOLEAN]

\* A record in the table is not the unknown peer's.
LEMMA RecordIsKnown == \A r \in Record : r # P!Unknown
BY DEF Record, P!Unknown, P!States

\* What a record should say of a peer peers.yaml gives trust y.
Right(r, y) ==
  /\ r \in {P!Unknown} \cup Record
  /\ r.configured <=> y # "absent"
  /\ r.trust = IF y = "absent" THEN "untrusted" ELSE y
  /\ r # P!Unknown => r.configured \/ r.discovered

\* Each of the handlers' changes of a record leaves it right, and tells whether the
\* peer is known after it.
LEMMA RecordsStayRight ==
  ASSUME NEW r, NEW y \in Levels \cup {"absent"}, Right(r, y)
  PROVE  /\ \A z \in Levels \cup {"absent"} :
              /\ Right(P!Reloaded(r, z), z)
              /\ P!Reloaded(r, z) # P!Unknown <=>
                   z # "absent" \/ (r # P!Unknown /\ ~(r.configured /\ ~r.discovered))
         /\ Right(P!Discovered(r), y) /\ P!Discovered(r) # P!Unknown
         /\ r # P!Unknown =>
              /\ \A s \in P!States : LET q == [r EXCEPT !.state = s]
                                     IN Right(q, y) /\ q # P!Unknown
              /\ IF r.configured
                 THEN LET q == [r EXCEPT !.state = "offline", !.discovered = FALSE]
                      IN Right(q, y) /\ q # P!Unknown
                 ELSE Right(P!Unknown, y)
<1> USE PeersAssumption DEF Right, Record, P!States, P!Unknown
<1>1. ASSUME NEW z \in Levels \cup {"absent"}
      PROVE  /\ Right(P!Reloaded(r, z), z)
             /\ P!Reloaded(r, z) # P!Unknown <=>
                  z # "absent" \/ (r # P!Unknown /\ ~(r.configured /\ ~r.discovered))
  <2>1. CASE r = P!Unknown
    BY <2>1 DEF P!Reloaded, P!Configured, P!Demoted, P!Fresh
  <2>2. CASE r # P!Unknown
    <3>1. r \in Record
      BY <2>2
    <3>2. CASE z # "absent"
      BY <2>2, <3>1, <3>2 DEF P!Reloaded, P!Configured
    <3>3. CASE z = "absent" /\ r.configured
      BY <2>2, <3>1, <3>3 DEF P!Reloaded, P!Demoted
    <3>4. CASE z = "absent" /\ ~r.configured
      BY <2>2, <3>1, <3>4 DEF P!Reloaded
    <3> QED
      BY <3>2, <3>3, <3>4
  <2> QED
    BY <2>1, <2>2
<1>2. Right(P!Discovered(r), y) /\ P!Discovered(r) # P!Unknown
  BY DEF P!Discovered
<1>3. ASSUME r # P!Unknown, NEW s \in P!States
      PROVE  Right([r EXCEPT !.state = s], y) /\ [r EXCEPT !.state = s] # P!Unknown
  <2>1. r \in Record
    BY <1>3
  <2> QED
    BY <1>3, <2>1
<1>4. ASSUME r # P!Unknown, r.configured
      PROVE  LET q == [r EXCEPT !.state = "offline", !.discovered = FALSE]
             IN Right(q, y) /\ q # P!Unknown
  <2>1. r \in Record
    BY <1>4
  <2> QED
    BY <1>4, <2>1
<1>5. ASSUME r # P!Unknown, ~r.configured PROVE Right(P!Unknown, y)
  BY <1>5
<1> QED
  BY <1>1, <1>2, <1>3, <1>4, <1>5

\* The inductive invariant of the peers: types and TrustFollowsYaml, peer by peer.
PeersInv ==
  /\ yaml \in [Peers -> Levels \cup {"absent"}]
  /\ record \in [Peers -> {P!Unknown} \cup Record]
  /\ joined = {p \in Peers : record[p] # P!Unknown}
  /\ up \subseteq Peers
  /\ mail \in [Peers -> Posts]
  /\ probe \in [Peers -> SUBSET {"asked", "ok", "no"}]
  /\ \A p \in Peers : Right(record[p], yaml[p])

LEMMA PeersInvSays == PeersInv => P!TypeOK /\ P!TrustFollowsYaml
BY DEF PeersInv, P!TypeOK, P!TrustFollowsYaml, P!Known, Right, Record, Posts

LEMMA PeersBegin == P!Init => PeersInv
<1> SUFFICES ASSUME P!Init PROVE PeersInv
  OBVIOUS
<1>1. ASSUME NEW p \in Peers
      PROVE  /\ Right(record[p], yaml[p])
             /\ record[p] # P!Unknown <=> yaml[p] # "absent"
  <2>1. yaml[p] \in Levels \cup {"absent"}
    BY DEF P!Init
  <2> QED
    BY <2>1, PeersAssumption
       DEF P!Init, Right, Record, P!Unknown, P!Fresh, P!States
<1>2. record \in [Peers -> {P!Unknown} \cup Record]
  BY <1>1 DEF P!Init, Right
<1>3. mail \in [Peers -> Posts]
  BY PostsType DEF P!Init
<1> QED
  BY <1>1, <1>2, <1>3 DEF PeersInv, P!Init

\* A handler sets one record and the reporter follows.
LEMMA ChangedStep ==
  ASSUME PeersInv, NEW p \in Peers, NEW q, P!Changed(p, q), Right(q, yaml[p]), q # P!Unknown,
         UNCHANGED <<yaml, up>>, mail' \in [Peers -> Posts],
         probe' \in [Peers -> SUBSET {"asked", "ok", "no"}]
  PROVE  PeersInv'
<1>1. q \in {P!Unknown} \cup Record
  BY DEF Right
<1> QED
  BY <1>1 DEF PeersInv, P!Changed, Right

LEMMA RemovedStep ==
  ASSUME PeersInv, NEW p \in Peers, P!Removed(p), Right(P!Unknown, yaml[p]),
         UNCHANGED <<yaml, up>>, mail' \in [Peers -> Posts],
         probe' \in [Peers -> SUBSET {"asked", "ok", "no"}]
  PROVE  PeersInv'
BY DEF PeersInv, P!Removed, Right

\* No record is touched.
LEMMA UntouchedStep ==
  ASSUME PeersInv, UNCHANGED <<yaml, record, joined>>, up' \subseteq Peers,
         mail' \in [Peers -> Posts], probe' \in [Peers -> SUBSET {"asked", "ok", "no"}]
  PROVE  PeersInv'
BY DEF PeersInv, Right

LEMMA ReloadStep ==
  ASSUME PeersInv, NEW y \in [Peers -> Levels \cup {"absent"}], P!Reload(y)
  PROVE  PeersInv'
<1>1. ASSUME NEW p \in Peers
      PROVE  /\ Right(record'[p], y[p])
             /\ record'[p] # P!Unknown <=>
                  \/ y[p] # "absent"
                  \/ p \in joined /\ ~(record[p].configured /\ ~record[p].discovered)
  <2>1. y[p] \in Levels \cup {"absent"} /\ yaml[p] \in Levels \cup {"absent"}
        /\ Right(record[p], yaml[p]) /\ (p \in joined <=> record[p] # P!Unknown)
    BY DEF PeersInv
  <2>2. record'[p] = P!Reloaded(record[p], y[p])
    BY DEF P!Reload
  <2> HIDE DEF P!Reloaded
  <2> QED
    BY <2>1, <2>2, RecordsStayRight
<1>2. record' \in [Peers -> {P!Unknown} \cup Record]
  BY <1>1 DEF P!Reload, Right
<1>3. joined' = {p \in Peers : record'[p] # P!Unknown}
  BY <1>1 DEF P!Reload
<1> QED
  BY <1>1, <1>2, <1>3 DEF PeersInv, P!Reload, Right

LEMMA DiscoveryStep ==
  ASSUME PeersInv, NEW p \in Peers, P!UpsertDiscovered(p) \/ P!MarkLost(p)
  PROVE  PeersInv'
<1>1. mail' \in [Peers -> Posts] /\ probe' \in [Peers -> SUBSET {"asked", "ok", "no"}]
      /\ UNCHANGED <<yaml, up>> /\ up' \subseteq Peers
  <2>1. mail[p] \in Posts /\ mail[p] # <<>> /\ mail' = [mail EXCEPT ![p] = Tail(mail[p])]
    BY DEF PeersInv, P!UpsertDiscovered, P!MarkLost
  <2>2. Tail(mail[p]) \in Posts
    BY <2>1, PostsType
  <2> QED
    BY <2>1, <2>2 DEF PeersInv, P!UpsertDiscovered, P!MarkLost
<1>2. yaml[p] \in Levels \cup {"absent"} /\ Right(record[p], yaml[p])
  BY DEF PeersInv
<1>3. CASE UNCHANGED <<record, joined>>
  BY <1>1, <1>3, UntouchedStep
<1>4. CASE P!UpsertDiscovered(p) /\ P!Changed(p, P!Discovered(record[p]))
  BY <1>1, <1>2, <1>4, RecordsStayRight, ChangedStep
<1>5. CASE /\ record[p] # P!Unknown /\ record[p].configured
           /\ P!Changed(p, [record[p] EXCEPT !.state = "offline", !.discovered = FALSE])
  BY <1>1, <1>2, <1>5, RecordsStayRight, ChangedStep
<1>6. CASE record[p] # P!Unknown /\ ~record[p].configured /\ P!Removed(p)
  BY <1>1, <1>2, <1>6, RecordsStayRight, RemovedStep
<1> QED
  BY <1>3, <1>4, <1>5, <1>6 DEF P!UpsertDiscovered, P!MarkLost, P!Known

LEMMA AnswerStep ==
  ASSUME PeersInv, NEW p \in Peers, NEW answer \in {"ok", "no"}, P!RecordPingResult(p, answer)
  PROVE  PeersInv'
<1>1. mail' \in [Peers -> Posts] /\ probe' \in [Peers -> SUBSET {"asked", "ok", "no"}]
      /\ UNCHANGED <<yaml, up>> /\ up' \subseteq Peers
  BY DEF PeersInv, P!RecordPingResult
<1>2. yaml[p] \in Levels \cup {"absent"} /\ Right(record[p], yaml[p])
  BY DEF PeersInv
<1>3. CASE UNCHANGED <<record, joined>>
  BY <1>1, <1>3, UntouchedStep
<1>4. ASSUME NEW s \in P!States, record[p] # P!Unknown,
             P!Changed(p, [record[p] EXCEPT !.state = s])
      PROVE  PeersInv'
  BY <1>1, <1>2, <1>4, RecordsStayRight, ChangedStep
<1>5. record[p] # P!Unknown => P!AfterFailure(record[p].state) \in P!States
  BY <1>2 DEF Right, Record, P!AfterFailure, P!States
<1>6. "online" \in P!States
  BY DEF P!States
<1> QED
  BY <1>3, <1>4, <1>5, <1>6 DEF P!RecordPingResult, P!Known

LEMMA OutsideStep ==
  ASSUME PeersInv,
         \/ P!PingNow
         \/ \E p \in Peers : P!Health(p) \/ P!Comes(p) \/ P!Goes(p)
  PROVE  PeersInv'
<1>1. UNCHANGED <<yaml, record, joined>>
  BY DEF P!PingNow, P!Health, P!Comes, P!Goes
<1>2. up' \subseteq Peers
  BY DEF PeersInv, P!PingNow, P!Health, P!Comes, P!Goes
<1>3. mail' \in [Peers -> Posts]
  <2>1. ASSUME NEW p \in Peers, NEW m \in {"up", "down"}, P!Mails(p, m)
        PROVE  mail' \in [Peers -> Posts]
    <3>1. mail \in [Peers -> Posts] /\ mail[p] \in Posts
      BY DEF PeersInv
    <3>2. CASE Len(mail[p]) < MaxMail /\ mail' = [mail EXCEPT ![p] = Append(mail[p], m)]
      <4>1. Append(mail[p], m) \in Posts
        BY <3>1, <3>2, PostsType
      <4> QED
        BY <3>1, <3>2, <4>1
    <3> QED
      BY <2>1, <3>1, <3>2 DEF P!Mails
  <2> QED
    BY <2>1 DEF PeersInv, P!PingNow, P!Health, P!Comes, P!Goes
<1>4. probe' \in [Peers -> SUBSET {"asked", "ok", "no"}]
  BY DEF PeersInv, P!PingNow, P!Health, P!Comes, P!Goes
<1> QED
  BY <1>1, <1>2, <1>3, <1>4, UntouchedStep

LEMMA PeersStep == PeersInv /\ P!Next => PeersInv'
BY ReloadStep, DiscoveryStep, AnswerStep, OutsideStep DEF P!Next

LEMMA PeersRest == PeersInv /\ UNCHANGED peers => PeersInv'
BY DEF PeersInv, peers, Right

\* However reloads, discoveries, losses and late answers alternate, for any peers and
\* trust levels: trust is what peers.yaml says now and nothing else, a peer is listed
\* only for a reason, and exactly the listed ones are published as joined (registry.ts,
\* reporter.ts).  This is the safety half of PeersAsTheyAre.
THEOREM TrustAlwaysFollowsYaml == EitherSpec => [](P!TypeOK /\ P!TrustFollowsYaml)
<1>1. EitherInit => PeersInv
  BY PeersBegin DEF EitherInit
<1>2. PeersInv /\ [EitherNext]_all => PeersInv'
  BY PeersStep, PeersRest DEF EitherNext, Replies, Peering, all
<1> QED
  BY <1>1, <1>2, PeersInvSays, PTL DEF EitherSpec
=============================================================================
