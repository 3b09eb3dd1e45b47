------------------------------ MODULE MCOutside ------------------------------
(***************************************************************************)
(* Small instances of two components that follow what happens outside the  *)
(* daemon, side by side: replies to notifications and federation peers.    *)
(* They share no state, so a behaviour runs one of them and leaves the     *)
(* other in one initial state.                                             *)
(***************************************************************************)
EXTENDS Notifications

VARIABLES part, yaml, record, joined, up, mail, probe

CONSTANTS Peers, Levels, MaxMail    \* of PeerRegistry

\* A peer no peers.yaml names is untrusted, and "absent" is no trust level.
ASSUME PeersAssumption ==
  "untrusted" \in Levels /\ "absent" \notin Levels /\ MaxMail \in Nat

P == INSTANCE PeerRegistry

\* Two buttons of which the second begins the first: "decision:ok" is kept whole and
\* begins "decision:okay", of which "decision:oka" is kept and begins only itself.
TwoButtons == <<"okay", "ok">>
BeginAlike == {<<"okay", "okay">>, <<"ok", "ok">>, <<"ok", "okay">>}

peers == <<yaml, record, joined, up, mail, probe>>
all == <<part, vars, peers>>

EitherInit ==
  /\ part \in {"replies", "peers"}
  /\ Init
  /\ P!Init /\ (part # "peers" => up = {} /\ yaml = [p \in Peers |-> "absent"])

Replies(A) == part = "replies" /\ A /\ UNCHANGED <<part, peers>>
Peering(A) == part = "peers" /\ A /\ UNCHANGED <<part, vars>>

EitherNext == Replies(Next) \/ Peering(P!Next)

\* The fairness of the part that runs.
EitherSpec ==
  /\ EitherInit /\ [][EitherNext]_all
  /\ \A p \in Polls :
       /\ WF_all(Replies(PollTick(p))) /\ SF_all(Replies(Fetched(p)))
       /\ WF_all(Replies(NextOfBatch(p)))
  /\ \A h \in Handlers : WF_all(Replies(Route(h))) /\ WF_all(Replies(Told(h)))
  /\ WF_all(Peering(P!PingNow))
  /\ \A p \in Peers :
       /\ WF_all(Peering(P!UpsertDiscovered(p))) /\ WF_all(Peering(P!MarkLost(p)))
       /\ WF_all(Peering(P!Health(p)))
       /\ \A answer \in {"ok", "no"} : WF_all(Peering(P!RecordPingResult(p, answer)))

\* Trust is what peers.yaml says, who was published as joined is listed, and a
\* listed peer's state ends up telling whether it can be reached.
PeersAsTheyAre ==
  part = "peers" => [](P!TypeOK /\ P!TrustFollowsYaml) /\ P!StateFollowsPeer
=============================================================================
