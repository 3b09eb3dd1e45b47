---------------------------- MODULE PeerRegistry ----------------------------
(***************************************************************************)
(* Federation peers as one daemon sees them (src/federation): peers.yaml,  *)
(* which alone gives trust, mDNS announcements that arrive late or never,  *)
(* and a ping pass every minute whose answers arrive whenever they do, are *)
(* merged into one record per peer; a reporter publishes who joined and    *)
(* who left.  The peers and multicast are external.                        *)
(***************************************************************************)
EXTENDS Naturals, Sequences, SequencesExt

CONSTANTS
  Peers,
  Levels,      \* trust levels peers.yaml may give, "untrusted" among them
  MaxMail      \* bound: announcements of a peer under way

VARIABLES
  yaml,      \* per peer: the trust peers.yaml gives it, or "absent"
  record,    \* the registry's records
  joined,    \* the reporter's: peers it has published peer_joined of
  up,        \* peers that answer at one of their addresses
  mail,      \* per peer: mDNS "up"s and "down"s not yet seen
  probe      \* per peer: health requests, "asked" or answered "ok" or "no"

vars == <<yaml, record, joined, up, mail, probe>>

States == {"offline", "online", "degraded"}
Unknown == [state |-> "unknown", trust |-> "untrusted", configured |-> FALSE, discovered |-> FALSE]
Known(p) == record[p] # Unknown

\* Type invariant.
TypeOK ==
  /\ yaml \in [Peers -> Levels \cup {"absent"}]
  /\ record \in [Peers -> {Unknown} \cup [state : States, trust : Levels,
                                          configured : BOOLEAN, discovered : BOOLEAN]]
  /\ joined \subseteq Peers
  /\ up \subseteq Peers
  /\ mail \in [Peers -> BoundedSeq({"up", "down"}, MaxMail)]
  /\ probe \in [Peers -> SUBSET {"asked", "ok", "no"}]

Fresh(trust) == [state |-> "offline", trust |-> trust, configured |-> TRUE, discovered |-> FALSE]

\* start: the reporter listens before peers.yaml is loaded.
Init ==
  /\ yaml \in [Peers -> Levels \cup {"absent"}]
  /\ record = [p \in Peers |-> IF yaml[p] = "absent" THEN Unknown ELSE Fresh(yaml[p])]
  /\ joined = {p \in Peers : yaml[p] # "absent"}
  /\ up \in SUBSET Peers
  /\ mail = [p \in Peers |-> <<>>]
  /\ probe = [p \in Peers |-> {}]

\* The records a handler leaves, and what the reporter makes of its 'changed'
\* and 'removed' events.
Changed(p, r) == record' = [record EXCEPT ![p] = r] /\ joined' = joined \cup {p}
Removed(p) == record' = [record EXCEPT ![p] = Unknown] /\ joined' = joined \ {p}

-----------------------------------------------------------------------------
(* peers.yaml is read again.                                               *)

Demoted(r) ==
  IF r.discovered THEN [r EXCEPT !.configured = FALSE, !.trust = "untrusted"] ELSE Unknown

Configured(r, trust) ==
  IF r = Unknown THEN Fresh(trust) ELSE [r EXCEPT !.trust = trust, !.configured = TRUE]

Reloaded(r, trust) ==
  IF trust # "absent" THEN Configured(r, trust)
  ELSE IF r.configured THEN Demoted(r) ELSE r

Reload(y) ==
  /\ yaml' = y
  /\ record' = [p \in Peers |-> Reloaded(record[p], y[p])]
  /\ joined' = {p \in Peers : \/ y[p] # "absent"
                              \/ p \in joined /\ ~(record[p].configured /\ ~record[p].discovered)}
  /\ UNCHANGED <<up, mail, probe>>

-----------------------------------------------------------------------------
(* mDNS, in the order a peer announces itself.                             *)

Discovered(r) ==
  IF r = Unknown THEN [Unknown EXCEPT !.state = "online", !.discovered = TRUE]
  ELSE [r EXCEPT !.state = "online", !.discovered = TRUE]

\* The browser reports a service-up, unless it lists the service already.
UpsertDiscovered(p) ==
  /\ mail[p] # <<>> /\ Head(mail[p]) = "up"
  /\ mail' = [mail EXCEPT ![p] = Tail(@)]
  /\ \/ Changed(p, Discovered(record[p]))
     \/ UNCHANGED <<record, joined>>
  /\ UNCHANGED <<yaml, up, probe>>

\* A service-down: a configured peer stays visible, another one falls out.
MarkLost(p) ==
  /\ mail[p] # <<>> /\ Head(mail[p]) = "down"
  /\ mail' = [mail EXCEPT ![p] = Tail(@)]
  /\ IF ~Known(p) THEN UNCHANGED <<record, joined>>
     ELSE IF record[p].configured
       THEN Changed(p, [record[p] EXCEPT !.state = "offline", !.discovered = FALSE])
       ELSE Removed(p)
  /\ UNCHANGED <<yaml, up, probe>>

-----------------------------------------------------------------------------
(* The ping pass.                                                          *)

PingNow ==
  /\ \E p \in Peers : Known(p)
  /\ probe' = [p \in Peers |-> probe[p] \cup IF Known(p) THEN {"asked"} ELSE {}]
  /\ UNCHANGED <<yaml, record, joined, up, mail>>

\* health walks a peer's addresses and its host name until one answers.
Health(p) ==
  /\ "asked" \in probe[p]
  /\ probe' = [probe EXCEPT ![p] = (@ \ {"asked"}) \cup {IF p \in up THEN "ok" ELSE "no"}]
  /\ UNCHANGED <<yaml, record, joined, up, mail>>

\* AfterFailure that gives an online peer the benefit of the doubt.
KeepsOnline(state) == state
AfterFailure(state) == IF state = "online" THEN "degraded" ELSE state

\* recordPingResult: by id, whatever became of the record meanwhile.
RecordPingResult(p, answer) ==
  /\ answer \in probe[p] \ {"asked"}
  /\ probe' = [probe EXCEPT ![p] = @ \ {answer}]
  /\ IF ~Known(p) THEN UNCHANGED <<record, joined>>
     ELSE IF answer = "ok" THEN Changed(p, [record[p] EXCEPT !.state = "online"])
     ELSE IF AfterFailure(record[p].state) = record[p].state THEN UNCHANGED <<record, joined>>
     ELSE Changed(p, [record[p] EXCEPT !.state = AfterFailure(@)])
  /\ UNCHANGED <<yaml, up, mail>>

-----------------------------------------------------------------------------
(* A peer comes and goes, announced or not.                                *)

Mails(p, m) ==
  \/ UNCHANGED mail
  \/ Len(mail[p]) < MaxMail /\ mail' = [mail EXCEPT ![p] = Append(@, m)]

Comes(p) ==
  /\ p \notin up /\ up' = up \cup {p}
  /\ Mails(p, "up")
  /\ UNCHANGED <<yaml, record, joined, probe>>

Goes(p) ==
  /\ p \in up /\ up' = up \ {p}
  /\ Mails(p, "down")
  /\ UNCHANGED <<yaml, record, joined, probe>>

-----------------------------------------------------------------------------
Next ==
  \/ \E y \in [Peers -> Levels \cup {"absent"}] : Reload(y)
  \/ PingNow
  \/ \E p \in Peers : UpsertDiscovered(p) \/ MarkLost(p) \/ Health(p) \/ Comes(p) \/ Goes(p)
  \/ \E p \in Peers, answer \in {"ok", "no"} : RecordPingResult(p, answer)

\* The ping timer fires, requests are answered or time out, mail arrives.
Fairness ==
  /\ WF_vars(PingNow)
  /\ \A p \in Peers :
       /\ WF_vars(UpsertDiscovered(p)) /\ WF_vars(MarkLost(p)) /\ WF_vars(Health(p))
       /\ \A answer \in {"ok", "no"} : WF_vars(RecordPingResult(p, answer))

Spec == Init /\ [][Next]_vars /\ Fairness

-----------------------------------------------------------------------------
\* However reloads, discoveries and losses alternate, trust is what peers.yaml
\* says now and nothing else, a peer is listed only for a reason, and the peers
\* published as joined are the ones listed.
TrustFollowsYaml ==
  /\ joined = {p \in Peers : Known(p)}
  /\ \A p \in Peers :
       /\ record[p].configured <=> yaml[p] # "absent"
       /\ record[p].trust = IF yaml[p] = "absent" THEN "untrusted" ELSE yaml[p]
       /\ Known(p) => record[p].configured \/ record[p].discovered

\* A listed peer that stays reachable ends up online, one that stays away does
\* not stay online, whatever answers and announcements were still under way.
StateFollowsPeer ==
  \A p \in Peers :
    /\ <>[](p \in up /\ Known(p)) => <>[](record[p].state = "online")
    /\ <>[](p \notin up) => <>[](record[p].state # "online")
=============================================================================
