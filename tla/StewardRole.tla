---------------------------- MODULE StewardRole ----------------------------
(***************************************************************************)
(* The Steward role (src/steward): one MCP client at a time holds it.      *)
(* A client claims it with a one-shot token the operator minted, releases  *)
(* it, or takes it over with another token; each of the three waits for    *)
(* the operator's approval (unless a trust scope covers it) between the    *)
(* handler's first look at the store and the store operation itself.  The  *)
(* store operations are synchronous: one step each.                        *)
(***************************************************************************)
EXTENDS Naturals, Sequences

CONSTANTS
  Clients, Tokens,
  Calls           \* bound: tool calls at a time

VARIABLES
  session,   \* the stewards table: [client, token, ended], oldest first
  token,     \* per token: "unminted", "fresh", "expired" or "redeemed"
  call       \* per tool call: its progress, arguments and answer

vars == <<session, token, call>>

Unset == "unset"     \* SQL NULL, an argument that is not given
CallKinds == {"claim", "release", "transfer"}
Over == {"idle", "ok", "failed", "refused"}
Row == [client : Clients, token : Tokens, ended : Clients \cup {Unset, "transferred"}]
Blank == [at |-> "idle", kind |-> Unset, client |-> Unset, token |-> Unset]

Init ==
  /\ session = <<>>
  /\ token = [t \in Tokens |-> "unminted"]
  /\ call = [c \in Calls |-> Blank]

ActiveSessions == {i \in DOMAIN session : session[i].ended = Unset}
\* getActiveSteward: the newest one that was not released.
Active == CHOOSE i \in ActiveSessions : \A j \in ActiveSessions : j <= i

-----------------------------------------------------------------------------
MintToken(t) ==
  /\ token[t] = "unminted"
  /\ token' = [token EXCEPT ![t] = "fresh"]
  /\ UNCHANGED <<session, call>>

TokenExpires(t) ==
  /\ token[t] = "fresh"
  /\ token' = [token EXCEPT ![t] = "expired"]
  /\ UNCHANGED <<session, call>>

\* A handler starts.  A release looks first whether the client is the active
\* Steward; a claim and a transfer ask straight away.
MaySeek(k, m) ==
  k = "release" => ActiveSessions # {} /\ session[Active].client = m

Begin(c, k, m, t) ==
  /\ call[c].at \in Over
  /\ (k = "release") = (t = Unset)
  /\ MaySeek(k, m)
  /\ call' = [call EXCEPT ![c] = [at |-> "asked", kind |-> k, client |-> m, token |-> t]]
  /\ UNCHANGED <<session, token>>

\* The operator approves, or a covering scope did; the handler resumes later.
Approved(c) ==
  /\ call[c].at = "asked"
  /\ call' = [call EXCEPT ![c].at = "approved"]
  /\ UNCHANGED <<session, token>>

\* The operator rejects, or the decision's deadline passes.
Refused(c) ==
  /\ call[c].at = "asked"
  /\ call' = [call EXCEPT ![c].at = "refused"]
  /\ UNCHANGED <<session, token>>

-----------------------------------------------------------------------------
(* performAction: the store reads afresh, and writes in one transaction.    *)

Opened(m, t) == [client |-> m, token |-> t, ended |-> Unset]
AnyToken(t) == token[t] # "unminted"
Redeemable(t) == token[t] = "fresh"
Vacant == ActiveSessions = {}

Claimed(c) ==
  /\ call[c].kind = "claim" /\ Redeemable(call[c].token) /\ Vacant
  /\ session' = Append(session, Opened(call[c].client, call[c].token))
  /\ token' = [token EXCEPT ![call[c].token] = "redeemed"]

\* The transaction ends the active session and opens the new one.
HandsOver(m, t) ==
  Append([session EXCEPT ![Active].ended = "transferred"], Opened(m, t))

Transferred(c) ==
  /\ call[c].kind = "transfer" /\ ActiveSessions # {} /\ Redeemable(call[c].token)
  /\ session' = HandsOver(call[c].client, call[c].token)
  /\ token' = [token EXCEPT ![call[c].token] = "redeemed"]

\* release ends whichever session is active by now.
Released(c) ==
  /\ call[c].kind = "release" /\ ActiveSessions # {}
  /\ session' = [session EXCEPT ![Active].ended = call[c].client]
  /\ UNCHANGED token

Perform(c) ==
  /\ call[c].at = "approved"
  /\ Claimed(c) \/ Transferred(c) \/ Released(c)
  /\ call' = [call EXCEPT ![c].at = "performed"]

\* The store throws, before it wrote anything.
CannotPerform(c) ==
  \/ call[c].kind # "release" /\ ~Redeemable(call[c].token)
  \/ call[c].kind = "claim" /\ ~Vacant
  \/ call[c].kind # "claim" /\ ActiveSessions = {}

Fail(c) ==
  /\ call[c].at = "approved" /\ CannotPerform(c)
  /\ call' = [call EXCEPT ![c].at = "failed"]
  /\ UNCHANGED <<session, token>>

\* The memory directory is made after the transaction; when that throws the
\* client hears of a failure although it holds the role.
DirectoryFails(c) ==
  /\ call[c].at = "performed" /\ call[c].kind # "release"
  /\ call' = [call EXCEPT ![c].at = "failed"]
  /\ UNCHANGED <<session, token>>

\* The success event is published and the client told.
Return(c) ==
  /\ call[c].at = "performed"
  /\ call' = [call EXCEPT ![c].at = "ok"]
  /\ UNCHANGED <<session, token>>

Next ==
  \/ \E t \in Tokens : MintToken(t) \/ TokenExpires(t)
  \/ \E c \in Calls, k \in CallKinds, m \in Clients, t \in Tokens \cup {Unset} : Begin(c, k, m, t)
  \/ \E c \in Calls : \/ Approved(c) \/ Refused(c) \/ Perform(c) \/ Fail(c)
                      \/ DirectoryFails(c) \/ Return(c)

Spec == Init /\ [][Next]_vars

-----------------------------------------------------------------------------
\* Type correctness.
TypeOK ==
  /\ session \in Seq(Row)
  /\ token \in [Tokens -> {"unminted", "fresh", "expired", "redeemed"}]
  /\ call \in [Calls -> [at : Over \cup {"asked", "approved", "performed"},
                         kind : CallKinds \cup {Unset}, client : Clients \cup {Unset},
                         token : Tokens \cup {Unset}]]

\* One Steward at a time, although claims and transfers that were approved long
\* after they looked run in any order.
OneSteward == \A i, j \in ActiveSessions : i = j

\* A token opens one session, whoever holds it and however many calls wait with it.
TokenOnce ==
  \A i, j \in DOMAIN session : session[i].token = session[j].token => i = j

\* The role is given once: to one client at a time, by a token that is then spent.
RoleGivenOnce == OneSteward /\ TokenOnce

\* "The releasing client must be the active Steward."
OwnRelease ==
  \A i \in DOMAIN session : session[i].ended \in {Unset, "transferred", session[i].client}
=============================================================================
