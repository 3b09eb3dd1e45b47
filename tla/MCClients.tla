------------------------------ MODULE MCClients ------------------------------
(***************************************************************************)
(* Three clients of the daemon, side by side: the stdio shim, the          *)
(* Governor, and the MCP clients that seek the Steward role.  They share   *)
(* no state, so a behaviour runs one of them and leaves the others in      *)
(* their initial state.                                                    *)
(***************************************************************************)
EXTENDS Shim

CONSTANTS
  Clients, Tokens, Calls,
  UnreachableToDown, DegradedToDown, SettleWindow, Ladder, Stability, Kinds,
  DebounceWindow, MuteWindows, Staleness, MaxChanges

\* One missed probe is the least that can mean Down; windows are lengths of time.
ASSUME GovernorAssumption ==
  /\ UnreachableToDown \in Nat \ {0}
  /\ DegradedToDown \in Nat /\ SettleWindow \in Nat

TwoRungs == <<1, 2>>

VARIABLES part,
  daemon, running, verdict, unreachable, sinceOk, sinceBoot, proven, bridge,
  failures, bridgeClock, sinceToast, muted, beat, trail, changes,
  session, token, call

G == INSTANCE Governor
R == INSTANCE StewardRole

governor == <<daemon, running, verdict, unreachable, sinceOk, sinceBoot, proven, bridge,
              failures, bridgeClock, sinceToast, muted, beat, trail, changes>>
steward == <<session, token, call>>
all == <<part, vars, governor, steward>>

EitherInit ==
  /\ part \in {"governor", "shim", "steward"}
  /\ Init /\ (part # "shim" => sse = CHOOSE t \in Transports : TRUE)
  /\ G!Init /\ (part # "governor" => daemon = "Ok")
  /\ R!Init

Relays(A) == part = "shim" /\ A /\ UNCHANGED <<part, governor, steward>>
Governs(A) == part = "governor" /\ A /\ UNCHANGED <<part, vars, steward>>
Seeks(A) == part = "steward" /\ A /\ UNCHANGED <<part, vars, governor>>

EitherNext == Relays(Next) \/ Governs(G!Next) \/ Seeks(R!Next)

\* The fairness of the part that runs.
EitherSpec ==
  /\ EitherInit /\ [][EitherNext]_all
  /\ WF_all(Governs(G!Turn)) /\ WF_all(Governs(G!Connect)) /\ WF_all(Governs(G!EndIsRead))
  /\ WF_all(Relays(Tick)) /\ WF_all(Relays(Fire))
  /\ \A t \in Transports :
       /\ WF_all(Relays(StartSettles(t))) /\ WF_all(Relays(Reconnected(t)))
       /\ WF_all(Relays(CurrentFails(t)))

\* The verdict the operator sees is the one record_probe means the probes to give: a
\* daemon that stays away is reported Down, one that stays well Healthy, and the
\* events of one that stays well reach the Governor again.
GovernorSeesTruth == part = "governor" => []G!VerdictMatchesProbes /\ G!SeesTheTruth

\* One Steward at a time, and a token opens one session.
RoleGivenOnce == R!RoleGivenOnce
=============================================================================
