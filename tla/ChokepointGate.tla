--------------------------- MODULE ChokepointGate ---------------------------
(***************************************************************************)
(* The gate every MCP tool call passes (src/security/decision-gate.ts):    *)
(* the no-go list, the operator's capability switch, and the caller's tier *)
(* for the tool, which may ask the operator to confirm.  The layers are    *)
(* read in one synchronous stretch; the handler starts when the operator   *)
(* approves, up to half an hour later, and nothing is read again.          *)
(*                                                                         *)
(* A tool stands for a tool with its arguments.  The decision itself is    *)
(* module Decisions; here it ends approved, rejected, or by its deadline,  *)
(* which rejects.                                                          *)
(***************************************************************************)
EXTENDS Naturals

CONSTANTS
  Tools, Actors,
  Calls,              \* bound: calls at a time
  NoGo,               \* the tools the no-go list matches
  OperatorShaped,     \* the actors whose tier falls back to the tool's default
  DefaultTier,        \* [Tools -> Tiers]: defaultTierFor
  Rows                \* bound: the tiers the operator sets in the matrix

Tiers == {"AUTO", "CONFIRM", "EXPLICIT", "NO_GO"}
Disabled == {"permanent", "temporary"}

VARIABLES
  switch,     \* capability_overrides, per tool
  matrix,     \* actor_permissions: the row of an actor and a tool, or "none"
  present,    \* a passkey assertion is within its window
  call        \* per call: its progress, tool and actor

vars == <<switch, matrix, present, call>>

Blank == [at |-> "idle", tool |-> "none", actor |-> "none"]

Init ==
  /\ switch = [t \in Tools |-> "enabled"]
  /\ matrix = [a \in Actors |-> [t \in Tools |-> "none"]]
  /\ present = FALSE
  /\ call = [c \in Calls |-> Blank]

-----------------------------------------------------------------------------
(* The operator's settings.                                                 *)

Set(t, s) ==
  /\ switch[t] # s
  /\ switch' = [switch EXCEPT ![t] = s]
  /\ UNCHANGED <<matrix, present, call>>

Disable(t) == \E s \in Disabled : Set(t, s)
Enable(t) == Set(t, "enabled")

\* check() lets a call through once disabled_until passed; the row stays.
DisableExpires(t) == switch[t] = "temporary" /\ Set(t, "expired")

\* set, or reset to the default.
SetTier(a, t, tier) ==
  /\ matrix[a][t] # tier
  /\ matrix' = [matrix EXCEPT ![a][t] = tier]
  /\ UNCHANGED <<switch, present, call>>

\* recordAssertion; it expires a minute later.
Present(now) ==
  /\ present # now
  /\ present' = now
  /\ UNCHANGED <<switch, matrix, call>>

-----------------------------------------------------------------------------
(* check.                                                                   *)

\* resolve: the matrix row, the tool's default, or default deny.
Resolve(a, t) ==
  CASE matrix[a][t] # "none" -> matrix[a][t]
    [] matrix[a][t] = "none" /\ a \in OperatorShaped -> DefaultTier[t]
    [] OTHER -> "NO_GO"

\* The no-go list, the switch, the tier, and for EXPLICIT the passkey.
Barred(a, t) ==
  \/ t \in NoGo
  \/ switch[t] \in Disabled
  \/ Resolve(a, t) = "NO_GO"
  \/ Resolve(a, t) = "EXPLICIT" /\ ~present

Passes(a, t) == IF Barred(a, t) THEN "denied"
                ELSE IF Resolve(a, t) = "AUTO" THEN "started" ELSE "asking"

Check(c, a, t) ==
  /\ call[c].at = "idle"
  /\ call' = [call EXCEPT ![c] = [at |-> Passes(a, t), tool |-> t, actor |-> a]]
  /\ UNCHANGED <<switch, matrix, present>>

Answer(c, at) ==
  /\ call[c].at = "asking"
  /\ call' = [call EXCEPT ![c].at = at]
  /\ UNCHANGED <<switch, matrix, present>>

Approve(c) == Answer(c, "approved")
Reject(c) == Answer(c, "denied")

\* A mutation of Deadline: the wait has no time-out.
NoDeadline(c) == FALSE /\ Answer(c, "denied")
\* awaitDecisionResponse runs out: the default, reject, is recorded.
Deadline(c) == Answer(c, "denied")

\* runChokepointDecision returns allowed: the handler runs.
Start(c) ==
  /\ call[c].at = "approved"
  /\ call' = [call EXCEPT ![c].at = "started"]
  /\ UNCHANGED <<switch, matrix, present>>

-----------------------------------------------------------------------------
\* The handler is done, or the caller has heard the refusal.
Return(c) ==
  /\ call[c].at \in {"started", "denied"}
  /\ call' = [call EXCEPT ![c] = Blank]
  /\ UNCHANGED <<switch, matrix, present>>

Next ==
  \/ \E t \in Tools : Disable(t) \/ Enable(t) \/ DisableExpires(t)
  \/ \E a \in Actors, t \in Tools, tier \in Rows \cup {"none"} : SetTier(a, t, tier)
  \/ \E now \in BOOLEAN : Present(now)
  \/ \E c \in Calls, a \in Actors, t \in Tools : Check(c, a, t)
  \/ \E c \in Calls : Approve(c) \/ Reject(c) \/ Deadline(c) \/ Start(c) \/ Return(c)

\* The decision's timer fires; an approved call resumes.
Fairness == \A c \in Calls : WF_vars(Deadline(c)) /\ WF_vars(Start(c))

Spec == Init /\ [][Next]_vars /\ Fairness

-----------------------------------------------------------------------------
\* The settings have a value for everything, a call is blank or of a caller and a tool.
TypeOK ==
  /\ switch \in [Tools -> Disabled \cup {"enabled", "expired"}]
  /\ matrix \in [Actors -> [Tools -> Rows \cup {"none"}]]
  /\ present \in BOOLEAN
  /\ call \in [Calls -> [at : {"idle", "asking", "approved", "denied", "started"},
                        tool : Tools \cup {"none"}, actor : Actors \cup {"none"}]]

\* The calls of an actor to a tool that passed the gate, or may yet.
LetIn(a, t) ==
  {c \in Calls : /\ call[c].at \in {"asking", "approved", "started"}
                 /\ call[c].tool = t /\ call[c].actor = a}

\* While an actor is barred from a tool no further call of its to that tool gets in, by
\* whatever layer it is barred and whatever is approved meanwhile: check reads all
\* of them, and an approval lets in only what was asking before.
NothingPassesABar ==
  [][\A a \in Actors, t \in Tools : Barred(a, t) => LetIn(a, t)' \subseteq LetIn(a, t)]_vars

\* What the no-go list matches is never asked about and never runs: no switch, tier or
\* passkey outweighs the list.
NoGoNeverRuns == \A a \in Actors, t \in Tools \cap NoGo : LetIn(a, t) = {}

Pending(a, t) ==
  \E c \in Calls : call[c].at \in {"asking", "approved"} /\ call[c].tool = t /\ call[c].actor = a

\* A bar the operator leaves in place takes effect.  The calls let through before
\* it may still start, for nothing is read again after the approval; but they run
\* out, and from then on no call of that actor to that tool is on its way.
BarTakesEffect ==
  \A a \in Actors, t \in Tools : <>[]Barred(a, t) => <>[]~Pending(a, t)
=============================================================================
