------------------------------ MODULE HostExec ------------------------------
(***************************************************************************)
(* The host_exec tool: a call needs an active trust scope and a place on   *)
(* the allowlist, announces that it starts, runs a child process with a    *)
(* time-out, announces that it completed and charges the scope.  Every     *)
(* announcement is awaited, and scopes change meanwhile.                   *)
(*                                                                         *)
(* The child is external: it ends when it likes or never, may outlive a    *)
(* SIGTERM, and its pipes may stay open after it ended.  What it prints is *)
(* left out; the allowlist and the project root admit a call or do not,    *)
(* which its own arguments decide.                                         *)
(***************************************************************************)
EXTENDS TrustScopes, FiniteSets

CONSTANTS
  Call,       \* calls of the tool
  act,        \* the command each call is: [Call -> Act]
  NewCaps     \* bound: caps an extension may set

VARIABLES
  at,         \* how far each call is
  under,      \* the scope it found
  child,      \* its process
  clock       \* its time-out: armed, or in the two seconds after it fired

callVars == <<at, under, child, clock>>
vars == <<storeVars, callVars>>

Init ==
  /\ StoreInit
  /\ at = [c \in Call |-> "idle"]
  /\ under = [c \in Call |-> None]
  /\ child = [c \in Call |-> "none"]
  /\ clock = [c \in Call |-> "off"]

Goes(c, to) == at' = [at EXCEPT ![c] = to]
Becomes(c, to) == child' = [child EXCEPT ![c] = to]
Clock(c, to) == clock' = [clock EXCEPT ![c] = to]

-----------------------------------------------------------------------------
(* The tool.                                                               *)

\* The scope, then the allowlist; the denial or the start is published.
Begin(c, listed) ==
  /\ at[c] = "idle"
  /\ FindActiveScope(act[c])
  /\ IF Found(act[c]) = {} THEN Goes(c, "refusing") /\ UNCHANGED under
     ELSE /\ Goes(c, IF listed THEN "starting" ELSE "refusing")
          /\ \E i \in Found(act[c]) : under' = [under EXCEPT ![c] = granted[i]]
  /\ UNCHANGED <<child, clock>>

Refuse(c) ==
  /\ at[c] = "refusing"
  /\ Goes(c, "refused")
  /\ UNCHANGED <<storeVars, under, child, clock>>

\* runHostExec: a cwd outside the project root is rejected; spawn may throw, or
\* return a child that could not be started, whose error event follows.
Spawn(c) ==
  /\ at[c] = "starting"
  /\ \/ Goes(c, "refusing") /\ UNCHANGED <<child, clock>>
     \/ Goes(c, "failed") /\ UNCHANGED <<child, clock>>
     \/ /\ Goes(c, "running") /\ Clock(c, "armed")
        /\ \E as \in {"alive", "absent"} : Becomes(c, as)
  /\ UNCHANGED <<storeVars, under>>

\* finish: the first of several events settles the result.
Finish(c) ==
  /\ Goes(c, "reporting")
  /\ Clock(c, IF clock[c] = "armed" THEN "off" ELSE clock[c])

SpawnError(c) ==
  /\ at[c] = "running" /\ child[c] = "absent"
  /\ Finish(c)
  /\ UNCHANGED <<storeVars, under, child>>

\* The process is gone and nobody holds its pipes any more.
Close(c) ==
  /\ at[c] = "running" /\ child[c] = "ended"
  /\ Finish(c)
  /\ UNCHANGED <<storeVars, under, child>>

\* SIGTERM.  The system may refuse it, which the child reports as an error.
TimesOut(c) ==
  /\ at[c] = "running" /\ clock[c] = "armed" /\ child[c] # "absent"
  /\ Clock(c, "grace")
  /\ \/ Becomes(c, IF child[c] = "alive" THEN "asked" ELSE child[c]) /\ UNCHANGED at
     \/ child[c] = "alive" /\ Becomes(c, "unkillable") /\ Goes(c, "reporting")
  /\ UNCHANGED <<storeVars, under>>

\* A mutation of GraceOver: the result comes without the SIGKILL.
NeverKills(c) ==
  /\ clock[c] = "grace" /\ Clock(c, "off")
  /\ IF at[c] = "running" THEN Goes(c, "reporting") ELSE UNCHANGED at
  /\ UNCHANGED <<storeVars, under, child>>

\* Two seconds later: SIGKILL, and a result without waiting for the process.
GraceOver(c) ==
  /\ clock[c] = "grace" /\ Clock(c, "off")
  /\ IF at[c] = "running"
       THEN /\ Goes(c, "reporting")
            /\ Becomes(c, IF child[c] = "asked" THEN "killed" ELSE child[c])
       ELSE UNCHANGED <<at, child>>
  /\ UNCHANGED <<storeVars, under>>

\* The completion is published; then the scope found at the start is charged.
Report(c) ==
  /\ at[c] = "reporting"
  /\ RecordScopeAction(under[c])
  /\ Goes(c, "done")
  /\ UNCHANGED <<under, child, clock>>

-----------------------------------------------------------------------------
(* The environment: the child, the operator, and a daemon that dies, whose  *)
(* children live on.                                                        *)

ChildEnds(c) ==
  /\ child[c] \in {"alive", "asked"}
  /\ Becomes(c, "ended")
  /\ UNCHANGED <<storeVars, at, under, clock>>

Operate(s) ==
  /\ \/ \E p \in Proposals : CreateProposal(s, p)
     \/ scope[s].status = "proposed" /\ Grant(s)
     \/ Revocable(s) /\ Revoke(s)
     \/ Lapse(s)
     \/ Active(s) /\ \E later \in BOOLEAN, cap \in NewCaps \cup {None} : Extend(s, later, cap)
  /\ UNCHANGED callVars

InFlight(c) == at[c] \in {"refusing", "starting", "running", "reporting"}

Restart ==
  /\ \E c \in Call : InFlight(c)
  /\ at' = [c \in Call |-> IF InFlight(c) THEN "lost" ELSE at[c]]
  /\ clock' = [c \in Call |-> "off"]
  /\ UNCHANGED <<storeVars, under, child>>

Next ==
  \/ \E c \in Call :
       \/ \E listed \in BOOLEAN : Begin(c, listed)
       \/ Refuse(c) \/ Spawn(c) \/ SpawnError(c) \/ Close(c)
       \/ TimesOut(c) \/ GraceOver(c) \/ Report(c) \/ ChildEnds(c)
  \/ \E s \in Scope : Operate(s)
  \/ Restart

\* What the daemon does on its own: its timers, and what follows an await.  A
\* child need not end, and its pipes need not close.
Proceeds(c) ==
  \/ Refuse(c) \/ Spawn(c) \/ SpawnError(c) \/ TimesOut(c) \/ GraceOver(c) \/ Report(c)

Spec == Init /\ [][Next]_vars /\ \A c \in Call : WF_vars(Proceeds(c))

-----------------------------------------------------------------------------
\* An answered command is over: its process ended, never began, was killed, or
\* is one the system would not let the daemon kill.  A refused one never ran.
AnswerMeansOver ==
  \A c \in Call :
    /\ at[c] \in {"reporting", "done"} =>
         child[c] \in {"absent", "ended", "killed", "unkillable"}
    /\ at[c] \in {"idle", "refusing", "refused", "starting", "failed"} => child[c] = "none"

\* A scope has paid for each command that was answered under it, once, also
\* when it was revoked, lapsed or completed while the command ran.
Charged ==
  \A s \in Scope :
    scope[s].used = Cardinality({c \in Call : at[c] = "done" /\ under[c] = s})

\* Every call that began is answered or dies with the daemon, whatever its
\* process does.
HostCommandsEnd ==
  \A c \in Call : InFlight(c) ~> at[c] \in {"refused", "failed", "done", "lost"}
=============================================================================
