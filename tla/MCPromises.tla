------------------------------ MODULE MCPromises ------------------------------
(***************************************************************************)
(* Small instances of components that promise an end to whoever waits for  *)
(* them, side by side: the decision rendezvous and the binding of one job, *)
(* each compared with its abstract specification, the plans asked of the   *)
(* Steward agent, the load shedder, whose promise is to the host, and the  *)
(* gate, whose calls end (what it lets through is the business of          *)
(* MCGatedActions).                                                        *)
(* They share no state, so a behaviour runs one of them.                   *)
(***************************************************************************)
EXTENDS Decisions, Naturals

\* Two options, a loopback operator, one on a notification channel, a peer.
CONSTANTS approve, reject, loopback, notify, peer

CONSTANTS
  JobKinds, JobCallers,           \* of JobBinding
  PlanRequests, Missed, MaxMail   \* of StewardAgent

\* Three heartbeats without an answer in the code; any number would do.
ASSUME PromisesAssumption == Missed \in Nat

MCOption == {approve, reject}
MCActor == {loopback, notify, peer}
MCOperator == {loopback, notify}

VARIABLES part, kind, work, step, timer, sent, ended, exited, exits, stop,
  child, toChild, fromChild, planning, status, heard, plan, stopping,
  queue, gone, stressed, lastShedAt, shed, killed,
  scope, granted, lapsed, pc, via, effect, asked, settled, closed, told

J == INSTANCE JobBinding WITH Kinds <- JobKinds, Callers <- JobCallers

A == INSTANCE StewardAgent WITH Requests <- PlanRequests

L == INSTANCE LoadShedder WITH
  Jobs <- {"j1", "j2", "j3"}, Sheds <- {"s1", "s2"}, Window <- 2, call <- shed

\* A scope for one use, a call that it covers and one that is a no-go.
OneUse == [allowed |-> {"merge", "purge"}, forbidden |-> {}, cap |-> 1,
           serves |-> {}, covers |-> {}, budget |-> None]
GatedCalls == {"merge", "purge"}
Wanted == [c \in GatedCalls |-> [kind |-> "act", act |-> c]]

G == INSTANCE GatedActions WITH
  Scope <- {"s1"}, Act <- {"merge", "purge"}, Actor <- {}, Use <- {}, Proposals <- {OneUse},
  Call <- GatedCalls, request <- Wanted, NoGo <- {"purge"}, NewCaps <- {}, heard <- told

binding == <<kind, work, step, timer, sent, ended, exited, exits, stop>>
agent == <<child, toChild, fromChild, planning, status, heard, plan, stopping>>
shedder == <<queue, gone, stressed, lastShedAt, shed, killed>>
gate == <<scope, granted, lapsed, pc, via, effect, asked, settled, closed, told>>
all == <<part, vars, binding, agent, shedder, gate>>

EitherInit ==
  /\ part \in {"decisions", "binding", "agent", "shedder", "gate"}
  /\ Init /\ A!Init /\ L!Init /\ G!Init
  /\ J!Init /\ (part # "binding" => kind = "process")

Decides(S) == part = "decisions" /\ S /\ UNCHANGED <<part, binding, agent, shedder, gate>>
Executes(S) == part = "binding" /\ S /\ UNCHANGED <<part, vars, agent, shedder, gate>>
Plans(S) == part = "agent" /\ S /\ UNCHANGED <<part, vars, binding, shedder, gate>>
Watches(S) == part = "shedder" /\ S /\ UNCHANGED <<part, vars, binding, agent, gate>>
Gates(S) == part = "gate" /\ S /\ UNCHANGED <<part, vars, binding, agent, shedder>>

\* A job ends; only one that reported its exit may.  So do the agent, once its
\* handle is down, and the jobs a shedder watches.
Over ==
  /\ \/ part = "binding" /\ exited
     \/ part = "agent" /\ status = "down"
     \/ part = "shedder" /\ queue = <<>>
  /\ UNCHANGED all

EitherNext ==
  Decides(Next) \/ Executes(J!Next) \/ Plans(A!Next) \/ Watches(L!Next)
  \/ Gates(G!Next) \/ Over

\* The fairness of the part that runs.
EitherSpec ==
  /\ EitherInit /\ [][EitherNext]_all
  /\ \A d \in Decision : WF_all(Decides(Requester(d))) /\ WF_all(Decides(DeadlinePasses(d)))
  /\ WF_all(Executes(J!Killed)) /\ WF_all(Executes(J!Aborted))
  /\ \A c \in JobCallers :
       WF_all(Executes(J!ProcessStops(c))) /\ WF_all(Executes(J!CallStopped(c)))
  /\ WF_all(Plans(A!Receive)) /\ WF_all(Plans(A!ExitSeen))
  /\ WF_all(Plans(A!Heartbeat))
  /\ \A r \in PlanRequests : WF_all(Plans(A!TimeOut(r)))
  /\ WF_all(Watches(L!Tick))
  /\ \A s \in {"s1", "s2"} : SF_all(Watches(L!Kill(s))) /\ WF_all(Watches(L!Returns(s)))
  /\ \A j \in {"j1", "j2", "j3"} : WF_all(Watches(j \in killed /\ L!Exit(j)))
  /\ \A c \in GatedCalls : WF_all(Gates(G!Handler(c)))

\* A job exits once, with a reason that is true, and every terminate returns.
KeepsJobPromise == J!KeepsJobPromise

\* A plan asked of the agent is answered or fails, once, and an agent that fell
\* silent is not called up for ever.
HandleKeepsWord == A!HandleKeepsWord

\* Memory that stays short costs every job in the end.
StressEmptiesTheHost == L!StressEmptiesTheHost

\* Every gated call that started ends, though no operator ever answers it.
GatedCallsEnd == G!CallsEnd
=============================================================================
