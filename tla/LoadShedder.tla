----------------------------- MODULE LoadShedder -----------------------------
(***************************************************************************)
(* The load shedder (src/governor/load-shedder.ts): every five seconds it  *)
(* reads the last sample of the host and, when memory runs short, has the  *)
(* newest live job stopped, then waits a window before the next one.  The  *)
(* stop is awaited, the interval is not: when the stop takes longer, the   *)
(* next ticks run during it.                                               *)
(***************************************************************************)
EXTENDS Naturals, Sequences, SequencesExt

CONSTANTS
  Jobs,
  Sheds,        \* bound: calls of shedJob under way at a time
  Window,       \* headroom_window_ms, in ticks
  None          \* no job, no time

VARIABLES
  queue,        \* live jobs in dispatch order
  gone,         \* jobs that exited
  stressed,     \* the last sample: headroom is below a threshold
  lastShedAt,   \* ticks since the cool-down began, up to Window, or None
  call,         \* per call of shedJob: its job, or None
  killed        \* jobs whose binding was told to terminate

vars == <<queue, gone, stressed, lastShedAt, call, killed>>

Ages == 0..Window \cup {None}

\* Type invariant.
TypeOK ==
  /\ queue \in Seq(Jobs) /\ IsInjective(queue)
  /\ gone \subseteq Jobs /\ killed \subseteq Jobs
  /\ ToSet(queue) \cap gone = {}
  /\ stressed \in BOOLEAN /\ lastShedAt \in Ages
  /\ call \in [Sheds -> Jobs \cup {None}]

Init ==
  /\ queue = <<>> /\ gone = {} /\ killed = {}
  /\ stressed = FALSE /\ lastShedAt = None
  /\ call = [s \in Sheds |-> None]

-----------------------------------------------------------------------------
Dispatch(j) ==
  /\ j \notin ToSet(queue) \cup gone
  /\ queue' = Append(queue, j)
  /\ UNCHANGED <<gone, stressed, lastShedAt, call, killed>>

Without(j) == Remove(queue, j)

\* By itself, or because it was killed.
Exit(j) ==
  /\ j \in ToSet(queue)
  /\ queue' = Without(j)
  /\ gone' = gone \cup {j}
  /\ UNCHANGED <<stressed, lastShedAt, call, killed>>

Sample ==
  /\ stressed' = ~stressed
  /\ UNCHANGED <<queue, gone, lastShedAt, call, killed>>

\* One tick later.
Older(age) == IF age = None \/ age = Window THEN age ELSE age + 1

\* A healthy sample ends the cool-down.
Healthy ==
  /\ ~stressed
  /\ lastShedAt' = None /\ UNCHANGED call

CoolsDown(age) == age # None /\ age < Window

Cooling ==
  /\ stressed /\ CoolsDown(Older(lastShedAt))
  /\ lastShedAt' = Older(lastShedAt) /\ UNCHANGED call

NoJob ==
  /\ stressed /\ ~CoolsDown(Older(lastShedAt)) /\ queue = <<>>
  /\ lastShedAt' = Older(lastShedAt) /\ UNCHANGED call

\* The newest job.
Victim == Last(queue)

Shed(s) ==
  /\ stressed /\ ~CoolsDown(Older(lastShedAt)) /\ queue # <<>>
  /\ call[s] = None
  /\ call' = [call EXCEPT ![s] = Victim]
  /\ lastShedAt' = Older(lastShedAt)

Tick ==
  /\ Healthy \/ Cooling \/ NoJob \/ \E s \in Sheds : Shed(s)
  /\ UNCHANGED <<queue, gone, stressed, killed>>

KillLost(j) == killed

\* shedJob published its event and has the binding terminate; a job that is no
\* longer live is left alone.
Terminated(j) == killed \cup ({j} \cap ToSet(queue))

Kill(s) ==
  /\ call[s] # None /\ call[s] \notin killed
  /\ killed' = Terminated(call[s])
  /\ UNCHANGED <<queue, gone, stressed, lastShedAt, call>>

\* The cool-down begins when the call returns.
Returns(s) ==
  /\ call[s] \in killed \cup gone
  /\ call' = [call EXCEPT ![s] = None]
  /\ lastShedAt' = 0
  /\ UNCHANGED <<queue, gone, stressed, killed>>

\* A call that throws shed nothing, and the next tick tries again.
Throws(s) ==
  /\ call[s] # None /\ call[s] \notin killed
  /\ call' = [call EXCEPT ![s] = None]
  /\ UNCHANGED <<queue, gone, stressed, lastShedAt, killed>>

Next ==
  \/ \E j \in Jobs : Dispatch(j) \/ Exit(j)
  \/ Sample \/ Tick
  \/ \E s \in Sheds : Kill(s) \/ Returns(s) \/ Throws(s)

\* The interval fires, a call goes on and ends, and a killed process is gone in
\* the end; nothing makes a job exit by itself or a dispatch come.
Fairness ==
  /\ WF_vars(Tick)
  /\ \A s \in Sheds : SF_vars(Kill(s)) /\ WF_vars(Returns(s))
  /\ \A j \in Jobs : WF_vars(j \in killed /\ Exit(j))

Spec == Init /\ [][Next]_vars /\ Fairness

-----------------------------------------------------------------------------
\* Memory that stays short costs every job in the end (load-shedder.ts, tick): no
\* cool-down, and no call that failed, was overtaken by another or came too late
\* for its job, stops the shedder from going on.
StressEmptiesTheHost ==
  []TypeOK /\ (<>[]stressed => []<>(queue = <<>>))
=============================================================================
