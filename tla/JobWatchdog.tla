----------------------------- MODULE JobWatchdog -----------------------------
(***************************************************************************)
(* The job watchdog (src/jobs/watchdog.ts) and the orchestrator's idle     *)
(* timer over one clock.  Both follow the time since a job was last heard: *)
(* the watchdog reports a silent job as stuck, again and again, and the    *)
(* idle timer declares it stale, which takes it off the watchdog's list.   *)
(* A pass awaits every report, so jobs speak and end, and the next pass    *)
(* may begin, while one is under way.                                      *)
(***************************************************************************)
EXTENDS Naturals

CONSTANTS
  Jobs,
  Passes,        \* bound: passes under way at a time; a pass outlives one tick
  Threshold,     \* minutes of silence after which a job counts as stuck
  IdleAfter,     \* minutes after which the idle timer fires
  ReEmit,        \* minutes between two reports of one silence
  MaxTime,       \* bound on the clock
  MaxStarts      \* bound on restarts of the daemon

Never == MaxTime + 1

VARIABLES
  now,        \* the clock, in minutes
  tick,       \* the interval in this minute: due, done, or none (a new daemon)
  state,      \* the row of a job
  starting,   \* jobs whose binding is starting
  live,       \* jobs with a handle, and so with an idle timer
  heard,      \* per job: last_activity_at
  armed,      \* per job: when its idle timer was set
  emitted,    \* per job: the watchdog's record of its last report
  pass,       \* per pass under way: when it began, the rows it read and has
              \* not looked at; it awaits the report of the last one it looked at
  starts,
  \* history
  told,       \* per job: its last report in this daemon's life
  repeated,   \* jobs on the list that were reported again too early
  revived     \* jobs that were ended while their binding was starting, and ran

jobs == <<state, starting, live, heard, armed>>
history == <<told, repeated, revived>>
vars == <<now, tick, jobs, emitted, pass, starts, history>>

NoReport == [activity |-> Never, at |-> Never]
Reports == [activity : 0..Never, at : 0..Never]
Idle == [began |-> Never, rows |-> <<>>]

Watched == {"dispatched", "running"}
Listed == {j \in Jobs : state[j] \in Watched}

\* Type invariant.
TypeOK ==
  /\ now \in 0..MaxTime /\ tick \in {"due", "done", "none"} /\ starts \in 0..MaxStarts
  /\ state \in [Jobs -> {"none", "dispatched", "running", "stale", "ended"}]
  /\ starting \subseteq Jobs /\ live \subseteq Jobs
  /\ heard \in [Jobs -> 0..MaxTime] /\ armed \in [Jobs -> 0..MaxTime]
  /\ emitted \in [Jobs -> Reports] /\ told \in [Jobs -> Reports]
  /\ \A p \in Passes :
       /\ pass[p].began \in 0..Never
       /\ \E todo \in SUBSET Jobs : pass[p].rows \in [todo -> 0..MaxTime]
  /\ repeated \subseteq Jobs /\ revived \subseteq Jobs

Init ==
  /\ now = 0 /\ tick = "none" /\ starts = 0
  /\ state = [j \in Jobs |-> "none"] /\ starting = {} /\ live = {}
  /\ heard = [j \in Jobs |-> 0] /\ armed = [j \in Jobs |-> 0]
  /\ emitted = [j \in Jobs |-> NoReport]
  /\ pass = [p \in Passes |-> Idle]
  /\ told = [j \in Jobs |-> NoReport] /\ repeated = {} /\ revived = {}

-----------------------------------------------------------------------------
(* Jobs: what the orchestrator writes that the watchdog reads.             *)

Dispatch(j) ==
  /\ state[j] = "none"
  /\ state' = [state EXCEPT ![j] = "dispatched"]
  /\ starting' = starting \cup {j}
  /\ heard' = [heard EXCEPT ![j] = now]
  /\ UNCHANGED <<now, tick, live, armed, emitted, pass, starts, history>>

\* The binding answered: the row runs, even if a terminate had ended it, with the
\* activity of its dispatch; the idle timer is set.
GoLive(j) ==
  /\ j \in starting /\ starting' = starting \ {j}
  /\ state' = [state EXCEPT ![j] = "running"]
  /\ live' = live \cup {j}
  /\ armed' = [armed EXCEPT ![j] = now]
  /\ revived' = IF state[j] = "ended" THEN revived \cup {j} ELSE revived
  /\ UNCHANGED <<now, tick, heard, emitted, pass, starts, told, repeated>>

ArmIdle(j) == armed' = [armed EXCEPT ![j] = now]

\* Progress, a log line or metadata: stamped, and the timer starts anew.
Touch(j) ==
  /\ j \in live
  /\ heard' = [heard EXCEPT ![j] = now]
  /\ ArmIdle(j)
  /\ UNCHANGED <<now, tick, state, starting, live, emitted, pass, starts, history>>

TimerDue(j) == j \in live /\ state[j] = "running" /\ now >= armed[j] + IdleAfter

\* Writing the state stamps the row too.
GoStale(j) ==
  /\ TimerDue(j)
  /\ state' = [state EXCEPT ![j] = "stale"]
  /\ heard' = [heard EXCEPT ![j] = now]
  /\ UNCHANGED <<now, tick, starting, live, armed, emitted, pass, starts, history>>

\* An exit, or a terminate that finds no handle and stamps the row.
End(j) ==
  /\ state[j] \notin {"none", "ended"}
  /\ state' = [state EXCEPT ![j] = "ended"]
  /\ live' = live \ {j}
  /\ UNCHANGED <<now, tick, starting, heard, armed, emitted, pass, starts, history>>

-----------------------------------------------------------------------------
(* The watchdog.                                                           *)

\* A silence is reported again after ReEmit minutes only.
Recent(record, activity, at) == record.activity = activity /\ at < record.at + ReEmit

Stuck(records, rows, j, at) ==
  at > rows[j] + Threshold /\ ~Recent(records[j], rows[j], at)

ForgetsToRecord(records, j, report) == records

\* The record is written before the report is awaited.
Recorded(records, j, report) == [records EXCEPT ![j] = report]

\* The pass looks at its rows, in the order of the table, up to the first one
\* to report, whose two events it then awaits.
Look(p, records, rows, at) ==
  LET stuck == {j \in DOMAIN rows : Stuck(records, rows, j, at)}
  IN \/ /\ stuck = {}
        /\ pass' = [pass EXCEPT ![p] = Idle]
        /\ emitted' = records
        /\ UNCHANGED history
     \/ \E j \in stuck, skipped \in SUBSET (DOMAIN rows \ stuck) :
          LET report == [activity |-> rows[j], at |-> at]
              left == DOMAIN rows \ (skipped \cup {j})
              early == j \in Listed \ revived /\ Recent(told[j], rows[j], at)
          IN /\ pass' = [pass EXCEPT ![p] =
                           [began |-> at, rows |-> [k \in left |-> rows[k]]]]
             /\ emitted' = Recorded(records, j, report)
             /\ told' = [told EXCEPT ![j] = report]
             /\ repeated' = IF early THEN repeated \cup {j} ELSE repeated
             /\ UNCHANGED revived

\* The interval fires: records of jobs that left the list are dropped, and the
\* rows are read once for the whole pass.
Kept == [j \in Jobs |-> IF j \in Listed THEN emitted[j] ELSE NoReport]

Begin(p) ==
  /\ tick = "due" /\ pass[p] = Idle
  /\ tick' = "done"
  /\ Look(p, Kept, [j \in Listed |-> heard[j]], now)
  /\ UNCHANGED <<now, jobs, starts>>

\* A report was published: the pass goes on with the rows of its beginning.
Resume(p) ==
  /\ pass[p] # Idle
  /\ Look(p, emitted, pass[p].rows, pass[p].began)
  /\ UNCHANGED <<now, tick, jobs, starts>>

-----------------------------------------------------------------------------
\* A new daemon has neither handles nor records; the rows stay as they were.
\* Its first pass is a minute away.
Restart ==
  /\ starts < MaxStarts /\ starts' = starts + 1
  /\ starting' = {} /\ live' = {} /\ tick' = "none"
  /\ emitted' = [j \in Jobs |-> NoReport] /\ told' = [j \in Jobs |-> NoReport]
  /\ pass' = [p \in Passes |-> Idle]
  /\ UNCHANGED <<now, state, heard, armed, repeated, revived>>

\* Timers that are due fire before the clock goes on; deliveries are bounded, so
\* that a pass ends before the second tick after it began.
Minute ==
  /\ now < MaxTime /\ tick # "due" /\ \A j \in Jobs : ~TimerDue(j)
  /\ \A p \in Passes : pass[p] # Idle => pass[p].began = now
  /\ now' = now + 1 /\ tick' = "due"
  /\ UNCHANGED <<jobs, emitted, pass, starts, history>>

Next ==
  \/ \E j \in Jobs : Dispatch(j) \/ GoLive(j) \/ Touch(j) \/ GoStale(j) \/ End(j)
  \/ \E p \in Passes : Begin(p) \/ Resume(p)
  \/ Restart \/ Minute

Spec == Init /\ [][Next]_vars

-----------------------------------------------------------------------------
\* One silence of a job that still runs is reported at most once in ReEmit
\* minutes, whatever passes overlap and whatever the other jobs do meanwhile
\* (the watchdog's idempotency model).  A revived job is another matter.
NoEarlyRepeat == repeated = {}

\* Once the pass of a minute is over, every job on the list that was silent for
\* longer than the threshold has been reported, for this very silence.
SilenceIsReported ==
  tick = "done" /\ (\A p \in Passes : pass[p] = Idle)
    => \A j \in Listed \ revived :
         now > heard[j] + Threshold => told[j].activity = heard[j]

\* Whatever passes overlap and whatever jobs do meanwhile, a silence that a pass can
\* see is reported in the minute it outlasts the threshold, and not over and over
\* (watchdog.ts).
SilencesReported == TypeOK /\ NoEarlyRepeat /\ SilenceIsReported

\* The watchdog "emits job_stuck for any job whose last_activity_at is older than
\* the configured threshold" (src/jobs/watchdog.ts:5): no running job is declared
\* stale, and so leaves the list for good, before its silence was reported.
StaleWasReported ==
  [][\A j \in Jobs :
       state[j] = "running" /\ state'[j] = "stale" => told[j].activity = heard[j]]_vars
=============================================================================
