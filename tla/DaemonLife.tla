----------------------------- MODULE DaemonLife -----------------------------
(***************************************************************************)
(* The life of the daemon's operating-system processes: the PID file, the  *)
(* port, the command line that starts, stops and restarts the daemon       *)
(* (src/daemon.ts, src/cli.ts) and the watchdog that does the same on its  *)
(* own when pings fail (src/watchdog.ts).  Each controller is a process of *)
(* its own, so its steps between two file or signal operations interleave  *)
(* with those of the others and of every daemon.                           *)
(*                                                                         *)
(* A process is "free" (its pid is not in use), "check" (spawned, the PID  *)
(* file not read yet), "boot" (past the check, opening the store), "bound" *)
(* (listening, PID file not written), "wiring" (PID file written, signal   *)
(* handlers not installed), "up", "draining" (its shutdown handler runs,   *)
(* still listening), "closed" (port released, PID file not removed).       *)
(***************************************************************************)
EXTENDS Naturals, FiniteSets

CONSTANTS
  Pids,          \* the process ids the operating system hands out
  NoPid,         \* "no process": an absent PID file, a free port
  Operators,     \* command lines the operator may have open at once
  Watchdog,      \* the watchdog process
  FailThreshold, \* WatchdogConfig.failThreshold
  MayForce,      \* may the operator pass --force
  MaxCommands,   \* bound: commands the operator gives
  MaxFaults      \* bound: crashes and hangs

ASSUME LifeAssumption ==
  /\ NoPid \notin Pids
  /\ Watchdog \notin Operators
  /\ FailThreshold \in Nat \ {0}
  /\ MayForce \in BOOLEAN
  /\ MaxCommands \in Nat /\ MaxFaults \in Nat

VARIABLES
  proc,      \* the stage of each process
  forced,    \* was the process started with --force
  hung,      \* its event loop is blocked
  termed,    \* a SIGTERM waits for its handler
  port,      \* the process that listens
  pidFile,   \* the pid in the PID file
  ctl,       \* what each controller is doing
  fails,     \* WatchdogState.consecutiveFailures
  cooled,    \* restartCooldownMs have passed since lastRestartAt
  commands,  \* commands given so far
  faults,    \* crashes and hangs so far
  overlap    \* history: a command was given while another, or a start or an
             \* end of a daemon, was still under way, or a start was forced

vars == <<proc, forced, hung, termed, port, pidFile, ctl, fails, cooled,
          commands, faults, overlap>>
procVars == <<proc, forced, hung, termed, port>>

Controllers == Operators \cup {Watchdog}

Holding == {"bound", "wiring", "up", "draining"}   \* the stages that listen
Starting == {"check", "boot", "bound"}
Ending == {"draining", "closed"}
Live == Starting \cup {"wiring", "up"} \cup Ending

Idle == [pc |-> "idle", job |-> "none", rec |-> NoPid]
Jobs == {"start", "stop", "restart", "watch"}

Alive(p) == p # NoPid /\ proc[p] # "free"          \* isProcessAlive
Serving == port # NoPid /\ ~hung[port]              \* /healthz answers 200

Init ==
  /\ proc = [p \in Pids |-> "free"]
  /\ forced = [p \in Pids |-> FALSE]
  /\ hung = [p \in Pids |-> FALSE]
  /\ termed = [p \in Pids |-> FALSE]
  /\ port = NoPid /\ pidFile = NoPid
  /\ ctl = [a \in Controllers |-> Idle]
  /\ fails = 0 /\ cooled = TRUE
  /\ commands = 0 /\ faults = 0
  /\ overlap = FALSE

-----------------------------------------------------------------------------
(* The daemon process: startDaemonForeground, shutdown, the crash handler. *)

\* The process is gone: its port is free again, its pid may be handed out.
Exit(p) ==
  /\ proc' = [proc EXCEPT ![p] = "free"]
  /\ forced' = [forced EXCEPT ![p] = FALSE]
  /\ hung' = [hung EXCEPT ![p] = FALSE]
  /\ termed' = [termed EXCEPT ![p] = FALSE]
  /\ port' = IF port = p THEN NoPid ELSE port

\* A live daemon in the PID file ends the start, unless it is forced.
CheckRefuses(p) == Alive(pidFile) /\ ~forced[p]

CheckPidFile(p) ==
  /\ proc[p] = "check"
  /\ IF CheckRefuses(p)
     THEN Exit(p) /\ UNCHANGED overlap
     ELSE /\ proc' = [proc EXCEPT ![p] = "boot"]
          /\ overlap' = (overlap \/ Alive(pidFile))
          /\ UNCHANGED <<forced, hung, termed, port>>
  /\ UNCHANGED <<pidFile, ctl, fails, cooled, commands, faults>>

\* A mutation of BindTaken: go on with stdio only, as the mode 'both' does.
StaysOnStdio(p) ==
  proc' = [proc EXCEPT ![p] = "bound"] /\ UNCHANGED <<forced, hung, termed, port>>
\* In daemon mode a port that is taken is fatal.
BindTaken(p) == Exit(p)

Bind(p) ==
  /\ proc[p] = "boot"
  /\ IF port # NoPid
     THEN BindTaken(p)
     ELSE /\ port' = p
          /\ proc' = [proc EXCEPT ![p] = "bound"]
          /\ UNCHANGED <<forced, hung, termed>>
  /\ UNCHANGED <<pidFile, ctl, fails, cooled, commands, faults, overlap>>

WritePidFile(p) ==
  /\ proc[p] = "bound"
  /\ pidFile' = p
  /\ proc' = [proc EXCEPT ![p] = "wiring"]
  /\ UNCHANGED <<forced, hung, termed, port, ctl, fails, cooled, commands, faults, overlap>>

InstallHandlers(p) ==
  /\ proc[p] = "wiring" /\ ~hung[p]
  /\ proc' = [proc EXCEPT ![p] = "up"]
  /\ UNCHANGED <<forced, hung, termed, port, pidFile, ctl, fails, cooled, commands, faults, overlap>>

\* The SIGTERM handler begins; a second signal finds shuttingDown set.
BeginShutdown(p) ==
  /\ proc[p] = "up" /\ termed[p] /\ ~hung[p]
  /\ proc' = [proc EXCEPT ![p] = "draining"]
  /\ UNCHANGED <<forced, hung, termed, port, pidFile, ctl, fails, cooled, commands, faults, overlap>>

\* transports.shutdown: the streams are closed, then the listener.
CloseTransports(p) ==
  /\ proc[p] = "draining" /\ ~hung[p]
  /\ proc' = [proc EXCEPT ![p] = "closed"]
  /\ port' = NoPid
  /\ UNCHANGED <<forced, hung, termed, pidFile, ctl, fails, cooled, commands, faults, overlap>>

\* removePidFile() whatever it names, then process.exit(0).
LeaveForGood(p) ==
  /\ proc[p] = "closed"
  /\ pidFile' = NoPid
  /\ Exit(p)
  /\ UNCHANGED <<ctl, fails, cooled, commands, faults, overlap>>

\* An uncaught error, or the operating system, ends the process: the PID file stays.
Crash(p) ==
  /\ proc[p] \in Live /\ faults < MaxFaults
  /\ faults' = faults + 1
  /\ Exit(p)
  /\ UNCHANGED <<pidFile, ctl, fails, cooled, commands, overlap>>

\* The event loop blocks; never between listening and the PID file, which no turn
\* separates.  One that blocks before it listens only wastes its pid and is left out.
Hang(p) ==
  /\ proc[p] \in {"wiring", "up", "draining"} /\ ~hung[p] /\ faults < MaxFaults
  /\ faults' = faults + 1
  /\ hung' = [hung EXCEPT ![p] = TRUE]
  /\ UNCHANGED <<proc, forced, termed, port, pidFile, ctl, fails, cooled, commands, overlap>>

Unhang(p) ==
  /\ hung[p]
  /\ hung' = [hung EXCEPT ![p] = FALSE]
  /\ UNCHANGED <<proc, forced, termed, port, pidFile, ctl, fails, cooled, commands, faults, overlap>>

-----------------------------------------------------------------------------
(* The commands.  A job that stops first goes read, signal, await, remove; *)
(* the ones that start end with the spawn of a detached child.             *)

Busy(a) == \/ \E b \in Controllers \ {a} : ctl[b].pc # "idle"
           \/ \E p \in Pids : proc[p] \in Starting \cup Ending

Goto(a, pc) == ctl' = [ctl EXCEPT ![a].pc = pc]

\* The operator gives a command; restart needs a PID file to copy the port and db from.
Command(a, job) ==
  /\ a \in Operators /\ ctl[a] = Idle /\ commands < MaxCommands
  /\ job \in {"start", "stop", "restart"}
  /\ job = "restart" => pidFile # NoPid
  /\ commands' = commands + 1
  /\ overlap' = (overlap \/ Busy(a))
  /\ ctl' = [ctl EXCEPT ![a] = [pc |-> IF job = "start" THEN "spawn" ELSE "read",
                                job |-> job, rec |-> NoPid]]
  /\ UNCHANGED <<proc, forced, hung, termed, port, pidFile, fails, cooled, faults>>

\* What follows the stop: nothing, or the start of the new daemon.
AfterStop(a) ==
  ctl' = [ctl EXCEPT ![a] = IF ctl[a].job = "stop"
                            THEN Idle
                            ELSE [pc |-> "spawn", job |-> ctl[a].job, rec |-> NoPid]]

\* A mutation of StopRead: a restart that finds nothing to stop is over.
NothingToRestart(a) ==
  /\ ctl[a].pc = "read"
  /\ ctl' = [ctl EXCEPT ![a] = IF pidFile = NoPid THEN Idle
                               ELSE [@ EXCEPT !.pc = IF Alive(pidFile) THEN "signal" ELSE "remove",
                                              !.rec = pidFile]]
  /\ UNCHANGED <<proc, forced, hung, termed, port, pidFile, fails, cooled, commands, faults, overlap>>

\* stopDaemon reads the PID file: nothing to stop, a dead daemon, or one to signal.
StopRead(a) ==
  /\ ctl[a].pc = "read"
  /\ IF pidFile = NoPid
     THEN AfterStop(a)
     ELSE ctl' = [ctl EXCEPT ![a] = [pc |-> IF Alive(pidFile) THEN "signal" ELSE "remove",
                                     job |-> ctl[a].job, rec |-> pidFile]]
  /\ UNCHANGED <<proc, forced, hung, termed, port, pidFile, fails, cooled, commands, faults, overlap>>

\* SIGTERM: without a handler it ends the process, with one it waits for the event loop.
StopSignal(a) ==
  /\ ctl[a].pc = "signal"
  /\ LET p == ctl[a].rec
     IN \/ proc[p] \in Starting \cup {"wiring"} /\ Exit(p)
        \/ /\ proc[p] = "up"
           /\ termed' = [termed EXCEPT ![p] = TRUE]
           /\ UNCHANGED <<proc, forced, hung, port>>
        \/ proc[p] \in Ending \cup {"free"} /\ UNCHANGED procVars
  /\ Goto(a, "await")
  /\ UNCHANGED <<pidFile, fails, cooled, commands, faults, overlap>>

\* A mutation of StopSees: the wait ends whether or not the process did.
SeesAnything(a) ==
  /\ ctl[a].pc = "await"
  /\ Goto(a, "remove")
  /\ UNCHANGED <<proc, forced, hung, termed, port, pidFile, fails, cooled, commands, faults, overlap>>

StopSees(a) ==
  /\ ctl[a].pc = "await" /\ ~Alive(ctl[a].rec)
  /\ Goto(a, "remove")
  /\ UNCHANGED <<proc, forced, hung, termed, port, pidFile, fails, cooled, commands, faults, overlap>>

\* Ten seconds later: SIGKILL, which no process survives.
StopKills(a) ==
  /\ ctl[a].pc = "await" /\ Alive(ctl[a].rec)
  /\ Exit(ctl[a].rec)
  /\ Goto(a, "remove")
  /\ UNCHANGED <<pidFile, fails, cooled, commands, faults, overlap>>

\* removePidFile(), whatever the file names by now.
StopRemove(a) ==
  /\ ctl[a].pc = "remove"
  /\ pidFile' = NoPid
  /\ AfterStop(a)
  /\ UNCHANGED <<proc, forced, hung, termed, port, fails, cooled, commands, faults, overlap>>

\* A pid may be handed out again once no PID file and no command remembers it.
Fresh(p) == proc[p] = "free" /\ p # pidFile /\ \A a \in Controllers : ctl[a].rec # p

\* Which pid it is makes no difference.
NextPid == CHOOSE p \in Pids : Fresh(p)

\* spawnDetachedDaemon.  A watchdog's restart also resets its state.
Spawn(a, force) ==
  /\ ctl[a].pc = "spawn"
  /\ force => MayForce /\ ctl[a].job = "start"
  /\ \E p \in Pids : Fresh(p)
  /\ proc' = [proc EXCEPT ![NextPid] = "check"]
  /\ forced' = [forced EXCEPT ![NextPid] = force]
  /\ ctl' = [ctl EXCEPT ![a] = Idle]
  /\ IF a = Watchdog THEN fails' = 0 /\ cooled' = FALSE ELSE UNCHANGED <<fails, cooled>>
  /\ UNCHANGED <<hung, termed, port, pidFile, commands, faults, overlap>>

-----------------------------------------------------------------------------
(* The watchdog: runWatchdogOnce, never overlapping with itself.           *)

\* consecutiveFailures after a ping; only its comparison with the threshold is kept.
FailsAfter(ok) == IF ok THEN 0 ELSE IF fails < FailThreshold THEN fails + 1 ELSE fails

Ping ==
  /\ ctl[Watchdog] = Idle
  /\ fails' = FailsAfter(Serving)
  /\ IF fails' >= FailThreshold /\ cooled
     THEN /\ ctl' = [ctl EXCEPT ![Watchdog] = [pc |-> "read", job |-> "watch", rec |-> NoPid]]
          /\ overlap' = (overlap \/ Busy(Watchdog))
     ELSE UNCHANGED <<ctl, overlap>>
  /\ UNCHANGED <<proc, forced, hung, termed, port, pidFile, cooled, commands, faults>>

CoolDown ==
  /\ ~cooled
  /\ cooled' = TRUE
  /\ UNCHANGED <<proc, forced, hung, termed, port, pidFile, ctl, fails, commands, faults, overlap>>

-----------------------------------------------------------------------------
DaemonStep(p) ==
  \/ CheckPidFile(p) \/ Bind(p) \/ WritePidFile(p) \/ InstallHandlers(p)
  \/ BeginShutdown(p) \/ CloseTransports(p) \/ LeaveForGood(p)

ControllerStep(a) ==
  \/ StopRead(a) \/ StopSignal(a) \/ StopSees(a) \/ StopKills(a) \/ StopRemove(a)
  \/ Spawn(a, FALSE)

Next ==
  \/ \E p \in Pids : DaemonStep(p) \/ Crash(p) \/ Hang(p) \/ Unhang(p)
  \/ \E a \in Controllers : ControllerStep(a) \/ Spawn(a, TRUE)
  \/ \E a \in Operators, job \in Jobs : Command(a, job)
  \/ Ping
  \/ CoolDown

\* Every process runs, the clock moves on and the watchdog keeps pinging; nothing
\* makes an operator act, a fault happen or a blocked event loop go on.  Spawning is
\* strongly fair because only the small set Pids can run out of process ids.
Spec ==
  /\ Init /\ [][Next]_vars
  /\ \A p \in Pids : WF_vars(DaemonStep(p))
  /\ \A a \in Controllers : WF_vars(ControllerStep(a)) /\ SF_vars(Spawn(a, FALSE))
  /\ WF_vars(Ping) /\ WF_vars(CoolDown)

-----------------------------------------------------------------------------
\* Type correctness of the processes, the port, the PID file and the controllers.
TypeOK ==
  /\ proc \in [Pids -> Live \cup {"free"}]
  /\ forced \in [Pids -> BOOLEAN] /\ hung \in [Pids -> BOOLEAN] /\ termed \in [Pids -> BOOLEAN]
  /\ port \in Pids \cup {NoPid} /\ pidFile \in Pids \cup {NoPid}
  /\ ctl \in [Controllers -> [pc : {"idle", "read", "signal", "await", "remove", "spawn"},
                              job : Jobs \cup {"none"}, rec : Pids \cup {NoPid}]]
  /\ fails \in 0..FailThreshold /\ cooled \in BOOLEAN
  /\ commands \in 0..MaxCommands /\ faults \in 0..MaxFaults
  /\ overlap \in BOOLEAN

\* However many starts race, forced or not, at most one process gets past the port
\* and on to what comes after it: PID file, jobs, timers, connectors.
OnePastPort ==
  \A p, q \in Pids : proc[p] \in Holding /\ proc[q] \in Holding => p = q

\* The store is opened and swept before the port is asked for (startupDecisionSweep,
\* transports.ts): the process that does so is the only one there is.
StartsAlone ==
  \A p, q \in Pids : proc[q] \in {"boot", "bound"} /\ p # q => proc[p] = "free"

\* One process at a time is past the port, always; and as long as commands came one
\* at a time and none was forced, nobody opens and sweeps the store of a daemon that
\* is still there.  Starts that race, or one that is forced, do sweep it, and then
\* lose the port.
OneDaemon == OnePastPort /\ (~overlap => StartsAlone)

\* As long as commands came one at a time and none was forced, a daemon that is
\* past its start is the one the PID file names, whatever crashed or hung
\* meanwhile: stop, status and restart find it.
Findable ==
  ~overlap => \A p \in Pids : proc[p] \in {"wiring", "up", "draining"} => pidFile = p

\* A daemon that listens and that no PID file names: no stop can reach it.
Lost == port # NoPid /\ pidFile # port

\* After every crash, hang and operator's stop a daemon answers again, the watchdog
\* being at work, unless racing commands made a listening daemon lose its PID file.
Recovers == []<>(Serving \/ Lost)
=============================================================================
