---------------------------- MODULE DaemonProofs ----------------------------
(***************************************************************************)
(* What holds of the daemon for every value of its constants: of its       *)
(* processes and the PID file, of the bricks it loads when it boots, and   *)
(* of what every MCP client meets in it, the sessions, their streams, the  *)
(* event hub and the gate.  Each has an inductive invariant of its own.    *)
(***************************************************************************)
EXTENDS MCDaemon, MCServer, SequenceTheorems, WellFoundedInduction, TLAPS

-----------------------------------------------------------------------------
(* The processes.  At most one daemon gets past the port.  The PID file     *)
(* does not give this, since starts race it, --force ignores it and every   *)
(* stop removes it whatever it names.  The port does: exactly the process   *)
(* that holds it is in a stage that listens.                                *)
(*                                                                          *)
(* The PID file names the daemon as long as commands come one at a time:    *)
(* what is inductive then (Orderly) says what a command that is under way,  *)
(* a start and an end leave the others to be.                               *)

\* The process that listens is the one the port belongs to.
PortIsHeld == \A p \in Pids : proc[p] \in Holding <=> port = p

\* Types of the controllers' records.
Ctl == [pc : {"idle", "read", "signal", "await", "remove", "spawn"},
        job : Jobs \cup {"none"}, rec : Pids \cup {NoPid}]

\* The inductive invariant.
IInv == TypeOK /\ PortIsHeld

LEMMA InitIInv == Init => IInv
<1> SUFFICES ASSUME Init PROVE IInv
  OBVIOUS
<1>1. /\ fails \in 0..FailThreshold /\ commands \in 0..MaxCommands /\ faults \in 0..MaxFaults
  BY LifeAssumption DEF Init
<1>2. ctl \in [Controllers -> Ctl]
  BY DEF Init, Ctl, Idle, Jobs
<1>3. PortIsHeld
  BY LifeAssumption DEF Init, PortIsHeld, Holding
<1> QED
  BY <1>1, <1>2, <1>3 DEF Init, IInv, TypeOK, Ctl

\* A process that ends gives its port back.
LEMMA ExitKeeps ==
  ASSUME IInv, NEW p, Exit(p)
  PROVE  /\ PortIsHeld'
         /\ proc' \in [Pids -> Live \cup {"free"}]
         /\ forced' \in [Pids -> BOOLEAN] /\ hung' \in [Pids -> BOOLEAN]
         /\ termed' \in [Pids -> BOOLEAN] /\ port' \in Pids \cup {NoPid}
<1> USE DEF IInv, TypeOK, Exit
<1>1. /\ proc' \in [Pids -> Live \cup {"free"}]
      /\ forced' \in [Pids -> BOOLEAN] /\ hung' \in [Pids -> BOOLEAN]
      /\ termed' \in [Pids -> BOOLEAN] /\ port' \in Pids \cup {NoPid}
  OBVIOUS
<1>2. PortIsHeld'
  <2> SUFFICES ASSUME NEW q \in Pids PROVE proc'[q] \in Holding <=> port' = q
    BY DEF PortIsHeld
  <2>1. CASE q = p
    BY <2>1, LifeAssumption DEF PortIsHeld, Holding
  <2>2. CASE q # p
    BY <2>2, LifeAssumption DEF PortIsHeld
  <2> QED
    BY <2>1, <2>2
<1> QED
  BY <1>1, <1>2

LEMMA DaemonKeepsIInv ==
  ASSUME IInv, NEW p \in Pids, DaemonStep(p) \/ Crash(p) \/ Hang(p) \/ Unhang(p)
  PROVE  IInv'
<1> USE DEF IInv, TypeOK
<1>1. CASE CheckPidFile(p)
  <2>1. CASE Exit(p)
    BY <1>1, <2>1, ExitKeeps DEF CheckPidFile
  <2>2. CASE ~Exit(p)
    BY <1>1, <2>2, LifeAssumption
       DEF CheckPidFile, PortIsHeld, Holding, Live, Starting, Alive
  <2> QED
    BY <2>1, <2>2
<1>2. CASE Bind(p)
  <2>1. CASE port # NoPid
    BY <1>2, <2>1, ExitKeeps DEF Bind, BindTaken
  <2>2. CASE port = NoPid
    BY <1>2, <2>2, LifeAssumption DEF Bind, PortIsHeld, Holding, Live, Starting
  <2> QED
    BY <2>1, <2>2
<1>3. CASE WritePidFile(p)
  BY <1>3 DEF WritePidFile, PortIsHeld, Holding, Live
<1>4. CASE InstallHandlers(p)
  BY <1>4 DEF InstallHandlers, PortIsHeld, Holding, Live
<1>5. CASE BeginShutdown(p)
  BY <1>5 DEF BeginShutdown, PortIsHeld, Holding, Live, Ending
<1>6. CASE CloseTransports(p)
  BY <1>6, LifeAssumption DEF CloseTransports, PortIsHeld, Holding, Live, Ending
<1>7. CASE LeaveForGood(p)
  BY <1>7, ExitKeeps DEF LeaveForGood
<1>8. CASE Crash(p)
  BY <1>8, ExitKeeps, LifeAssumption DEF Crash
<1>9. CASE Hang(p) \/ Unhang(p)
  <2>1. faults' \in 0..MaxFaults
    BY <1>9, LifeAssumption DEF Hang, Unhang
  <2>2. hung' \in [Pids -> BOOLEAN]
    BY <1>9 DEF Hang, Unhang
  <2> QED
    BY <1>9, <2>1, <2>2 DEF Hang, Unhang, PortIsHeld
<1> QED
  BY <1>1, <1>2, <1>3, <1>4, <1>5, <1>6, <1>7, <1>8, <1>9 DEF DaemonStep

\* What a controller does with its own record.
LEMMA AfterStopKeeps ==
  ASSUME IInv, NEW a \in Controllers, AfterStop(a)
  PROVE  ctl' \in [Controllers -> Ctl]
BY DEF IInv, TypeOK, AfterStop, Ctl, Idle, Jobs

LEMMA GotoKeeps ==
  ASSUME IInv, NEW a \in Controllers, NEW pc \in {"read", "signal", "await", "remove", "spawn"},
         Goto(a, pc)
  PROVE  ctl' \in [Controllers -> Ctl]
BY DEF IInv, TypeOK, Goto, Ctl

LEMMA ControllerKeepsIInv ==
  ASSUME IInv, NEW a \in Controllers, ControllerStep(a) \/ Spawn(a, TRUE)
  PROVE  IInv'
<1> USE DEF Ctl
<1>1. CASE StopRead(a)
  <2>1. UNCHANGED <<proc, forced, hung, termed, port, pidFile, fails, cooled, commands, faults, overlap>>
    BY <1>1 DEF StopRead
  <2>2. ctl' \in [Controllers -> Ctl]
    <3>1. CASE pidFile = NoPid
      BY <1>1, <3>1, AfterStopKeeps DEF StopRead
    <3>2. CASE pidFile # NoPid
      <4> DEFINE moved == IF Alive(pidFile) THEN "signal" ELSE "remove"
      <4>1. ctl' = [ctl EXCEPT ![a] = [pc |-> moved, job |-> ctl[a].job, rec |-> pidFile]]
        BY <1>1, <3>2 DEF StopRead
      <4>2. moved \in {"signal", "remove"}
        OBVIOUS
      <4> HIDE DEF moved
      <4> QED
        BY <4>1, <4>2 DEF IInv, TypeOK
    <3> QED
      BY <3>1, <3>2
  <2> QED
    BY <2>1, <2>2 DEF IInv, TypeOK, PortIsHeld
<1>2. CASE StopSignal(a)
  <2>1. ctl' \in [Controllers -> Ctl]
    BY <1>2, GotoKeeps DEF StopSignal
  <2>2. UNCHANGED <<pidFile, fails, cooled, commands, faults, overlap>>
    BY <1>2 DEF StopSignal
  <2>3. CASE Exit(ctl[a].rec)
    BY <2>1, <2>2, <2>3, ExitKeeps DEF IInv, TypeOK
  <2>4. CASE ~Exit(ctl[a].rec)
    BY <1>2, <2>1, <2>2, <2>4 DEF StopSignal, IInv, TypeOK, PortIsHeld, procVars
  <2> QED
    BY <2>3, <2>4
<1>3. CASE StopSees(a)
  BY <1>3, GotoKeeps DEF StopSees, IInv, TypeOK, PortIsHeld
<1>4. CASE StopKills(a)
  BY <1>4, GotoKeeps, ExitKeeps DEF StopKills, IInv, TypeOK
<1>5. CASE StopRemove(a)
  BY <1>5, AfterStopKeeps DEF StopRemove, IInv, TypeOK, PortIsHeld
<1>6. ASSUME NEW force \in BOOLEAN, Spawn(a, force) PROVE IInv'
  <2>1. NextPid \in Pids /\ proc[NextPid] = "free"
    BY <1>6 DEF Spawn, NextPid, Fresh
  <2>2. ctl' \in [Controllers -> Ctl]
    BY <1>6 DEF Spawn, IInv, TypeOK, Idle
  <2>3. fails' \in 0..FailThreshold /\ cooled' \in BOOLEAN
    <3>1. CASE a = Watchdog
      <4>1. fails' = 0 /\ cooled' = FALSE
        BY <1>6, <3>1 DEF Spawn
      <4>2. 0 \in 0..FailThreshold
        BY LifeAssumption
      <4> QED
        BY <4>1, <4>2
    <3>2. CASE a # Watchdog
      BY <1>6, <3>2 DEF Spawn, IInv, TypeOK
    <3> QED
      BY <3>1, <3>2
  <2>4. proc' \in [Pids -> Live \cup {"free"}] /\ forced' \in [Pids -> BOOLEAN]
    BY <1>6 DEF Spawn, IInv, TypeOK, Live, Starting
  <2>5. PortIsHeld'
    <3>1. port' = port /\ \A q \in Pids : proc'[q] \in Holding <=> proc[q] \in Holding
      BY <1>6, <2>1 DEF Spawn, IInv, TypeOK, Holding
    <3> QED
      BY <3>1 DEF IInv, PortIsHeld
  <2> QED
    BY <1>6, <2>2, <2>3, <2>4, <2>5 DEF Spawn, IInv, TypeOK
<1> QED
  BY <1>1, <1>2, <1>3, <1>4, <1>5, <1>6 DEF ControllerStep

LEMMA StepIInv == IInv /\ [Next]_vars => IInv'
<1> SUFFICES ASSUME IInv, [Next]_vars PROVE IInv'
  OBVIOUS
<1>1. ASSUME NEW a \in Operators, NEW job \in Jobs, Command(a, job) PROVE IInv'
  <2>1. ctl' \in [Controllers -> Ctl] /\ overlap' \in BOOLEAN
    BY <1>1 DEF Command, IInv, TypeOK, Ctl, Jobs, Busy
  <2>2. commands' \in 0..MaxCommands
    BY <1>1, LifeAssumption DEF Command, IInv, TypeOK
  <2> QED
    BY <1>1, <2>1, <2>2 DEF Command, IInv, TypeOK, PortIsHeld, Ctl
<1>2. CASE Ping
  <2>1. fails' \in 0..FailThreshold
    <3>1. fails' = FailsAfter(Serving)
      BY <1>2 DEF Ping
    <3> QED
      BY <3>1, LifeAssumption DEF FailsAfter, IInv, TypeOK
  <2>2. ctl' \in [Controllers -> Ctl] /\ overlap' \in BOOLEAN
    BY <1>2 DEF Ping, IInv, TypeOK, Ctl, Jobs, Busy
  <2> QED
    BY <1>2, <2>1, <2>2 DEF Ping, IInv, TypeOK, PortIsHeld, Ctl
<1>3. CASE CoolDown
  BY <1>3 DEF CoolDown, IInv, TypeOK, PortIsHeld
<1>4. CASE UNCHANGED vars
  BY <1>4 DEF vars, IInv, TypeOK, PortIsHeld
<1> QED
  BY <1>1, <1>2, <1>3, <1>4, DaemonKeepsIInv, ControllerKeepsIInv DEF Next

\* Every variable keeps its type, for every set of processes and command lines.
THEOREM TypeCorrect == Spec => []TypeOK
<1>1. IInv => TypeOK
  BY DEF IInv
<1> QED
  BY <1>1, InitIInv, StepIInv, PTL DEF Spec

-----------------------------------------------------------------------------
Working(a) == ctl[a].pc # "idle"

\* One command at a time, and one start, which waits for the command to be over.
OneByOne ==
  /\ \A a, b \in Controllers : Working(a) /\ Working(b) => a = b
  /\ \A p, q \in Pids : proc[p] \in Starting /\ proc[q] \in Starting => p = q
  /\ \A a \in Controllers, p \in Pids : Working(a) => proc[p] \notin Starting

\* A daemon ends, or is about to, because a stop waits for it.
EndsAwaited ==
  \A p \in Pids :
    /\ termed[p] => proc[p] # "free"
    /\ termed[p] \/ proc[p] \in Ending =>
         \E a \in Controllers : ctl[a].pc = "await" /\ ctl[a].rec = p

\* A stop aims at the only process there is; when it is done there is none.
AimsWell ==
  \A a \in Controllers, p \in Pids : proc[p] # "free" =>
    /\ ctl[a].pc \in {"signal", "await"} => ctl[a].rec = p
    /\ ctl[a].pc # "remove"
    /\ ctl[a].pc = "spawn" => ctl[a].job = "start"

\* A daemon past its start is the one the PID file names.
Through == {"wiring", "up", "draining"}
Named == \A p \in Pids : proc[p] \in Through => pidFile = p

\* The inductive invariant, with IInv.
Orderly == ~overlap => OneByOne /\ StartsAlone /\ EndsAwaited /\ AimsWell /\ Named

LEMMA InitOrderly == Init => Orderly
BY LifeAssumption DEF Init, Orderly, OneByOne, StartsAlone, EndsAwaited, AimsWell, Named,
   Working, Idle, Starting, Ending, Through

\* A process that ends frees its pid and disturbs nothing.
LEMMA ExitOrderly ==
  ASSUME IInv, Orderly, ~overlap, NEW p \in Pids, Exit(p), ctl' = ctl,
         pidFile' = pidFile \/ proc[p] \in Ending
  PROVE  Orderly'
<1> USE DEF IInv, TypeOK
<1>1. \A q \in Pids : /\ proc'[q] = IF q = p THEN "free" ELSE proc[q]
                      /\ termed'[q] = IF q = p THEN FALSE ELSE termed[q]
  BY DEF Exit
<1>2. OneByOne'
  BY <1>1 DEF Orderly, OneByOne, Working, Starting
<1>3. StartsAlone'
  BY <1>1 DEF Orderly, StartsAlone
<1>4. EndsAwaited'
  <2> SUFFICES ASSUME NEW q \in Pids, termed'[q] \/ proc'[q] \in Ending
               PROVE  proc'[q] # "free" /\ \E a \in Controllers : ctl[a].pc = "await" /\ ctl[a].rec = q
    BY <1>1 DEF EndsAwaited
  <2>1. q # p /\ (termed[q] \/ proc[q] \in Ending)
    BY <1>1 DEF Ending
  <2>2. proc[q] # "free"
    BY <2>1 DEF Orderly, EndsAwaited, Ending
  <2> QED
    BY <1>1, <2>1, <2>2 DEF Orderly, EndsAwaited
<1>5. AimsWell'
  BY <1>1 DEF Orderly, AimsWell
<1>6. Named'
  <2>1. CASE pidFile' = pidFile
    BY <1>1, <2>1 DEF Orderly, Named, Through
  <2>2. CASE proc[p] \in Ending
    <3> PICK a \in Controllers : ctl[a].pc = "await" /\ ctl[a].rec = p
      BY <2>2 DEF Orderly, EndsAwaited
    <3>1. \A q \in Pids : proc[q] # "free" => q = p
      BY DEF Orderly, AimsWell
    <3> QED
      BY <1>1, <3>1 DEF Named, Through
  <2> QED
    BY <2>1, <2>2
<1> QED
  BY <1>2, <1>3, <1>4, <1>5, <1>6 DEF Orderly

LEMMA DaemonOrderly ==
  ASSUME IInv, Orderly, NEW p \in Pids, DaemonStep(p) \/ Crash(p) \/ Hang(p) \/ Unhang(p)
  PROVE  Orderly'
<1> SUFFICES ASSUME ~overlap' PROVE Orderly'
  BY DEF Orderly
<1> USE DEF IInv, TypeOK
<1>1. ctl' = ctl /\ ~overlap
  BY DEF DaemonStep, CheckPidFile, Bind, WritePidFile, InstallHandlers, BeginShutdown,
         CloseTransports, LeaveForGood, Crash, Hang, Unhang
<1>2. OneByOne /\ StartsAlone /\ EndsAwaited /\ AimsWell /\ Named
  BY <1>1 DEF Orderly
<1>3. CASE Exit(p)
  <2>1. pidFile' = pidFile \/ proc[p] \in Ending
    <3>1. ~WritePidFile(p)
      BY <1>3 DEF WritePidFile, Exit
    <3> QED
      BY <3>1 DEF DaemonStep, CheckPidFile, Bind, InstallHandlers, BeginShutdown,
                  CloseTransports, LeaveForGood, Crash, Hang, Unhang, Ending
  <2> QED
    BY <1>1, <1>3, <2>1, ExitOrderly
<1>4. CASE CheckPidFile(p) /\ ~Exit(p)
  <2>1. /\ proc[p] = "check" /\ ~Alive(pidFile) /\ UNCHANGED <<termed, pidFile>>
        /\ \A q \in Pids : proc'[q] = IF q = p THEN "boot" ELSE proc[q]
    BY <1>4 DEF CheckPidFile
  <2>2. \A q \in Pids : proc[q] \notin Ending /\ ~termed[q]
    BY <1>2, <2>1 DEF OneByOne, EndsAwaited, Working, Starting
  <2>3. \A q \in Pids : proc[q] \notin Through
    BY <1>2, <2>1, LifeAssumption DEF Named, Alive, Through
  <2>4. \A q \in Pids : q # p => proc[q] = "free"
    BY <1>2, <2>1, <2>2, <2>3 DEF OneByOne, Live, Starting, Ending, Through
  <2> QED
    BY <1>1, <1>2, <2>1, <2>2, <2>4
       DEF Orderly, OneByOne, StartsAlone, EndsAwaited, AimsWell, Named, Working, Starting,
           Ending, Through
<1>5. CASE Bind(p) /\ ~Exit(p)
  <2>1. /\ proc[p] = "boot" /\ UNCHANGED <<termed, pidFile>>
        /\ \A q \in Pids : proc'[q] = IF q = p THEN "bound" ELSE proc[q]
    BY <1>5 DEF Bind, BindTaken
  <2> QED
    BY <1>1, <1>2, <2>1
       DEF Orderly, OneByOne, StartsAlone, EndsAwaited, AimsWell, Named, Working, Starting,
           Ending, Through
<1>6. CASE WritePidFile(p)
  <2>1. /\ proc[p] = "bound" /\ pidFile' = p /\ termed' = termed
        /\ \A q \in Pids : proc'[q] = IF q = p THEN "wiring" ELSE proc[q]
    BY <1>6 DEF WritePidFile
  <2>2. \A q \in Pids : q # p => proc[q] = "free"
    BY <1>2, <2>1 DEF StartsAlone
  <2>3. \A a \in Controllers : ~Working(a)
    BY <1>2, <2>1 DEF OneByOne, Starting
  <2> QED
    BY <1>1, <1>2, <2>1, <2>2, <2>3
       DEF Orderly, OneByOne, StartsAlone, EndsAwaited, AimsWell, Named, Working, Starting,
           Ending, Through
<1>7. CASE InstallHandlers(p) \/ BeginShutdown(p) \/ CloseTransports(p)
  <2>1. /\ UNCHANGED <<termed, pidFile>>
        /\ proc[p] \in Through /\ proc'[p] \in {"up", "draining", "closed"}
        /\ proc'[p] \in Ending => termed[p] \/ proc[p] \in Ending
        /\ \A q \in Pids \ {p} : proc'[q] = proc[q]
    BY <1>7 DEF InstallHandlers, BeginShutdown, CloseTransports, Through, Ending
  <2> QED
    BY <1>1, <1>2, <2>1
       DEF Orderly, OneByOne, StartsAlone, EndsAwaited, AimsWell, Named, Working, Starting,
           Ending, Through
<1>8. CASE Hang(p) \/ Unhang(p)
  <2>1. UNCHANGED <<proc, termed, pidFile>>
    BY <1>8 DEF Hang, Unhang
  <2> QED
    BY <1>1, <1>2, <2>1
       DEF Orderly, OneByOne, StartsAlone, EndsAwaited, AimsWell, Named, Working
<1> QED
  BY <1>3, <1>4, <1>5, <1>6, <1>7, <1>8 DEF DaemonStep, LeaveForGood, Crash

\* A controller's step that leaves the processes alone keeps Orderly as long as what it
\* goes on to fits what is left of them.
LEMMA WorkOrderly ==
  ASSUME IInv, Orderly, ~overlap, NEW a \in Controllers,
         UNCHANGED <<proc, termed>>, Working(a),
         \A b \in Controllers \ {a} : ctl'[b] = ctl[b],
         ctl[a].pc = "await" => \A p \in Pids : proc[p] = "free",
         \A p \in Pids : proc[p] # "free" =>
           /\ ctl'[a].pc \in {"signal", "await"} => ctl'[a].rec = p
           /\ ctl'[a].pc # "remove"
           /\ ctl'[a].pc = "spawn" => ctl'[a].job = "start"
           /\ pidFile' = pidFile
  PROVE  Orderly'
<1> USE DEF IInv, TypeOK
<1>1. OneByOne /\ StartsAlone /\ EndsAwaited /\ AimsWell /\ Named
  BY DEF Orderly
<1>2. OneByOne'
  BY <1>1 DEF OneByOne, Working
<1>3. StartsAlone'
  BY <1>1 DEF StartsAlone
<1>4. AimsWell'
  BY <1>1 DEF AimsWell
<1>5. Named'
  BY <1>1 DEF Named, Through
<1>6. EndsAwaited'
  <2> SUFFICES ASSUME NEW p \in Pids, termed[p] \/ proc[p] \in Ending
               PROVE  \E b \in Controllers : ctl'[b].pc = "await" /\ ctl'[b].rec = p
    BY <1>1 DEF EndsAwaited
  <2>1. proc[p] # "free"
    BY <1>1 DEF EndsAwaited, Ending
  <2>2. PICK b \in Controllers : ctl[b].pc = "await" /\ ctl[b].rec = p
    BY <1>1 DEF EndsAwaited
  <2>3. b # a
    BY <2>1, <2>2
  <2> QED
    BY <2>2, <2>3
<1> QED
  BY <1>2, <1>3, <1>4, <1>5, <1>6 DEF Orderly

\* With no process left, nothing can be out of order but two commands at a time.
LEMMA NobodyOrderly ==
  ASSUME OneByOne, NEW a \in Controllers, Working(a), \A b \in Controllers \ {a} : ctl'[b] = ctl[b],
         \A p \in Pids : proc'[p] = "free" /\ ~termed'[p]
  PROVE  Orderly'
BY DEF Orderly, OneByOne, StartsAlone, EndsAwaited, AimsWell, Named, Working, Starting, Ending, Through

LEMMA ControllerOrderly ==
  ASSUME IInv, Orderly, NEW a \in Controllers, ControllerStep(a) \/ Spawn(a, TRUE)
  PROVE  Orderly'
<1> SUFFICES ASSUME ~overlap' PROVE Orderly'
  BY DEF Orderly
<1> USE DEF IInv, TypeOK
<1>1. ~overlap
  BY DEF ControllerStep, StopRead, StopSignal, StopSees, StopKills, StopRemove, Spawn
<1>2. OneByOne /\ StartsAlone /\ EndsAwaited /\ AimsWell /\ Named
  BY <1>1 DEF Orderly
<1>3. \A b \in Controllers \ {a} : ctl'[b] = ctl[b]
  BY DEF ControllerStep, StopRead, StopSignal, StopSees, StopKills, StopRemove, Spawn,
         AfterStop, Goto
<1>4. CASE StopRead(a)
  <2>1. ctl[a].pc = "read" /\ Working(a) /\ UNCHANGED <<proc, termed, pidFile>>
    BY <1>4 DEF StopRead, Working
  <2>2. ASSUME NEW p \in Pids, proc[p] # "free" PROVE pidFile = p
    <3>1. proc[p] \notin Starting /\ proc[p] \notin Ending
      BY <1>2, <2>1 DEF OneByOne, EndsAwaited, Working
    <3> QED
      BY <1>2, <2>2, <3>1 DEF Named, Live, Through
  <2>3. CASE pidFile = NoPid
    BY <1>1, <1>3, <1>4, <2>1, <2>2, <2>3, WorkOrderly, LifeAssumption
  <2>4. CASE pidFile # NoPid
    <3>1. /\ ctl'[a].pc = IF Alive(pidFile) THEN "signal" ELSE "remove"
          /\ ctl'[a].rec = pidFile
      BY <1>4, <2>4 DEF StopRead
    <3>2. \A p \in Pids : proc[p] # "free" => Alive(pidFile)
      BY <2>2, <2>4 DEF Alive
    <3> QED
      BY <1>1, <1>3, <2>1, <2>2, <3>1, <3>2, WorkOrderly
  <2> QED
    BY <2>3, <2>4
<1>5. CASE StopSignal(a)
  <2>1. /\ ctl[a].pc = "signal" /\ Working(a) /\ pidFile' = pidFile
        /\ ctl'[a].pc = "await" /\ ctl'[a].rec = ctl[a].rec
    BY <1>5 DEF StopSignal, Working, Goto
  <2>2. \A p \in Pids : proc[p] # "free" => p = ctl[a].rec
    BY <1>2, <2>1 DEF AimsWell
  <2>3. CASE Exit(ctl[a].rec)
    <3>1. \A p \in Pids : proc'[p] = "free" /\ ~termed'[p]
      BY <1>2, <2>2, <2>3 DEF Exit, EndsAwaited
    <3> QED
      BY <1>2, <1>3, <2>1, <3>1, NobodyOrderly
  <2>4. CASE UNCHANGED procVars
    BY <1>1, <1>3, <2>1, <2>2, <2>4, WorkOrderly DEF procVars
  <2>5. CASE proc[ctl[a].rec] = "up" /\ termed' = [termed EXCEPT ![ctl[a].rec] = TRUE] /\ proc' = proc
    <3>1. \A p \in Pids : termed'[p] => termed[p] \/ p = ctl[a].rec
      BY <2>5
    <3>2. \A b \in Controllers : Working(b) => b = a
      BY <1>2, <2>1 DEF OneByOne
    <3>3. \A p \in Pids : termed'[p] \/ proc[p] \in Ending => p = ctl[a].rec /\ proc[p] # "free"
      BY <1>2, <2>2, <2>5, <3>1 DEF EndsAwaited, Ending
    <3>4. EndsAwaited'
      BY <2>1, <2>5, <3>3 DEF EndsAwaited
    <3>5. AimsWell'
      BY <1>2, <1>3, <2>1, <2>2, <2>5 DEF AimsWell
    <3>6. OneByOne' /\ StartsAlone' /\ Named'
      BY <1>2, <1>3, <2>1, <2>5 DEF OneByOne, StartsAlone, Named, Working
    <3> QED
      BY <3>4, <3>5, <3>6 DEF Orderly
  <2> QED
    BY <1>5, <2>3, <2>4, <2>5 DEF StopSignal
<1>6. CASE StopSees(a)
  <2>1. /\ ctl[a].pc = "await" /\ Working(a) /\ UNCHANGED <<proc, termed, pidFile>>
        /\ ~Alive(ctl[a].rec)
    BY <1>6 DEF StopSees, Working
  <2>2. \A p \in Pids : proc[p] = "free"
    BY <1>2, <2>1, LifeAssumption DEF AimsWell, Alive
  <2> QED
    BY <1>1, <1>3, <2>1, <2>2, WorkOrderly
<1>7. CASE StopKills(a)
  <2>1. ctl[a].pc = "await" /\ Working(a) /\ Exit(ctl[a].rec)
    BY <1>7 DEF StopKills, Working
  <2>2. \A p \in Pids : proc[p] # "free" => p = ctl[a].rec
    BY <1>2, <2>1 DEF AimsWell
  <2>3. \A p \in Pids : proc'[p] = "free" /\ ~termed'[p]
    BY <1>2, <2>1, <2>2 DEF Exit, EndsAwaited
  <2> QED
    BY <1>2, <1>3, <2>1, <2>3, NobodyOrderly
<1>8. CASE StopRemove(a)
  <2>1. ctl[a].pc = "remove" /\ Working(a) /\ UNCHANGED <<proc, termed>>
    BY <1>8 DEF StopRemove, Working
  <2>2. \A p \in Pids : proc[p] = "free"
    BY <1>2, <2>1 DEF AimsWell
  <2> QED
    BY <1>1, <1>3, <2>1, <2>2, WorkOrderly
<1>9. ASSUME NEW force \in BOOLEAN, Spawn(a, force) PROVE Orderly'
  <2>1. /\ ctl[a].pc = "spawn" /\ Working(a) /\ ctl'[a].pc = "idle"
        /\ UNCHANGED <<termed, pidFile>>
    BY <1>9 DEF Spawn, Working, Idle
  <2>2. NextPid \in Pids /\ proc[NextPid] = "free"
    BY <1>9 DEF Spawn, NextPid, Fresh
  <2> DEFINE n == NextPid
  <2>3. \A p \in Pids : proc'[p] = IF p = n THEN "check" ELSE proc[p]
    BY <1>9 DEF Spawn
  <2> HIDE DEF n
  <2>4. \A p \in Pids : proc[p] \notin Starting /\ proc[p] \notin Ending /\ ~termed[p]
    BY <1>2, <2>1 DEF OneByOne, EndsAwaited, Working
  <2>5. \A b \in Controllers : ctl'[b].pc = "idle"
    BY <1>2, <1>3, <2>1 DEF OneByOne, Working
  <2>6. OneByOne' /\ AimsWell'
    BY <2>3, <2>4, <2>5 DEF OneByOne, AimsWell, Working, Starting
  <2>7. StartsAlone' /\ EndsAwaited' /\ Named'
    BY <1>2, <2>1, <2>3, <2>4 DEF StartsAlone, EndsAwaited, Named, Starting, Ending, Through
  <2> QED
    BY <2>6, <2>7 DEF Orderly
<1> QED
  BY <1>4, <1>5, <1>6, <1>7, <1>8, <1>9 DEF ControllerStep

\* A command that finds nobody at work begins one.
LEMMA BeginOrderly ==
  ASSUME IInv, Orderly, ~overlap, NEW a \in Controllers, ~Busy(a), ctl[a].pc = "idle",
         UNCHANGED <<proc, termed, pidFile>>,
         \A b \in Controllers \ {a} : ctl'[b] = ctl[b],
         ctl'[a].pc = "read" \/ (ctl'[a].pc = "spawn" /\ ctl'[a].job = "start")
  PROVE  Orderly'
<1>1. OneByOne /\ StartsAlone /\ EndsAwaited /\ AimsWell /\ Named
  BY DEF Orderly
<1>2. /\ \A b \in Controllers : ~Working(b)
      /\ \A p \in Pids : proc[p] \notin Starting /\ proc[p] \notin Ending
  BY DEF Busy, Working
<1>3. \A p \in Pids : ~termed[p]
  BY <1>1, <1>2 DEF EndsAwaited, Working
<1>4. OneByOne' /\ AimsWell'
  BY <1>1, <1>2 DEF OneByOne, AimsWell, Working
<1>5. StartsAlone' /\ EndsAwaited' /\ Named'
  BY <1>1, <1>2, <1>3 DEF StartsAlone, EndsAwaited, Named
<1> QED
  BY <1>4, <1>5 DEF Orderly

LEMMA StepOrderly == IInv /\ Orderly /\ [Next]_vars => Orderly'
<1> SUFFICES ASSUME IInv, Orderly, [Next]_vars PROVE Orderly'
  OBVIOUS
<1> USE DEF IInv, TypeOK
<1>1. ASSUME NEW a \in Operators, NEW job \in Jobs, Command(a, job) PROVE Orderly'
  <2>1. SUFFICES ASSUME ~overlap' PROVE Orderly'
    BY DEF Orderly
  <2>2. ~overlap /\ ~Busy(a) /\ ctl[a].pc = "idle" /\ UNCHANGED <<proc, termed, pidFile>>
    <3>1. overlap' = (overlap \/ Busy(a)) /\ ctl[a] = Idle /\ UNCHANGED <<proc, termed, pidFile>>
      BY <1>1 DEF Command
    <3>2. overlap \/ Busy(a) => overlap'
      BY <3>1
    <3> QED
      BY <2>1, <3>1, <3>2 DEF Idle
  <2>3. /\ a \in Controllers
        /\ ctl'[a].pc = "read" \/ (ctl'[a].pc = "spawn" /\ ctl'[a].job = "start")
        /\ \A b \in Controllers \ {a} : ctl'[b] = ctl[b]
    <3>1. /\ a \in Controllers
          /\ ctl' = [ctl EXCEPT ![a] = [pc |-> IF job = "start" THEN "spawn" ELSE "read",
                                       job |-> job, rec |-> NoPid]]
      BY <1>1 DEF Command, Controllers
    <3>2. ctl'[a].pc = (IF job = "start" THEN "spawn" ELSE "read") /\ ctl'[a].job = job
      BY <3>1
    <3> QED
      BY <3>1, <3>2
  <2> QED
    BY <2>2, <2>3, BeginOrderly
<1>2. CASE Ping
  <2> SUFFICES ASSUME ~overlap' PROVE Orderly'
    BY DEF Orderly
  <2>1. UNCHANGED <<proc, termed, pidFile>> /\ ~overlap
    BY <1>2 DEF Ping
  <2>2. CASE ctl' = ctl
    BY <2>1, <2>2 DEF Orderly, OneByOne, StartsAlone, EndsAwaited, AimsWell, Named, Working
  <2>3. CASE ctl' # ctl
    <3>1. /\ ctl[Watchdog].pc = "idle" /\ ~Busy(Watchdog) /\ Watchdog \in Controllers
          /\ ctl'[Watchdog].pc = "read"
          /\ \A b \in Controllers \ {Watchdog} : ctl'[b] = ctl[b]
      BY <1>2, <2>3 DEF Ping, Idle, Controllers, Busy
    <3> QED
      BY <2>1, <3>1, BeginOrderly
  <2> QED
    BY <2>2, <2>3
<1>3. CASE CoolDown \/ UNCHANGED vars
  BY <1>3 DEF CoolDown, vars, Orderly, OneByOne, StartsAlone, EndsAwaited, AimsWell, Named, Working
<1> QED
  BY <1>1, <1>2, <1>3, DaemonOrderly, ControllerOrderly DEF Next

\* startDaemonForeground lets one process past the port at a time, however starts,
\* --force, stops, crashes and the watchdog race over the PID file; and unless they do
\* race or one is forced, it opens and sweeps the store of no daemon that still lives.
THEOREM OneDaemonAlways == Spec => []OneDaemon
<1>1. IInv /\ Orderly => OneDaemon
  BY DEF IInv, PortIsHeld, Orderly, OneDaemon, OnePastPort, Holding
<1> QED
  BY <1>1, InitIInv, StepIInv, InitOrderly, StepOrderly, PTL DEF Spec

\* As long as commands come one at a time and none is forced, stop, status and restart
\* find the daemon: the PID file names it from the moment it is past its start,
\* whatever crashed or hung meanwhile.
THEOREM FindableAlways == Spec => []Findable
<1>1. Orderly => Findable
  BY DEF Orderly, Named, Through, Findable
<1> QED
  BY <1>1, InitIInv, StepIInv, InitOrderly, StepOrderly, PTL DEF Spec

-----------------------------------------------------------------------------
(* The bricks.  Of a brick nobody met on in this life: one process works on *)
(* it or none, a process that does finds it neither registered nor refused, *)
(* and with a row exactly from its copy's end to its removal's; what waits  *)
(* in the boot's queue has a row and nobody at it.                          *)

Processes == Requests \cup {"boot"}

Alone ==
  \A b \in Bricks \ met :
    /\ \A p, q \in Processes : on[p] = b /\ on[q] = b => p = q
    /\ b \in queue => \A p \in Processes : on[p] # b

InHand ==
  \A b \in Bricks \ met, p \in Processes : on[p] = b =>
    /\ b \notin registry \cup refused
    /\ b \in row <=> await[p] \in {"importing", "building", "removing"}

Listed ==
  \A b \in Bricks \ met :
    /\ b \in queue => b \in row /\ b \notin registry \cup refused
    /\ b \in refused => b \in row
    /\ b \in row \ interrupted => dir[b] = "whole"

BricksInv ==
  Brick!TypeOK /\ Alone /\ InHand /\ Listed /\ Brick!InstalledIsRegistered

LEMMA InitBricksInv == Brick!Init => BricksInv
<1> SUFFICES ASSUME Brick!Init PROVE BricksInv
  OBVIOUS
<1>1. Brick!TypeOK
  BY DEF Brick!Init, Brick!TypeOK, Brick!Awaits, Brick!Processes, Brick!Nothing, Brick!Boot
<1>2. Alone /\ InHand /\ Listed
  BY BricksAssumption DEF Brick!Init, Alone, InHand, Listed, Processes, Brick!Processes,
                          Brick!Nothing, Brick!Boot
<1>3. Brick!InstalledIsRegistered
  BY DEF Brick!Init, Brick!InstalledIsRegistered
<1> QED
  BY <1>1, <1>2, <1>3 DEF BricksInv

\* What a process's step does to who works on what.
LEMMA WorksMoves ==
  ASSUME Brick!TypeOK, NEW p \in Processes, NEW b \in Bricks \cup {"nothing"},
         NEW a \in Brick!Awaits, b = "nothing" <=> a = "idle", Brick!Works(p, b, a)
  PROVE  /\ \A q \in Processes : /\ await'[q] = IF q = p THEN a ELSE await[q]
                                 /\ on'[q] = IF q = p THEN b ELSE on[q]
         /\ await' \in [Processes -> Brick!Awaits]
         /\ on' \in [Processes -> Bricks \cup {"nothing"}]
         /\ \A q \in Processes : on'[q] = "nothing" <=> await'[q] = "idle"
BY DEF Brick!TypeOK, Brick!Works, Brick!Processes, Processes, Brick!Nothing, Brick!Boot

\* A process goes on with its brick, or ends its work on it, and the rest is as
\* the invariant asks for that brick.
LEMMA StepOnBrick ==
  ASSUME BricksInv, NEW p \in Processes, NEW b \in Bricks, on[p] = b,
         NEW a \in Brick!Awaits,
         a # "idle" => Brick!Works(p, b, a),
         a = "idle" => Brick!Works(p, "nothing", a),
         UNCHANGED <<queue, met>>,
         dir' \in [Bricks -> {"absent", "partial", "whole"}],
         row' \subseteq Bricks, registry' \subseteq Bricks, refused' \subseteq Bricks,
         interrupted' \subseteq Bricks,
         \A c \in Bricks \ {b} :
           /\ dir'[c] = dir[c] /\ (c \in row' <=> c \in row)
           /\ (c \in registry' <=> c \in registry) /\ (c \in refused' <=> c \in refused)
           /\ (c \in interrupted' <=> c \in interrupted),
         b \notin met =>
           /\ b \in row' \ interrupted' => dir'[b] = "whole"
           /\ b \in refused' => b \in row'
           /\ a # "idle" => /\ b \notin registry' \cup refused'
                            /\ b \in row' <=> a \in {"importing", "building", "removing"}
           /\ a = "idle" => (b \in registry' <=> b \in row' \ refused')
  PROVE  BricksInv'
<1> DEFINE n == IF a = "idle" THEN "nothing" ELSE b
<1>0. Brick!TypeOK /\ n \in Bricks \cup {"nothing"} /\ (n = "nothing" <=> a = "idle")
      /\ Brick!Works(p, n, a)
  BY BricksAssumption DEF BricksInv
<1>1. /\ \A q \in Processes : /\ await'[q] = IF q = p THEN a ELSE await[q]
                              /\ on'[q] = IF q = p THEN n ELSE on[q]
      /\ await' \in [Processes -> Brick!Awaits]
      /\ on' \in [Processes -> Bricks \cup {"nothing"}]
      /\ \A q \in Processes : on'[q] = "nothing" <=> await'[q] = "idle"
  <2> HIDE DEF n
  <2> QED
    BY <1>0, WorksMoves
<1>2. Brick!TypeOK'
  BY <1>0, <1>1 DEF Brick!TypeOK, Brick!Processes, Processes, Brick!Nothing, Brick!Boot
<1>3. \A c \in Bricks, q \in Processes : on'[q] = c => on[q] = c
  BY <1>1, BricksAssumption
<1>4. Alone'
  BY <1>3 DEF BricksInv, Alone
<1>5. InHand'
  <2> SUFFICES ASSUME NEW c \in Bricks \ met, NEW q \in Processes, on'[q] = c
               PROVE  /\ c \notin registry' \cup refused'
                      /\ c \in row' <=> await'[q] \in {"importing", "building", "removing"}
    BY DEF InHand
  <2>1. CASE c = b
    <3>1. q = p
      BY <1>3, <2>1 DEF BricksInv, Alone
    <3> QED
      BY <1>1, <2>1, <3>1, BricksAssumption
  <2>2. CASE c # b
    <3>1. q # p /\ on[q] = c
      BY <1>1, <1>3, <2>2
    <3> QED
      BY <1>1, <2>2, <3>1 DEF BricksInv, InHand
  <2> QED
    BY <2>1, <2>2
<1>6. Listed'
  <2> SUFFICES ASSUME NEW c \in Bricks \ met
               PROVE  /\ c \in queue => c \in row' /\ c \notin registry' \cup refused'
                      /\ c \in refused' => c \in row'
                      /\ c \in row' \ interrupted' => dir'[c] = "whole"
    BY DEF Listed
  <2>1. CASE c = b
    <3>1. c \notin queue
      BY <2>1 DEF BricksInv, Alone
    <3> QED
      BY <2>1, <3>1
  <2>2. CASE c # b
    BY <2>2 DEF BricksInv, Listed
  <2> QED
    BY <2>1, <2>2
<1>7. Brick!InstalledIsRegistered'
  <2> SUFFICES ASSUME NEW c \in Bricks \ met, c \notin queue,
                      \A q \in Processes : on'[q] # c
               PROVE  /\ c \in registry' <=> c \in row' \ refused'
                      /\ c \in row' \ interrupted' => dir'[c] = "whole"
    BY DEF Brick!InstalledIsRegistered, Brick!WorkedOn, Brick!Processes, Processes, Brick!Boot
  <2>1. CASE c = b
    BY <1>1, <2>1
  <2>2. CASE c # b
    <3>1. \A q \in Processes : on[q] # c
      BY <1>1, <2>2
    <3> QED
      BY <2>2, <3>1 DEF BricksInv, Brick!InstalledIsRegistered, Brick!WorkedOn,
                        Brick!Processes, Processes, Brick!Boot
  <2> QED
    BY <2>1, <2>2
<1> QED
  BY <1>2, <1>4, <1>5, <1>6, <1>7 DEF BricksInv

\* A request begins to work on a brick: alone if nobody did, else they met.
LEMMA BeginOnBrick ==
  ASSUME BricksInv, NEW r \in Requests, NEW b \in Bricks, NEW a \in Brick!Awaits \ {"idle"},
         Brick!Begin(r, b, a), UNCHANGED <<queue, row, interrupted>>,
         dir' \in [Bricks -> {"absent", "partial", "whole"}],
         registry' \subseteq Bricks, refused' \subseteq Bricks,
         \A c \in Bricks \ {b} :
           /\ dir'[c] = dir[c]
           /\ (c \in registry' <=> c \in registry) /\ (c \in refused' <=> c \in refused),
         ~Brick!WorkedOn(b) /\ b \notin met =>
           /\ b \in row \ interrupted => dir'[b] = "whole"
           /\ b \notin registry' \cup refused'
           /\ b \in row <=> a \in {"importing", "building", "removing"}
  PROVE  BricksInv'
<1>0. Brick!TypeOK /\ r \in Processes /\ Brick!Works(r, b, a) /\ await[r] = "idle"
      /\ met' = IF Brick!WorkedOn(b) THEN met \cup {b} ELSE met
  BY DEF BricksInv, Brick!Begin, Processes
<1>1. /\ \A q \in Processes : /\ await'[q] = IF q = r THEN a ELSE await[q]
                              /\ on'[q] = IF q = r THEN b ELSE on[q]
      /\ await' \in [Processes -> Brick!Awaits]
      /\ on' \in [Processes -> Bricks \cup {"nothing"}]
      /\ \A q \in Processes : on'[q] = "nothing" <=> await'[q] = "idle"
  BY <1>0, WorksMoves, BricksAssumption
<1>2. Brick!TypeOK'
  BY <1>0, <1>1 DEF Brick!TypeOK, Brick!Processes, Processes, Brick!Nothing, Brick!Boot
<1>3. b \in met' \/ (b \notin met /\ b \notin queue /\ \A q \in Processes : on[q] # b)
  BY <1>0 DEF Brick!WorkedOn, Brick!Processes, Processes, Brick!Boot
<1>4. \A c \in Bricks \ {b} : c \in met' <=> c \in met
  BY <1>0
<1>5. \A c \in Bricks \ {b}, q \in Processes : on'[q] = c => on[q] = c /\ q # r
  BY <1>1
<1>6. Alone'
  BY <1>1, <1>3, <1>4, <1>5 DEF BricksInv, Alone
<1>7. InHand'
  <2> SUFFICES ASSUME NEW c \in Bricks \ met', NEW q \in Processes, on'[q] = c
               PROVE  /\ c \notin registry' \cup refused'
                      /\ c \in row <=> await'[q] \in {"importing", "building", "removing"}
    BY DEF InHand
  <2>1. CASE c = b
    <3>1. q = r /\ ~Brick!WorkedOn(b) /\ b \notin met
      BY <1>0, <1>1, <1>3, <2>1
    <3> QED
      BY <1>1, <2>1, <3>1
  <2>2. CASE c # b
    BY <1>1, <1>4, <1>5, <2>2 DEF BricksInv, InHand
  <2> QED
    BY <2>1, <2>2
<1>8. Listed'
  <2> SUFFICES ASSUME NEW c \in Bricks \ met'
               PROVE  /\ c \in queue => c \in row /\ c \notin registry' \cup refused'
                      /\ c \in refused' => c \in row
                      /\ c \in row \ interrupted => dir'[c] = "whole"
    BY DEF Listed
  <2>1. CASE c = b
    BY <1>0, <1>3, <2>1
  <2>2. CASE c # b
    BY <1>4, <2>2 DEF BricksInv, Listed
  <2> QED
    BY <2>1, <2>2
<1>9. Brick!InstalledIsRegistered'
  <2> SUFFICES ASSUME NEW c \in Bricks \ met', c \notin queue,
                      \A q \in Processes : on'[q] # c
               PROVE  /\ c \in registry' <=> c \in row \ refused'
                      /\ c \in row \ interrupted => dir'[c] = "whole"
    BY DEF Brick!InstalledIsRegistered, Brick!WorkedOn, Brick!Processes, Processes, Brick!Boot
  <2>1. c # b /\ \A q \in Processes : on[q] # c
    BY <1>0, <1>1, BricksAssumption DEF Brick!TypeOK, Brick!Processes, Processes,
       Brick!Nothing, Brick!Boot
  <2> QED
    BY <1>4, <2>1 DEF BricksInv, Brick!InstalledIsRegistered, Brick!WorkedOn,
                      Brick!Processes, Processes, Brick!Boot
<1> QED
  BY <1>2, <1>6, <1>7, <1>8, <1>9 DEF BricksInv

\* The boot is done with a row, loaded or not, and goes on to another.
LEMMA NextOfQueue ==
  ASSUME BricksInv, NEW b \in Bricks, on["boot"] = b, NEW e \in queue,
         Brick!Works("boot", e, "importing"), queue' = queue \ {e},
         UNCHANGED <<dir, row, interrupted, met>>,
         \/ registry' = registry \cup {b} /\ refused' = refused
         \/ registry' = registry /\ refused' = refused \cup {b},
         await["boot"] \in {"importing", "building"}
  PROVE  BricksInv'
<1> DEFINE boot == "boot"
<1>0. Brick!TypeOK /\ boot \in Processes /\ e \in Bricks /\ "importing" \in Brick!Awaits
  BY DEF BricksInv, Processes, Brick!TypeOK, Brick!Awaits
<1>1. /\ \A q \in Processes : /\ await'[q] = IF q = boot THEN "importing" ELSE await[q]
                              /\ on'[q] = IF q = boot THEN e ELSE on[q]
      /\ await' \in [Processes -> Brick!Awaits]
      /\ on' \in [Processes -> Bricks \cup {"nothing"}]
      /\ \A q \in Processes : on'[q] = "nothing" <=> await'[q] = "idle"
  BY <1>0, WorksMoves, BricksAssumption
<1>2. Brick!TypeOK'
  BY <1>0, <1>1 DEF Brick!TypeOK, Brick!Processes, Processes, Brick!Nothing, Brick!Boot
<1>3. e \notin met => e # b /\ e \in row /\ e \notin registry \cup refused
                      /\ \A q \in Processes : on[q] # e
  BY <1>0 DEF BricksInv, Alone, Listed
<1>4. b \notin met => b \notin queue /\ b \in row /\ b \notin registry \cup refused
                      /\ \A q \in Processes : on[q] = b => q = boot
  BY <1>0 DEF BricksInv, Alone, InHand
<1>5. Alone'
  <2> SUFFICES ASSUME NEW c \in Bricks \ met
               PROVE  /\ \A p, q \in Processes : on'[p] = c /\ on'[q] = c => p = q
                      /\ c \in queue \ {e} => \A p \in Processes : on'[p] # c
    BY DEF Alone
  <2>1. CASE c = e
    BY <1>1, <1>3, <2>1
  <2>2. CASE c # e
    BY <1>1, <2>2 DEF BricksInv, Alone
  <2> QED
    BY <2>1, <2>2
<1>6. InHand'
  <2> SUFFICES ASSUME NEW c \in Bricks \ met, NEW q \in Processes, on'[q] = c
               PROVE  /\ c \notin registry' \cup refused'
                      /\ c \in row <=> await'[q] \in {"importing", "building", "removing"}
    BY DEF InHand
  <2>1. CASE c = e
    BY <1>1, <1>3, <2>1
  <2>2. CASE c # e
    <3>1. q # boot /\ on[q] = c /\ c # b
      BY <1>1, <1>4, <2>2
    <3> QED
      BY <1>1, <3>1 DEF BricksInv, InHand
  <2> QED
    BY <2>1, <2>2
<1>7. Listed'
  BY <1>4 DEF BricksInv, Listed
<1>8. Brick!InstalledIsRegistered'
  <2> SUFFICES ASSUME NEW c \in Bricks \ met, c \notin queue \/ c = e,
                      \A q \in Processes : on'[q] # c
               PROVE  /\ c \in registry' <=> c \in row \ refused'
                      /\ c \in row \ interrupted => dir[c] = "whole"
    BY DEF Brick!InstalledIsRegistered, Brick!WorkedOn, Brick!Processes, Processes, Brick!Boot
  <2>1. c # e /\ c \notin queue
    BY <1>0, <1>1
  <2>2. CASE c = b
    BY <1>4, <2>2 DEF BricksInv, Listed
  <2>3. CASE c # b
    <3>1. \A q \in Processes : on[q] # c
      BY <1>1, <2>3
    <3> QED
      BY <2>1, <2>3, <3>1 DEF BricksInv, Brick!InstalledIsRegistered, Brick!WorkedOn,
                        Brick!Processes, Processes, Brick!Boot
  <2> QED
    BY <2>2, <2>3
<1> QED
  BY <1>2, <1>5, <1>6, <1>7, <1>8 DEF BricksInv

\* The daemon dies and boots: whatever had met, nobody works on it now.
LEMMA RestartKeepsBricks ==
  ASSUME BricksInv, Brick!Restart
  PROVE  BricksInv'
<1> DEFINE Removing == Brick!Removing
<1>0. Brick!TypeOK /\ "boot" \in Processes
  BY DEF BricksInv, Processes
<1>1. /\ row' = row /\ registry' = {} /\ refused' = {} /\ met' = {}
      /\ interrupted' = interrupted \cup Removing \cup met
  BY DEF Brick!Restart
<1>2. PICK d \in [Removing -> {"absent", "partial"}] :
        dir' = [b \in Bricks |-> IF b \in Removing THEN d[b] ELSE dir[b]]
  BY DEF Brick!Restart
<1>3. \/ /\ await' = [p \in Processes |-> "idle"] /\ on' = [p \in Processes |-> "nothing"]
         /\ row = {} /\ queue' = {}
      \/ \E b \in row :
           /\ await' = [p \in Processes |-> IF p = "boot" THEN "importing" ELSE "idle"]
           /\ on' = [p \in Processes |-> IF p = "boot" THEN b ELSE "nothing"]
           /\ queue' = row \ {b}
  BY DEF Brick!Restart, Brick!Processes, Processes, Brick!Nothing, Brick!Boot
<1>4. /\ queue' \subseteq row
      /\ \A p \in Processes : on'[p] = "nothing" \/ (p = "boot" /\ on'[p] \in row \ queue'
                                                    /\ await'[p] = "importing")
      /\ \A b \in row : b \in queue' \/ on'["boot"] = b
  BY <1>0, <1>3
<1>5. Removing \subseteq Bricks
  <2> SUFFICES ASSUME NEW r \in Requests, await[r] = "removing" PROVE on[r] \in Bricks
    BY DEF Brick!Removing
  <2> QED
    BY <1>0 DEF Brick!TypeOK, Brick!Processes, Brick!Nothing, Brick!Boot
<1> HIDE DEF Removing
<1>6. dir' \in [Bricks -> {"absent", "partial", "whole"}]
  BY <1>0, <1>2 DEF Brick!TypeOK
<1>7. Brick!TypeOK'
  <2>1. /\ await' \in [Processes -> Brick!Awaits]
        /\ on' \in [Processes -> Bricks \cup {"nothing"}]
        /\ \A q \in Processes : on'[q] = "nothing" <=> await'[q] = "idle"
    BY <1>0, <1>3, BricksAssumption DEF Brick!TypeOK, Brick!Awaits
  <2> QED
    BY <1>0, <1>1, <1>4, <1>5, <1>6, <2>1
    DEF Brick!TypeOK, Brick!Processes, Processes, Brick!Nothing, Brick!Boot
<1>8. Alone' /\ InHand'
  BY <1>0, <1>1, <1>4, BricksAssumption DEF Alone, InHand, Brick!TypeOK
<1>9. \A b \in row \ interrupted' : dir'[b] = "whole"
  <2> SUFFICES ASSUME NEW b \in row \ interrupted' PROVE dir'[b] = "whole"
    OBVIOUS
  <2>1. b \in Bricks \ met /\ b \notin Removing /\ b \in row \ interrupted
    BY <1>0, <1>1 DEF Brick!TypeOK
  <2> QED
    BY <1>2, <2>1 DEF BricksInv, Listed
<1>10. Listed'
  BY <1>1, <1>4, <1>9 DEF Listed
<1>11. Brick!InstalledIsRegistered'
  <2> SUFFICES ASSUME NEW c \in Bricks, c \notin queue', \A q \in Processes : on'[q] # c
               PROVE  c \notin row
    BY <1>1, <1>9 DEF Brick!InstalledIsRegistered, Brick!WorkedOn, Brick!Processes,
                      Processes, Brick!Boot
  <2> QED
    BY <1>0, <1>4
<1> QED
  BY <1>7, <1>8, <1>10, <1>11 DEF BricksInv

LEMMA StepBricksInv ==
  ASSUME BricksInv, Brick!Next
  PROVE  BricksInv'
<1>0. /\ Brick!TypeOK /\ Requests \subseteq Processes
      /\ {"copying", "undoing", "importing", "building", "removing", "idle"} \subseteq Brick!Awaits
      /\ \A p \in Processes : await[p] # "idle" => on[p] \in Bricks
  BY DEF BricksInv, Processes, Brick!Awaits, Brick!TypeOK, Brick!Processes, Brick!Nothing, Brick!Boot
<1>1. ASSUME NEW r \in Requests, NEW b \in Bricks, Brick!Install(r, b) PROVE BricksInv'
  <2>1. /\ Brick!Begin(r, b, "copying") /\ b \notin row
        /\ dir' = [dir EXCEPT ![b] = "partial"]
        /\ UNCHANGED <<row, registry, queue, refused, interrupted>>
    BY <1>1 DEF Brick!Install
  <2>2. ~Brick!WorkedOn(b) /\ b \notin met => b \notin registry \cup refused
    BY <2>1 DEF BricksInv, Brick!InstalledIsRegistered, Listed
  <2> QED
    BY <1>0, <2>1, <2>2, BeginOnBrick DEF Brick!TypeOK
<1>2. ASSUME NEW r \in Requests, NEW b \in Bricks, Brick!Uninstall(r, b) PROVE BricksInv'
  <2>1. /\ Brick!Begin(r, b, "removing") /\ b \in row
        /\ registry' = registry \ {b} /\ refused' = refused \ {b}
        /\ UNCHANGED <<dir, row, queue, interrupted>>
    BY <1>2 DEF Brick!Uninstall, Brick!Unregister, Brick!disk
  <2>2. b \notin met /\ b \in row \ interrupted => dir[b] = "whole"
    BY DEF BricksInv, Listed
  <2> QED
    BY <1>0, <2>1, <2>2, BeginOnBrick DEF Brick!TypeOK
<1>3. ASSUME NEW r \in Requests, Brick!Copied(r) PROVE BricksInv'
  <2> PICK b \in Bricks : b = on[r]
    BY <1>0, <1>3 DEF Brick!Copied
  <2>1. /\ await[r] = "copying" /\ Brick!Works(r, b, "importing")
        /\ dir' = [dir EXCEPT ![b] = "whole"] /\ row' = row \cup {b}
        /\ interrupted' = interrupted \ {b}
        /\ UNCHANGED <<registry, queue, refused, met>>
    BY <1>3 DEF Brick!Copied, Brick!Goto
  <2>2. b \notin met => b \notin registry \cup refused
    BY <1>0 DEF BricksInv, InHand
  <2> QED
    BY <1>0, <2>1, <2>2, StepOnBrick DEF Brick!TypeOK
<1>4. ASSUME NEW r \in Requests, Brick!CopyFails(r) \/ Brick!Undone(r) PROVE BricksInv'
  <2> PICK b \in Bricks : b = on[r]
    BY <1>0, <1>4 DEF Brick!CopyFails, Brick!Undone
  <2>1. /\ await[r] \in {"copying", "undoing"}
        /\ Brick!Works(r, b, "undoing") \/ Brick!Works(r, "nothing", "idle")
        /\ dir' = dir \/ dir' = [dir EXCEPT ![b] = "absent"]
        /\ UNCHANGED <<row, registry, queue, refused, interrupted, met>>
    BY <1>4 DEF Brick!CopyFails, Brick!Undone, Brick!Goto, Brick!Ends, Brick!Nothing, Brick!disk,
                Brick!history
  <2>2. b \notin met => b \notin registry \cup refused /\ b \notin row
    BY <1>0, <2>1 DEF BricksInv, InHand
  <2>3. CASE Brick!Works(r, b, "undoing")
    BY <1>0, <2>1, <2>2, <2>3, StepOnBrick DEF Brick!TypeOK
  <2>4. CASE Brick!Works(r, "nothing", "idle")
    BY <1>0, <2>1, <2>2, <2>4, StepOnBrick DEF Brick!TypeOK
  <2> QED
    BY <2>1, <2>3, <2>4
<1>5. ASSUME NEW r \in Requests, Brick!Removed(r) PROVE BricksInv'
  <2> PICK b \in Bricks : b = on[r]
    BY <1>0, <1>5 DEF Brick!Removed
  <2>1. /\ await[r] = "removing" /\ Brick!Works(r, "nothing", "idle")
        /\ dir' = dir \/ dir' = [dir EXCEPT ![b] = "absent"]
        /\ row' = row \ {b}
        /\ UNCHANGED <<registry, queue, refused, interrupted, met>>
    BY <1>5 DEF Brick!Removed, Brick!Ends, Brick!Nothing, Brick!history
  <2>2. b \notin met => b \notin registry \cup refused
    BY <1>0 DEF BricksInv, InHand
  <2> QED
    BY <1>0, <2>1, <2>2, StepOnBrick DEF Brick!TypeOK
<1>6. ASSUME NEW p \in Processes, Brick!Import(p) PROVE BricksInv'
  <2> PICK b \in Bricks : b = on[p]
    BY <1>0, <1>6 DEF Brick!Import
  <2>1. /\ await[p] = "importing" /\ Brick!Works(p, b, "building")
        /\ UNCHANGED <<dir, row, registry, queue, refused, interrupted, met>>
    BY <1>6 DEF Brick!Import, Brick!Goto, Brick!disk, Brick!history
  <2>2. b \notin met => b \notin registry \cup refused /\ b \in row
                        /\ (b \notin interrupted => dir[b] = "whole")
    BY <2>1 DEF BricksInv, InHand, Listed
  <2> QED
    BY <1>0, <2>1, <2>2, StepOnBrick DEF Brick!TypeOK
<1>7. ASSUME NEW p \in Processes, Brick!ImportFails(p) \/ Brick!Register(p) PROVE BricksInv'
  <2> PICK b \in Bricks : b = on[p]
    BY <1>0, <1>7 DEF Brick!ImportFails, Brick!Register
  <2>1. /\ await[p] \in {"importing", "building"} /\ Brick!Done(p)
        /\ \/ registry' = registry \cup {b} /\ refused' = refused
           \/ registry' = registry /\ refused' = refused \cup {b}
        /\ UNCHANGED <<dir, row, interrupted, met>>
    BY <1>7 DEF Brick!ImportFails, Brick!Register, Brick!disk, Brick!history
  <2>2. b \notin met => b \notin registry \cup refused /\ b \in row
                        /\ (b \notin interrupted => dir[b] = "whole")
    BY <2>1 DEF BricksInv, InHand, Listed
  <2>3. CASE p = "boot" /\ queue # {}
    <3>1. PICK e \in queue : Brick!Works(p, e, "importing") /\ queue' = queue \ {e}
      BY <2>1, <2>3 DEF Brick!Done, Brick!Boot
    <3> QED
      BY <2>1, <2>3, <3>1, NextOfQueue
  <2>4. CASE ~(p = "boot" /\ queue # {})
    <3>1. Brick!Works(p, "nothing", "idle") /\ queue' = queue
      BY <2>1, <2>4 DEF Brick!Done, Brick!Boot, Brick!Ends, Brick!Nothing
    <3> QED
      BY <1>0, <2>1, <2>2, <3>1, StepOnBrick DEF Brick!TypeOK
  <2> QED
    BY <2>3, <2>4
<1> QED
  BY <1>1, <1>2, <1>3, <1>4, <1>5, <1>6, <1>7, RestartKeepsBricks
  DEF Brick!Next, Brick!Processes, Brick!Boot, Processes

\* Beside the processes of the daemon, in any order with them.
LEMMA DaemonBricks == EitherSpec => []BricksInv
<1>1. EitherInit => BricksInv
  BY InitBricksInv DEF EitherInit
<1>2. BricksInv /\ [EitherNext]_both => BricksInv'
  <2> SUFFICES ASSUME BricksInv, [EitherNext]_both PROVE BricksInv'
    OBVIOUS
  <2>1. CASE Brick!Next
    BY <2>1, StepBricksInv
  <2>2. CASE UNCHANGED bricks
    BY <2>2 DEF bricks, BricksInv, Alone, InHand, Listed, Brick!TypeOK, Brick!InstalledIsRegistered,
                Brick!WorkedOn
  <2> QED
    BY <2>1, <2>2 DEF EitherNext, Lives, Installs, both
<1> QED
  BY <1>1, <1>2, PTL DEF EitherSpec

\* A brick nobody works on is registered exactly if it has a row and its code
\* loaded, and its row stands for a whole directory, for any number of bricks,
\* requests and restarts: what met is excepted until the next boot only.
THEOREM BricksAlwaysAgree == EitherSpec => []InstalledIsRegistered
<1>1. BricksInv => InstalledIsRegistered
  BY DEF BricksInv, InstalledIsRegistered
<1> QED
  BY <1>1, DaemonBricks, PTL

-----------------------------------------------------------------------------
(* The sessions of the HTTP endpoint.  What NothingOutlives says of the     *)
(* traces is inductive with three facts about what cannot meet: a call that *)
(* was not made has no trace, one that was made belongs to a session that   *)
(* was opened, and a sweep that is due finds its session closed.            *)

UnmadeCalls ==
  \A c \in ToolCalls : ~S!Made(c) => c \notin inFlight /\ abandoned[c] = 0

CallsOfOpened == \A c \in ToolCalls : S!Made(c) => at[toolCall[c].of] \in {"open", "closed"}

SweepsOfClosed == \A s \in sweeps : at[s] = "closed"

\* The inductive invariant.
SessionsInv == S!NothingOutlives /\ UnmadeCalls /\ CallsOfOpened /\ SweepsOfClosed

LEMMA InitSessionsInv == S!Init => SessionsInv
BY DEF S!Init, SessionsInv, S!NothingOutlives, S!TypeOK, UnmadeCalls, CallsOfOpened,
       SweepsOfClosed, S!Made, S!InProgress

\* Releasing sessions that are listed, or in progress, and only those.
LEMMA ReleasedKeeps ==
  ASSUME SessionsInv, NEW Q \in SUBSET HttpSessions, S!Released(Q), UNCHANGED <<up, dead, toolCall>>,
         sweeps' \subseteq sweeps \cup Q
  PROVE  SessionsInv'
<1> USE DEF SessionsInv, S!NothingOutlives, S!TypeOK
<1>1. /\ S!TypeOK'
      /\ \A s \in HttpSessions : at'[s] = IF s \in Q THEN "closed" ELSE at[s]
      /\ listed' = listed \ Q /\ keepalive' = keepalive \ Q /\ registered' = registered \ Q
      /\ inFlight' = inFlight \ S!CallsOf(Q)
      /\ \A c \in ToolCalls : abandoned'[c] = IF c \in S!CallsOf(Q) THEN abandoned[c] + 1
                                              ELSE abandoned[c]
  BY DEF S!Released, S!CallsOf
<1>2. UnmadeCalls' /\ CallsOfOpened' /\ SweepsOfClosed'
  BY <1>1 DEF UnmadeCalls, CallsOfOpened, SweepsOfClosed, S!Made, S!CallsOf
<1>3. /\ registered' \subseteq listed' \cup {s \in HttpSessions : at'[s] \in S!InProgress}
      /\ keepalive' = listed'
      /\ \A s \in HttpSessions : at'[s] = "open" <=> s \in listed'
  BY <1>1 DEF S!InProgress
<1>4. ASSUME NEW c \in ToolCalls, S!Made(c)
      PROVE  IF toolCall[c].of \in listed'
             THEN abandoned'[c] = 0 /\ (c \in inFlight' <=> toolCall[c].at # "answered")
             ELSE /\ c \notin inFlight' /\ abandoned'[c] <= 1
                  /\ toolCall[c].at \in {"running", "undelivered"} => abandoned'[c] = 1
  BY <1>1, <1>4 DEF S!CallsOf, S!Made
<1> QED
  BY <1>1, <1>2, <1>3, <1>4 DEF S!Made

LEMMA StepSessionsInv == SessionsInv /\ [S!Next]_S!vars => SessionsInv'
<1> SUFFICES ASSUME SessionsInv, [S!Next]_S!vars PROVE SessionsInv'
  OBVIOUS
<1> USE DEF SessionsInv, S!NothingOutlives, S!TypeOK
<1>1. ASSUME NEW s \in HttpSessions, S!Closed(s), UNCHANGED up PROVE SessionsInv'
  BY <1>1, ReleasedKeeps DEF S!Closed
<1>2. ASSUME NEW s \in HttpSessions, S!Refused(s) \/ S!Delete(s) \/ S!CloseNext(s)
      PROVE  SessionsInv'
  BY <1>1, <1>2 DEF S!Refused, S!Delete, S!CloseNext
<1>3. CASE S!Janitor
  BY <1>3, ReleasedKeeps DEF S!Janitor
<1>4. ASSUME NEW s \in HttpSessions, S!Sweep(s) PROVE SessionsInv'
  <2>1. at[s] = "closed" /\ s \notin listed
    BY <1>4 DEF S!Sweep, SweepsOfClosed
  <2> QED
    BY <1>4, <2>1 DEF S!Sweep, UnmadeCalls, CallsOfOpened, SweepsOfClosed, S!Made, S!InProgress
<1>5. ASSUME NEW s \in HttpSessions, S!SocketDies(s) \/ S!Dropped(s) PROVE SessionsInv'
  BY <1>5 DEF S!SocketDies, S!Dropped, UnmadeCalls, CallsOfOpened, SweepsOfClosed, S!Made
<1>6. ASSUME NEW s \in HttpSessions, S!Initialize(s) \/ S!Connected(s) \/ S!Opens(s)
      PROVE  SessionsInv'
  <2>1. /\ at[s] \in {"none", "connecting", "handling"} /\ s \notin listed
        /\ \A c \in ToolCalls : S!Made(c) => toolCall[c].of # s
    BY <1>6 DEF S!Initialize, S!Connected, S!Opens, CallsOfOpened
  <2>2. /\ \A c \in ToolCalls : S!Made(c) => toolCall[c].of \in HttpSessions
        /\ \A q \in sweeps : q # s /\ q \in HttpSessions
    BY <2>1 DEF S!Made, SweepsOfClosed
  <2>3. UnmadeCalls' /\ CallsOfOpened' /\ SweepsOfClosed'
    BY <1>6, <2>1, <2>2 DEF S!Initialize, S!Connected, S!Opens, UnmadeCalls, CallsOfOpened,
                            SweepsOfClosed, S!Made
  <2>4. CASE S!Initialize(s) \/ S!Connected(s)
    <3>1. S!TypeOK'
      BY <2>4 DEF S!Initialize, S!Connected, S!InProgress
    <3>2. /\ registered' \subseteq listed' \cup {q \in HttpSessions : at'[q] \in S!InProgress}
          /\ \A q \in HttpSessions : at'[q] = "open" <=> q \in listed'
      BY <2>1, <2>4 DEF S!Initialize, S!Connected, S!InProgress
    <3> QED
      BY <2>3, <2>4, <3>1, <3>2 DEF S!Initialize, S!Connected, S!Made
  <2>5. CASE S!Opens(s)
    <3>1. S!TypeOK'
      BY <2>5 DEF S!Opens
    <3>2. /\ registered' \subseteq listed' \cup {q \in HttpSessions : at'[q] \in S!InProgress}
          /\ \A q \in HttpSessions : at'[q] = "open" <=> q \in listed'
      BY <2>1, <2>5 DEF S!Opens
    <3> QED
      BY <2>1, <2>3, <2>5, <3>1, <3>2 DEF S!Opens, S!Made
  <2> QED
    BY <1>6, <2>4, <2>5
<1>7. ASSUME NEW c \in ToolCalls, NEW s \in HttpSessions, S!Call(c, s) PROVE SessionsInv'
  BY <1>7 DEF S!Call, UnmadeCalls, CallsOfOpened, SweepsOfClosed, S!Made
<1>8. ASSUME NEW c \in ToolCalls, S!Delivered(c) \/ S!Cleared(c) \/ S!SendThrows(c)
      PROVE  SessionsInv'
  BY <1>8 DEF S!Delivered, S!Cleared, S!SendThrows, S!Progress, UnmadeCalls, CallsOfOpened,
              SweepsOfClosed, S!Made
<1>9. CASE S!Shutdown \/ S!ServerClosed \/ UNCHANGED S!vars
  BY <1>9 DEF S!Shutdown, S!ServerClosed, S!vars, UnmadeCalls, CallsOfOpened, SweepsOfClosed,
              S!Made
<1> QED
  BY <1>2, <1>3, <1>4, <1>5, <1>6, <1>7, <1>8, <1>9 DEF S!Next

\* What runs beside the sessions leaves their variables alone.
LEMMA ServerSessions ==
  /\ ServerInit => S!Init
  /\ [ServerNext]_all => [S!Next]_S!vars
<1>1. ServerInit => S!Init
  BY DEF ServerInit
<1>2. ServerNext => S!Next \/ UNCHANGED S!vars
  BY DEF ServerNext, Publishes, Checks, Serves, Resumes, sessions, S!vars
<1>3. UNCHANGED all => UNCHANGED S!vars
  BY DEF all, sessions, S!vars
<1> QED
  BY <1>1, <1>2, <1>3

\* For any number of sessions and calls, however DELETE, refusals, the janitor,
\* sweeps and shutdown interleave: nothing of a session outlives it.
THEOREM NothingEverOutlives == ServerSpec => []NothingOutlives
<1>1. SessionsInv => NothingOutlives
  BY DEF SessionsInv, NothingOutlives
<1> QED
  BY <1>1, ServerSessions, InitSessionsInv, StepSessionsInv, PTL DEF ServerSpec

-----------------------------------------------------------------------------
(* The resumable stream.  The buffer holds the newest messages without a    *)
(* gap, so where a replay stands in it tells which message it has come to.  *)
(* What was sent last is behind that one, also when inserts move the front  *)
(* of the buffer under the replay, and all between was passed over.         *)

\* The message before the i-th on the wire, and the last one that was sent.
Before(i) == IF i = 1 THEN cursor ELSE pipe[i - 1]
Tip == IF Len(pipe) = 0 THEN cursor ELSE pipe[Len(pipe)]

StreamTypeOK ==
  /\ newest \in Nat /\ aged \in Nat /\ aged <= newest
  /\ buf \in Seq(Nat) /\ next \in Nat \ {0}
  /\ channel \in {"live", "replaying", "lost"}
  /\ pipe \in Seq(Nat) /\ cursor \in Nat /\ skipped \subseteq Nat

BufferIsRecent ==
  /\ Len(buf) <= newest /\ Len(buf) <= MaxEventsPerStream
  /\ \A i \in 1..Len(buf) : buf[i] = newest - Len(buf) + i

WireRises == \A i \in 1..Len(pipe) : Before(i) < pipe[i]

\* Nothing was sent, or taken, that was not stored.
SentWasStored == cursor <= newest /\ \A i \in 1..Len(pipe) : pipe[i] <= newest

TipIsBehind ==
  /\ Tip <= newest
  /\ channel = "replaying" => Tip <= newest - Len(buf) + next - 1
  /\ channel = "lost" => pipe = <<>>

\* The message a replay has come to.
Reached == newest - Len(buf) + next - 1

\* What the client did not get of what was sent before, or is to be sent no more.
MissedIsSkipped ==
  /\ \A m \in 1..cursor : m \in taken \/ m \in skipped
  /\ \A i \in 1..Len(pipe), m \in Nat : Before(i) < m /\ m < pipe[i] => m \in skipped
  /\ channel = "live" => \A m \in Nat : Tip < m /\ m <= newest => m \in skipped
  /\ channel = "replaying" =>
       \A m \in Nat : Tip < m /\ m <= newest /\ m <= Reached => m \in skipped

\* The inductive invariant.
StreamInv ==
  /\ StreamTypeOK /\ BufferIsRecent /\ WireRises /\ SentWasStored /\ TipIsBehind
  /\ MissedIsSkipped

LEMMA InitStreamInv == R!Init => StreamInv
<1> SUFFICES ASSUME R!Init PROVE StreamInv
  OBVIOUS
<1>1. Len(buf) = 0 /\ Len(pipe) = 0 /\ buf \in Seq(Nat) /\ pipe \in Seq(Nat)
  BY DEF R!Init
<1>2. StreamTypeOK
  <2>1. 0 \in Nat /\ 1 \in Nat \ {0} /\ 0 <= 0
    OBVIOUS
  <2> QED
    BY <1>1, <2>1 DEF R!Init, StreamTypeOK
<1>3. BufferIsRecent /\ WireRises
  BY <1>1, ServerAssumption DEF R!Init, BufferIsRecent, WireRises
<1>4. channel = "live" /\ newest = 0 /\ Tip = 0 /\ taken = {} /\ cursor = 0 /\ 1..0 = {}
  BY <1>1 DEF R!Init, Tip
<1> QED
  BY <1>1, <1>2, <1>3, <1>4 DEF StreamInv, SentWasStored, TipIsBehind, MissedIsSkipped

\* Every set of numbers has a least one.
LEMMA Least ==
  ASSUME NEW T \in SUBSET Nat, T # {}
  PROVE  \E x \in T : \A y \in T : x <= y
<1> DEFINE Below == OpToRel(<, Nat)
<1>1. IsWellFoundedOn(Below, Nat)
  BY NatLessThanWellFounded
<1>2. \A x, y \in Nat : y < x => <<y, x>> \in Below
  BY DEF OpToRel
<1> HIDE DEF Below
<1>3. PICK x \in T : \A y \in T : ~ (<<y, x>> \in Below)
  BY <1>1, WFMin
<1>4. \A y \in T : ~ (y < x)
  BY <1>2, <1>3
<1> QED
  BY <1>3, <1>4

LEMMA StreamInvSuffices == StreamInv => StreamResumes
<1> SUFFICES ASSUME StreamInv PROVE R!StreamResumes
  BY DEF StreamResumes
<1>1. Len(pipe) \in Nat /\ DOMAIN pipe = 1..Len(pipe)
  BY LenProperties DEF StreamInv, StreamTypeOK
<1>2. \A i \in 1..Len(pipe) : R!Ahead[i] = Before(i)
  BY <1>1 DEF R!Ahead, Before
<1>3. ASSUME channel = "live", NEW m \in (cursor + 1)..newest, m \notin R!ToSet(pipe)
      PROVE  m \in skipped
  <2>1. /\ cursor \in Nat /\ newest \in Nat /\ m \in Nat /\ cursor < m /\ m <= newest
        /\ \A i \in 1..Len(pipe) : pipe[i] \in Nat /\ pipe[i] # m
    BY <1>1, <1>3, ElementOfSeq DEF StreamInv, StreamTypeOK, R!ToSet
  <2>2. CASE Tip < m
    BY <1>3, <2>1, <2>2 DEF StreamInv, MissedIsSkipped
  <2>3. CASE ~(Tip < m)
    <3> DEFINE T == {i \in 1..Len(pipe) : m < pipe[i]}
    <3>1. T \in SUBSET Nat /\ T # {}
      BY <1>1, <2>1, <2>3 DEF Tip
    <3> HIDE DEF T
    <3>2. PICK n \in T : \A i \in T : n <= i
      BY <3>1, Least
    <3>3. n \in 1..Len(pipe) /\ m < pipe[n] /\ \A i \in 1..Len(pipe) : i < n => ~(m < pipe[i])
      BY <1>1, <3>2 DEF T
    <3>4. Before(n) < m
      <4>1. CASE n = 1
        BY <2>1, <4>1 DEF Before
      <4>2. CASE n # 1
        <5>1. n - 1 \in 1..Len(pipe) /\ n - 1 < n
          BY <1>1, <3>3, <4>2
        <5> QED
          BY <2>1, <3>3, <4>2, <5>1 DEF Before
      <4> QED
        BY <4>1, <4>2
    <3> QED
      BY <2>1, <3>3, <3>4 DEF StreamInv, MissedIsSkipped
  <2> QED
    BY <2>2, <2>3
<1>4. (1..cursor) \ taken \subseteq skipped
  BY DEF StreamInv, MissedIsSkipped
<1> QED
  BY <1>1, <1>2, <1>3, <1>4 DEF R!StreamResumes, StreamInv, BufferIsRecent, WireRises

\* A message that is sent is after everything that was sent before.
LEMMA Sending ==
  ASSUME StreamInv, NEW x \in Nat, Tip < x, pipe' = Append(pipe, x), UNCHANGED cursor
  PROVE  /\ pipe' \in Seq(Nat) /\ Tip' = x /\ WireRises'
         /\ \A i \in 1..Len(pipe') : pipe'[i] = x \/ (i \in 1..Len(pipe) /\ pipe'[i] = pipe[i])
         /\ (\A m \in Nat : Tip < m /\ m < x => m \in skipped) =>
              \A i \in 1..Len(pipe'), m \in Nat :
                Before(i)' < m /\ m < pipe'[i] => m \in skipped
<1>1. /\ pipe' \in Seq(Nat) /\ Len(pipe) \in Nat /\ Len(pipe') = Len(pipe) + 1
      /\ \A i \in 1..Len(pipe) : pipe'[i] = pipe[i]
      /\ pipe'[Len(pipe) + 1] = x
  BY AppendProperties, LenProperties DEF StreamInv, StreamTypeOK
<1>2. \A i \in 1..Len(pipe) : Before(i)' = Before(i)
  BY <1>1 DEF Before
<1>3. \A i : i = Len(pipe) + 1 => Before(i)' = Tip
  BY <1>1 DEF Before, Tip
<1>4. \A i \in 1..Len(pipe') : i \in 1..Len(pipe) \/ i = Len(pipe) + 1
  BY <1>1
<1>5. Tip' = x
  BY <1>1 DEF Tip
<1> QED
  <2>1. \A i \in 1..Len(pipe') : pipe'[i] = x \/ (i \in 1..Len(pipe) /\ pipe'[i] = pipe[i])
    <3> SUFFICES ASSUME NEW i \in 1..Len(pipe')
                 PROVE  pipe'[i] = x \/ (i \in 1..Len(pipe) /\ pipe'[i] = pipe[i])
      OBVIOUS
    <3>1. CASE i \in 1..Len(pipe)
      BY <1>1, <3>1
    <3>2. CASE i = Len(pipe) + 1
      BY <1>1, <3>2
    <3> QED
      BY <1>4, <3>1, <3>2
  <2>2. \A i \in 1..Len(pipe') : Before(i)' < pipe'[i]
    BY <1>1, <1>2, <1>3, <1>4 DEF WireRises, StreamInv
  <2>3. ASSUME \A m \in Nat : Tip < m /\ m < x => m \in skipped,
               NEW i \in 1..Len(pipe'), NEW m \in Nat, Before(i)' < m, m < pipe'[i]
        PROVE  m \in skipped
    <3>1. CASE i \in 1..Len(pipe)
      BY <1>1, <1>2, <2>3, <3>1 DEF StreamInv, MissedIsSkipped
    <3>2. CASE i = Len(pipe) + 1
      BY <1>1, <1>3, <2>3, <3>2
    <3> QED
      BY <1>4, <3>1, <3>2
  <2> QED
    BY <1>1, <1>5, <2>1, <2>2, <2>3 DEF WireRises

\* prune takes a part of the front away and leaves no more than the bound.
LEMMA Pruned ==
  ASSUME NEW b \in Seq(Nat), aged \in Nat
  PROVE  /\ R!Prune(b) \in Seq(Nat) /\ Len(R!Prune(b)) <= MaxEventsPerStream
         /\ R!Evicted(b) \in 0..Len(b) /\ Len(R!Prune(b)) = Len(b) - R!Evicted(b)
         /\ \A i \in 1..Len(R!Prune(b)) : R!Prune(b)[i] = b[R!Evicted(b) + i]
<1> DEFINE n == Len(b)
           T == {k \in 0..n : R!MayKeep(b, k)}
           e == R!Evicted(b)
<1>1. n \in Nat /\ \A i \in 1..n : b[i] \in Nat
  BY LenProperties, ElementOfSeq
<1>2. n \in T
  BY <1>1, ServerAssumption DEF R!MayKeep
<1>3. PICK x \in T : \A y \in T : x <= y
  <2>1. T \in SUBSET Nat /\ T # {}
    BY <1>1, <1>2
  <2> HIDE DEF T
  <2> QED
    BY <2>1, Least
<1>4. \A j \in 0..x - 1 : ~R!MayKeep(b, j)
  BY <1>1, <1>3
<1>5. e \in 0..n /\ R!MayKeep(b, e)
  BY <1>3, <1>4 DEF R!Evicted
<1> HIDE DEF e, n
<1>6. /\ R!Prune(b) \in Seq(Nat)
      /\ Len(R!Prune(b)) = n - e
      /\ \A i \in 1..(n - e) : R!Prune(b)[i] = b[e + i]
  <2>1. e + 1 \in Int /\ n \in Int /\ \A i \in (e + 1)..n : b[i] \in Nat
    BY <1>1, <1>5
  <2>2. R!Prune(b) = SubSeq(b, e + 1, n)
    BY DEF R!Prune, e, n
  <2> QED
    BY <1>1, <1>5, <2>1, <2>2, SubSeqProperties
<1>7. n - e <= MaxEventsPerStream
  BY <1>5 DEF R!MayKeep, n
<1> QED
  BY <1>1, <1>5, <1>6, <1>7 DEF n, e

\* A message is stored, and sent when the stream is live.
LEMMA StoreKeepsStreamInv ==
  ASSUME StreamInv, R!StoreEvent
  PROVE  StreamInv'
<1> USE DEF StreamInv
<1> DEFINE b == Append(buf, newest + 1)
<1>1. /\ newest' = newest + 1 /\ newest \in Nat /\ buf' = R!Prune(b)
      /\ pipe' = IF channel = "live" THEN Append(pipe, newest + 1) ELSE pipe
      /\ UNCHANGED <<aged, channel, next, taken, cursor>>
  BY DEF R!StoreEvent, StreamTypeOK
<1> PICK k : k = R!Evicted(b)
  OBVIOUS
<1> DEFINE Passed == {b[i] : i \in {j \in DOMAIN b : j < next + k /\ (next <= j \/ j = Len(b))}}
<1>8. skipped' = IF channel = "replaying" THEN skipped \cup Passed ELSE skipped
  BY DEF R!StoreEvent, R!PassedOver
<1>2. /\ b \in Seq(Nat) /\ Len(buf) \in Nat /\ Len(b) = Len(buf) + 1
      /\ \A i \in 1..Len(buf) : b[i] = buf[i]
      /\ b[Len(buf) + 1] = newest + 1
  BY <1>1, AppendProperties, LenProperties DEF StreamTypeOK
<1> HIDE DEF b, Passed
<1>3. \A i \in 1..(Len(buf) + 1) : b[i] = newest - Len(buf) + i
  <2> SUFFICES ASSUME NEW i \in 1..(Len(buf) + 1) PROVE b[i] = newest - Len(buf) + i
    OBVIOUS
  <2>1. CASE i = Len(buf) + 1
    BY <1>1, <1>2, <2>1
  <2>2. CASE i # Len(buf) + 1
    BY <1>1, <1>2, <2>2 DEF BufferIsRecent
  <2> QED
    BY <2>1, <2>2
<1>4. /\ buf' \in Seq(Nat) /\ Len(buf') <= MaxEventsPerStream /\ Len(buf') <= Len(buf) + 1
      /\ k \in Nat /\ Len(buf') = Len(buf) + 1 - k
      /\ \A i \in 1..Len(buf') : buf'[i] = b[k + i]
      /\ Len(buf') \in Nat
  <2>1. aged \in Nat
    BY DEF StreamTypeOK
  <2>2. /\ R!Prune(b) \in Seq(Nat) /\ Len(R!Prune(b)) <= MaxEventsPerStream
        /\ k \in 0..Len(b) /\ Len(R!Prune(b)) = Len(b) - k
        /\ \A i \in 1..Len(R!Prune(b)) : R!Prune(b)[i] = b[k + i]
    BY <1>2, <2>1, Pruned
  <2>3. /\ buf' \in Seq(Nat) /\ Len(buf') <= MaxEventsPerStream
        /\ k \in 0..Len(b) /\ Len(buf') = Len(b) - k
        /\ \A i \in 1..Len(buf') : buf'[i] = b[k + i]
    BY <1>1, <2>2
  <2>4. k \in Nat /\ k \in 0..(Len(buf) + 1) /\ Len(buf') = Len(buf) + 1 - k
    BY <1>2, <2>3
  <2>5. Len(buf') <= Len(buf) + 1 /\ Len(buf') \in Nat
    BY <1>2, <2>4
  <2> QED
    BY <2>3, <2>4, <2>5
<1>5. BufferIsRecent'
  <2>1. Len(buf') <= newest'
    BY <1>1, <1>2, <1>4 DEF BufferIsRecent
  <2>2. ASSUME NEW i \in 1..Len(buf') PROVE buf'[i] = newest' - Len(buf') + i
    <3>1. k + i \in 1..(Len(buf) + 1)
      BY <1>2, <1>4
    <3>2. buf'[i] = b[k + i] /\ b[k + i] = newest - Len(buf) + (k + i)
      BY <1>3, <1>4, <3>1
    <3> QED
      BY <1>1, <1>2, <1>4, <3>1, <3>2
  <2> QED
    BY <1>4, <2>1, <2>2 DEF BufferIsRecent
<1>9. /\ newest \in Nat /\ newest' = newest + 1 /\ k \in Nat /\ next \in Nat /\ next' = next
      /\ Len(buf) \in Nat /\ Len(buf) <= newest /\ Len(buf') = Len(buf) + 1 - k
      /\ Len(buf') \in Nat /\ channel' = channel
  BY <1>1, <1>2, <1>4 DEF StreamTypeOK, BufferIsRecent
<1>6. CASE channel = "live"
  <2>1. newest + 1 \in Nat /\ Tip < newest + 1 /\ Tip \in Nat
    <3>1. Tip \in Nat
      BY LenProperties, ElementOfSeq DEF Tip, StreamTypeOK
    <3> QED
      BY <1>1, <3>1 DEF TipIsBehind
  <2>2. /\ pipe' \in Seq(Nat) /\ Tip' = newest + 1 /\ WireRises'
        /\ (\A m \in Nat : Tip < m /\ m < newest + 1 => m \in skipped) =>
             \A i \in 1..Len(pipe'), m \in Nat :
               Before(i)' < m /\ m < pipe'[i] => m \in skipped
    BY <1>1, <1>6, <2>1, Sending
  <2>3. StreamTypeOK'
    BY <1>1, <1>4, <1>6, <1>8, <2>2 DEF StreamTypeOK
  <2>4. TipIsBehind' /\ SentWasStored'
    <3>1. \A i \in 1..Len(pipe') : pipe'[i] = newest + 1 \/ (i \in 1..Len(pipe) /\ pipe'[i] = pipe[i])
      BY <1>1, <1>6, <2>1, Sending
    <3>2. pipe \in Seq(Nat) /\ cursor \in Nat /\ cursor <= newest
          /\ \A i \in 1..Len(pipe) : pipe[i] \in Nat /\ pipe[i] <= newest
      BY ElementOfSeq DEF StreamTypeOK, SentWasStored
    <3>3. SentWasStored'
      BY <1>1, <3>1, <3>2 DEF SentWasStored
    <3> QED
      BY <1>1, <1>6, <2>2, <3>3 DEF TipIsBehind
  <2>5. MissedIsSkipped'
    <3>1. \A m \in Nat : Tip < m /\ m < newest + 1 => m \in skipped
      BY <1>1, <1>6 DEF MissedIsSkipped
    <3>2. skipped' = skipped
      BY <1>6, <1>8
    <3>3. \A i \in 1..Len(pipe'), m \in Nat : Before(i)' < m /\ m < pipe'[i] => m \in skipped'
      BY <2>2, <3>1, <3>2
    <3> QED
      BY <1>1, <1>6, <2>2, <3>2, <3>3 DEF MissedIsSkipped
  <2> QED
    BY <1>5, <2>2, <2>3, <2>4, <2>5
<1>7. CASE channel # "live"
  <2>1. /\ Tip' = Tip /\ Tip \in Nat /\ WireRises' /\ pipe' = pipe
        /\ \A i \in 1..Len(pipe) : Before(i)' = Before(i)
    BY <1>1, <1>7, LenProperties, ElementOfSeq DEF Tip, Before, StreamTypeOK, WireRises
  <2>2. StreamTypeOK'
    <3>1. Passed \subseteq Nat
      BY <1>2, ElementOfSeq, LenProperties DEF Passed
    <3> QED
      BY <1>1, <1>4, <1>8, <2>1, <3>1 DEF StreamTypeOK
  <2>3. TipIsBehind' /\ SentWasStored'
    <3>1. \A i \in 1..Len(pipe) : pipe[i] \in Nat /\ pipe[i] <= newest
      BY ElementOfSeq DEF StreamTypeOK, SentWasStored
    <3>2. SentWasStored'
      BY <1>1, <2>1, <3>1 DEF SentWasStored, StreamTypeOK
    <3>3. Tip <= newest + 1
          /\ (channel = "replaying" => Tip <= newest + 1 - (Len(buf) + 1 - k) + next - 1)
      <4>1. Tip <= newest /\ (channel = "replaying" => Tip <= newest - Len(buf) + next - 1)
        BY DEF TipIsBehind
      <4>2. \A t, n, l, x, d \in Nat :
              t <= n - l + x - 1 => t <= n + 1 - (l + 1 - d) + x - 1
        OBVIOUS
      <4>3. newest \in Nat /\ Len(buf) \in Nat /\ next \in Nat /\ k \in Nat /\ Tip \in Nat
        BY <1>9, <2>1
      <4>4. channel = "replaying" => Tip <= newest + 1 - (Len(buf) + 1 - k) + next - 1
        BY <4>1, <4>2, <4>3
      <4>5. Tip <= newest + 1
        BY <4>1, <4>3
      <4> QED
        BY <4>4, <4>5
    <3>4. Tip' <= newest' /\ (channel' = "lost" => pipe' = <<>>)
      BY <1>9, <2>1, <3>3 DEF TipIsBehind
    <3>5. channel' = "replaying" => Tip' <= newest' - Len(buf') + next' - 1
      <4>1. newest' - Len(buf') + next' - 1 = newest + 1 - (Len(buf) + 1 - k) + next - 1
        BY <1>9
      <4> QED
        BY <1>9, <2>1, <3>3, <4>1
    <3>6. TipIsBehind'
      BY <3>4, <3>5 DEF TipIsBehind
    <3> QED
      BY <3>2, <3>6
  <2>4. MissedIsSkipped'
    <3>1. ASSUME channel = "replaying", NEW m \in Nat, Tip < m, m <= newest + 1, m <= Reached'
          PROVE  m \in skipped'
      <4>1. /\ Reached' = newest + 1 - Len(buf') + next - 1 /\ next \in Nat
            /\ skipped' = skipped \cup Passed
        BY <1>1, <1>8, <3>1 DEF Reached, StreamTypeOK
      <4>2. CASE m <= newest /\ m <= Reached
        BY <3>1, <4>1, <4>2 DEF MissedIsSkipped
      <4>3. CASE ~(m <= newest /\ m <= Reached)
        <5> DEFINE j == m - newest + Len(buf)
        <5>1. /\ j \in 1..(Len(buf) + 1) /\ j < next + k
              /\ next <= j \/ j = Len(buf) + 1
          <6>1. m \in Nat /\ m <= newest + 1 /\ m <= newest - Len(buf) + k + next - 1
            BY <1>9, <3>1, <4>1
          <6>2. m = newest + 1 \/ m > newest - Len(buf) + next - 1
            BY <1>9, <3>1, <4>3 DEF Reached
          <6>3. j \in Int /\ j = m - newest + Len(buf)
            BY <1>9, <3>1
          <6>4. next >= 1
            BY DEF StreamTypeOK
          <6> HIDE DEF j
          <6>5. j < next + k
            BY <1>9, <6>1, <6>3
          <6>6. j = Len(buf) + 1 \/ j >= next
            <7>1. CASE m = newest + 1
              BY <1>9, <6>3, <7>1
            <7>2. CASE m > newest - Len(buf) + next - 1
              BY <1>9, <6>1, <6>3, <7>2
            <7> QED
              BY <6>2, <7>1, <7>2
          <6>7. j <= Len(buf) + 1 /\ j >= 1
            <7>1. j <= Len(buf) + 1
              BY <1>9, <6>1, <6>3
            <7> QED
              BY <1>9, <6>3, <6>4, <6>6, <7>1
          <6> QED
            BY <1>9, <6>3, <6>5, <6>6, <6>7
        <5>2. DOMAIN b = 1..(Len(buf) + 1) /\ Len(b) = Len(buf) + 1
          BY <1>2, LenProperties
        <5>3. b[j] = m
          BY <1>1, <1>2, <1>3, <5>1
        <5> HIDE DEF j
        <5>4. b[j] \in Passed
          BY <5>1, <5>2 DEF Passed
        <5> QED
          BY <4>1, <5>3, <5>4
      <4> QED
        BY <4>2, <4>3
    <3>2. skipped \subseteq skipped'
      BY <1>8
    <3> QED
      BY <1>1, <1>7, <2>1, <3>1, <3>2 DEF MissedIsSkipped, StreamTypeOK
  <2> QED
    BY <1>5, <2>1, <2>2, <2>3, <2>4
<1> QED
  BY <1>6, <1>7

\* The client takes the first message of the wire.
LEMMA TakingKeepsStreamInv ==
  ASSUME StreamInv, R!ClientTakes
  PROVE  StreamInv'
<1> USE DEF StreamInv
<1>1. /\ pipe # <<>> /\ taken' = taken \cup {Head(pipe)} /\ cursor' = Head(pipe)
      /\ pipe' = Tail(pipe) /\ UNCHANGED <<newest, aged, buf, channel, next, skipped>>
  BY DEF R!ClientTakes
<1>2. /\ pipe' \in Seq(Nat) /\ cursor' \in Nat /\ Len(pipe) \in Nat \ {0}
      /\ Len(pipe') = Len(pipe) - 1 /\ cursor' = pipe[1]
      /\ \A i \in 1..Len(pipe') : pipe'[i] = pipe[i + 1]
  <2>1. pipe \in Seq(Nat) /\ Len(pipe) \in Nat /\ Len(pipe) # 0
    BY <1>1, LenProperties, EmptySeq DEF StreamTypeOK
  <2> QED
    BY <1>1, <2>1, HeadTailProperties
<1>3. \A i \in 1..Len(pipe') : Before(i)' = pipe[i]
  <2> SUFFICES ASSUME NEW i \in 1..Len(pipe') PROVE Before(i)' = pipe[i]
    OBVIOUS
  <2>1. CASE i = 1
    BY <1>2, <2>1 DEF Before
  <2>2. CASE i # 1
    <3>1. i - 1 \in 1..Len(pipe') /\ i = i - 1 + 1
      BY <1>2, <2>2
    <3> QED
      BY <1>2, <2>2, <3>1 DEF Before
  <2> QED
    BY <2>1, <2>2
<1>4. Tip' = Tip
  BY <1>2 DEF Tip
<1>5. WireRises'
  <2>1. \A i \in 1..Len(pipe') : i + 1 \in 1..Len(pipe) /\ Before(i + 1) = pipe[i]
    BY <1>2 DEF Before
  <2>2. \A i \in 1..Len(pipe') : Before(i)' < pipe'[i]
    BY <1>2, <1>3, <2>1 DEF WireRises
  <2> QED
    BY <2>2 DEF WireRises
<1>6. MissedIsSkipped'
  <2>1. ASSUME NEW m \in 1..cursor' PROVE m \in taken' \/ m \in skipped
    <3>1. m \in Nat /\ cursor \in Nat /\ 1 \in 1..Len(pipe) /\ Before(1) = cursor
      BY <1>2 DEF Before, StreamTypeOK
    <3>2. CASE m \in 1..cursor
      BY <1>1, <3>2 DEF MissedIsSkipped
    <3>3. CASE cursor < m /\ m < pipe[1]
      BY <3>1, <3>3 DEF MissedIsSkipped
    <3>4. CASE m = cursor'
      BY <1>1, <3>4
    <3> QED
      BY <1>2, <3>1, <3>2, <3>3, <3>4
  <2>2. ASSUME NEW i \in 1..Len(pipe'), NEW m \in Nat, Before(i)' < m, m < pipe'[i]
        PROVE  m \in skipped
    <3>1. i + 1 \in 1..Len(pipe) /\ i + 1 # 1 /\ (i + 1) - 1 = i
      BY <1>2
    <3>2. pipe'[i] = pipe[i + 1] /\ Before(i)' = pipe[i] /\ Before(i + 1) = pipe[i]
      BY <1>2, <1>3, <3>1 DEF Before
    <3> QED
      BY <2>2, <3>1, <3>2 DEF MissedIsSkipped
  <2>3. Reached' = Reached
    BY <1>1 DEF Reached
  <2> QED
    BY <1>1, <1>4, <2>1, <2>2, <2>3 DEF MissedIsSkipped
<1>7. channel # "lost" /\ SentWasStored'
  BY <1>1, <1>2 DEF TipIsBehind, SentWasStored
<1> QED
  BY <1>1, <1>2, <1>4, <1>5, <1>6, <1>7 DEF StreamTypeOK, BufferIsRecent, TipIsBehind

\* The replay sends the message it stands at, or has come to the end.
LEMMA ReplayKeepsStreamInv ==
  ASSUME StreamInv, R!ReplayNext
  PROVE  StreamInv'
<1> USE DEF StreamInv
<1>1. channel = "replaying" /\ UNCHANGED <<newest, aged, buf, taken, cursor, skipped>>
  BY DEF R!ReplayNext
<1>2. /\ newest \in Nat /\ Len(buf) \in Nat /\ next \in Nat \ {0} /\ Tip \in Nat
      /\ buf' = buf /\ newest' = newest
  BY <1>1, LenProperties, ElementOfSeq DEF StreamTypeOK, Tip
<1>3. CASE next <= Len(buf)
  <2>1. pipe' = Append(pipe, buf[next]) /\ next' = next + 1 /\ channel' = channel
    BY <1>3 DEF R!ReplayNext
  <2>2. buf[next] = newest - Len(buf) + next /\ buf[next] \in Nat /\ buf[next] <= newest
    <3>1. next \in 1..Len(buf)
      BY <1>2, <1>3
    <3> QED
      <4>1. buf[next] = newest - Len(buf) + next
        BY <3>1 DEF BufferIsRecent
      <4>2. buf[next] \in Nat
        BY <3>1, ElementOfSeq DEF StreamTypeOK
      <4> QED
        BY <1>2, <1>3, <4>1, <4>2
  <2>3. Tip < buf[next]
    BY <1>1, <1>2, <2>2 DEF TipIsBehind
  <2>4. /\ pipe' \in Seq(Nat) /\ Tip' = buf[next] /\ WireRises'
        /\ (\A m \in Nat : Tip < m /\ m < buf[next] => m \in skipped) =>
             \A i \in 1..Len(pipe'), m \in Nat :
               Before(i)' < m /\ m < pipe'[i] => m \in skipped
    BY <1>1, <2>1, <2>2, <2>3, Sending
  <2>5. StreamTypeOK' /\ BufferIsRecent'
    BY <1>1, <1>2, <2>1, <2>4 DEF StreamTypeOK, BufferIsRecent
  <2>8. SentWasStored'
    <3>1. \A i \in 1..Len(pipe') : pipe'[i] = buf[next] \/ (i \in 1..Len(pipe) /\ pipe'[i] = pipe[i])
      BY <1>1, <2>1, <2>2, <2>3, Sending
    <3> QED
      BY <1>1, <1>2, <2>2, <3>1 DEF SentWasStored
  <2>6. TipIsBehind'
    BY <1>1, <1>2, <1>3, <2>1, <2>2, <2>4 DEF TipIsBehind
  <2>7. MissedIsSkipped'
    <3>1. Reached = buf[next] - 1 /\ Reached' = buf[next]
      BY <1>2, <2>1, <2>2 DEF Reached
    <3>2. \A m \in Nat : Tip < m /\ m < buf[next] => m \in skipped
      BY <1>1, <1>2, <2>2, <3>1 DEF MissedIsSkipped
    <3>3. \A i \in 1..Len(pipe'), m \in Nat : Before(i)' < m /\ m < pipe'[i] => m \in skipped
      BY <2>4, <3>2
    <3>4. \A m \in Nat : ~(Tip' < m /\ m <= Reached')
      BY <2>2, <2>4, <3>1
    <3> QED
      BY <1>1, <2>1, <3>3, <3>4 DEF MissedIsSkipped
  <2> QED
    BY <2>4, <2>5, <2>6, <2>7, <2>8
<1>4. CASE ~(next <= Len(buf))
  <2>1. pipe' = pipe /\ next' = next /\ channel' = "live"
    BY <1>4 DEF R!ReplayNext
  <2>2. Tip' = Tip /\ WireRises' /\ \A i \in 1..Len(pipe) : Before(i)' = Before(i)
    BY <1>1, <2>1 DEF Tip, Before, WireRises
  <2>3. StreamTypeOK' /\ BufferIsRecent' /\ SentWasStored' /\ TipIsBehind'
    BY <1>1, <2>1, <2>2 DEF StreamTypeOK, BufferIsRecent, SentWasStored, TipIsBehind
  <2>4. MissedIsSkipped'
    <3>1. Reached >= newest
      BY <1>2, <1>4 DEF Reached
    <3>2. \A m \in Nat : Tip < m /\ m <= newest => m \in skipped
      BY <1>1, <1>2, <3>1 DEF MissedIsSkipped, Reached
    <3> QED
      BY <1>1, <2>1, <2>2, <3>2 DEF MissedIsSkipped
  <2> QED
    BY <2>2, <2>3, <2>4
<1> QED
  BY <1>3, <1>4

\* A replay starts behind the message the client took last.
LEMMA ResumingKeepsStreamInv ==
  ASSUME StreamInv, R!ReplayEventsAfter
  PROVE  StreamInv'
<1> USE DEF StreamInv
<1>1. /\ channel = "lost" /\ channel' = "replaying" /\ next' = R!Start(cursor)
      /\ skipped' = (skipped \cap 1..cursor)
                      \cup (IF cursor \in R!ToSet(buf) THEN {} ELSE (cursor + 1)..newest)
      /\ UNCHANGED <<newest, aged, buf, pipe, taken, cursor>>
  BY DEF R!ReplayEventsAfter
<1>2. /\ pipe = <<>> /\ Len(pipe) = 0 /\ Tip = cursor /\ Tip' = cursor
      /\ newest \in Nat /\ cursor \in Nat /\ Len(buf) \in Nat /\ DOMAIN buf = 1..Len(buf)
      /\ cursor <= newest
  BY <1>1, LenProperties DEF TipIsBehind, StreamTypeOK, Tip
<1>3. /\ next' \in Nat \ {0} /\ next' <= Len(buf) + 1
      /\ cursor <= newest - Len(buf) + next' - 1
      /\ cursor \in R!ToSet(buf) => cursor = newest - Len(buf) + next' - 1
  <2>1. CASE cursor \in R!ToSet(buf)
    <3>1. R!Index(cursor) \in 1..Len(buf) /\ buf[R!Index(cursor)] = cursor
      BY <1>2, <2>1 DEF R!ToSet, R!Index
    <3>2. cursor = newest - Len(buf) + R!Index(cursor)
      BY <3>1 DEF BufferIsRecent
    <3>3. next' = R!Index(cursor) + 1
      BY <1>1, <2>1 DEF R!Start
    <3> HIDE DEF R!Index
    <3> QED
      BY <1>2, <3>1, <3>2, <3>3
  <2>2. CASE cursor \notin R!ToSet(buf)
    <3>1. next' = Len(buf) + 1
      BY <1>1, <2>2 DEF R!Start
    <3> QED
      BY <1>2, <2>2, <3>1
  <2> QED
    BY <2>1, <2>2
<1>4. StreamTypeOK' /\ BufferIsRecent' /\ WireRises' /\ SentWasStored' /\ TipIsBehind'
  BY <1>1, <1>2, <1>3 DEF StreamTypeOK, BufferIsRecent, WireRises, SentWasStored, TipIsBehind
<1>5. MissedIsSkipped'
  <2>1. \A m \in 1..cursor : m \in taken \/ m \in skipped'
    BY <1>1 DEF MissedIsSkipped
  <2>2. ASSUME NEW m \in Nat, cursor < m, m <= newest, m <= Reached' PROVE m \in skipped'
    <3>1. cursor \notin R!ToSet(buf)
      BY <1>1, <1>2, <1>3, <2>2 DEF Reached
    <3> QED
      BY <1>1, <1>2, <2>2, <3>1
  <2> QED
    BY <1>1, <1>2, <2>1, <2>2 DEF MissedIsSkipped
<1> QED
  BY <1>4, <1>5

LEMMA StepStreamInv == StreamInv /\ [R!Next]_R!vars => StreamInv'
<1> SUFFICES ASSUME StreamInv, [R!Next]_R!vars PROVE StreamInv'
  OBVIOUS
<1> USE DEF StreamInv
<1>1. CASE R!TimePasses
  BY <1>1 DEF R!TimePasses, StreamTypeOK, BufferIsRecent, WireRises, SentWasStored,
              TipIsBehind, MissedIsSkipped, Reached, Tip, Before
<1>2. CASE R!Breaks
  <2>1. pipe' = <<>> /\ Len(pipe') = 0 /\ pipe' \in Seq(Nat) /\ Tip' = cursor /\ cursor' = cursor
    BY <1>2 DEF R!Breaks, Tip
  <2> QED
    BY <1>2, <2>1 DEF R!Breaks, StreamTypeOK, BufferIsRecent, WireRises, SentWasStored,
                      TipIsBehind, MissedIsSkipped
<1>3. CASE UNCHANGED R!vars
  BY <1>3 DEF R!vars, StreamTypeOK, BufferIsRecent, WireRises, SentWasStored,
              TipIsBehind, MissedIsSkipped, Reached, Tip, Before
<1> QED
  BY <1>1, <1>2, <1>3, StoreKeepsStreamInv, TakingKeepsStreamInv, ReplayKeepsStreamInv,
     ResumingKeepsStreamInv DEF R!Next

LEMMA ServerStream ==
  /\ ServerInit => R!Init
  /\ [ServerNext]_all => [R!Next]_R!vars
<1>1. ServerInit => R!Init
  BY DEF ServerInit
<1>2. ServerNext => R!Next \/ UNCHANGED R!vars
  BY DEF ServerNext, Publishes, Checks, Serves, Resumes, resumption, R!vars
<1>3. UNCHANGED all => UNCHANGED R!vars
  BY DEF all, resumption, R!vars
<1> QED
  BY <1>1, <1>2, <1>3

\* For every bound of the buffer and however many messages, breaks and replays: the
\* client gets no message twice or out of order, and all of them unless an eviction
\* met a replay or its cursor.
THEOREM StreamAlwaysResumes == ServerSpec => []StreamResumes
  BY StreamInvSuffices, ServerStream, InitStreamInv, StepStreamInv, PTL DEF ServerSpec
-----------------------------------------------------------------------------
(* The event hub.  A subscriber is served when every event came, or will    *)
(* come, in exactly the ways it is owed; that is inductive once nothing is  *)
(* on its way that was not published, and once a session that has not       *)
(* subscribed has nothing on its way.                                       *)

Notices == [ev : Nat, by : Publishers \cup {"replay"}]
Subscriptions == [at : {"gone", "open", "subscribed", "dropped", "unsubscribed"},
                  since : Nat, from : Nat, cut : BOOLEAN]
Connections == [on : BOOLEAN, since : Nat, from : Nat, cut : BOOLEAN, sent : SUBSET Nat]

HubTypeOK ==
  /\ made \in Nat /\ made <= MaxEvents /\ stored \subseteq 1 .. made
  /\ pub \in [Publishers -> [ev : Nat, waits : SUBSET Sessions]]
  /\ session \in [Sessions -> Subscriptions]
  /\ stream \in [Streams -> Connections]
  /\ replay \in [Sessions -> SUBSET Nat]
  /\ wire \in [Sessions -> Seq(Notices)]
  /\ got \in [Sessions -> [1 .. MaxEvents -> Nat]]
  /\ last \in [Sessions -> Nat]

\* Nothing that was not published is on its way or was taken.
Past(s) ==
  /\ session[s].from <= made /\ last[s] <= made
  /\ replay[s] \subseteq stored
  /\ \A i \in 1 .. Len(wire[s]) : wire[s][i].ev \in 1 .. made
  /\ \A e \in made + 1 .. MaxEvents : got[s][e] = 0

\* Nothing is on its way to a session that has not subscribed.
Unheard(s) == session[s].at \in {"gone", "open"} => wire[s] = <<>> /\ replay[s] = {}

\* The two halves of EventsArrive.
Served(s) == session[s].at = "subscribed" /\ ~session[s].cut =>
  \A e \in 1 .. made :
    IF e \in H!Owed(session[s]) THEN H!Once(s, e) ELSE H!Ways(s, e) = {}
Heard(k) == stream[k].on /\ ~stream[k].cut =>
  \A e \in H!Owed(stream[k]) : e \in stream[k].sent \/ \E p \in Publishers : pub[p].ev = e

\* The inductive invariant.
HubInv ==
  /\ HubTypeOK
  /\ \A s \in Sessions : Past(s) /\ Unheard(s) /\ Served(s)
  /\ \A k \in Streams : Heard(k)

LEMMA InitHubInv == H!Init => HubInv
<1> SUFFICES ASSUME H!Init PROVE HubInv
  OBVIOUS
<1> USE ServerAssumption DEF H!Init, H!Idle, H!Gone, H!None, H!Silent
<1>1. HubTypeOK
  BY DEF HubTypeOK, Subscriptions, Connections
<1>2. ASSUME NEW s \in Sessions PROVE Past(s) /\ Unheard(s) /\ Served(s)
  BY DEF Past, Unheard, Served
<1>3. ASSUME NEW k \in Streams PROVE Heard(k)
  BY DEF Heard
<1> QED
  BY <1>1, <1>2, <1>3 DEF HubInv

LEMMA HubInvSuffices == HubInv => EventsArrive
BY DEF HubInv, Served, Heard, EventsArrive, H!EventsArrive, H!Subscribers

\* A session whose part of the state a step leaves alone stays served.
LEMMA SessionUntouched ==
  ASSUME HubInv, HubTypeOK', NEW s \in Sessions, UNCHANGED <<made, stored>>,
         wire'[s] = wire[s], replay'[s] = replay[s], got'[s] = got[s], last'[s] = last[s],
         session'[s] = session[s] \/ /\ session'[s].from <= made
                                     /\ session'[s].at \in {"dropped", "unsubscribed"}
  PROVE  Past(s)' /\ Unheard(s)' /\ Served(s)'
<1>1. \A e \in 1 .. made : H!Ways(s, e)' = H!Ways(s, e)
  BY DEF H!Ways, H!OnWire
<1>2. Past(s)' /\ Unheard(s)'
  BY DEF HubInv, Past, Unheard
<1>3. ASSUME session'[s] = session[s] PROVE Served(s)'
  <2>1. H!Owed(session[s])' = H!Owed(session[s])
    BY <1>3 DEF H!Owed
  <2>2. \A e \in 1 .. made : H!Once(s, e)' <=> H!Once(s, e)
    BY <1>1 DEF H!Once
  <2> QED
    BY <1>1, <1>3, <2>1, <2>2 DEF HubInv, Served
<1>4. ASSUME session'[s].at \in {"dropped", "unsubscribed"} PROVE Served(s)'
  BY <1>4 DEF Served
<1> QED
  BY <1>2, <1>3, <1>4

\* A stream stays in the picture as long as no publish returns.
LEMMA StreamUntouched ==
  ASSUME HubInv, NEW k \in Streams, UNCHANGED <<made, stored>>, stream'[k] = stream[k],
         \A p \in Publishers : pub'[p].ev = pub[p].ev
  PROVE  Heard(k)'
BY DEF HubInv, Heard, H!Owed

LEMMA SessionMoves ==
  ASSUME HubTypeOK, NEW s \in Sessions, NEW a \in {"open", "dropped", "unsubscribed"},
         session' = [session EXCEPT ![s].at = a]
  PROVE  session' \in [Sessions -> Subscriptions]
<1>1. session[s] \in Subscriptions
  BY DEF HubTypeOK
<1>2. [session[s] EXCEPT !.at = a] \in Subscriptions
  BY <1>1 DEF Subscriptions
<1>3. session' = [session EXCEPT ![s] = [session[s] EXCEPT !.at = a]]
  OBVIOUS
<1> QED
  BY <1>2, <1>3 DEF HubTypeOK

LEMMA DroppedMoves ==
  ASSUME HubTypeOK, NEW s \in Sessions, H!Dropped(s)
  PROVE  session' \in [Sessions -> Subscriptions]
<1>1. CASE session[s].at = "subscribed"
  BY <1>1, SessionMoves DEF H!Dropped
<1>2. CASE session[s].at # "subscribed"
  <2>1. [session[s] EXCEPT !.at = @] = session[s]
    BY DEF HubTypeOK, Subscriptions
  <2>2. session' = session
    BY <1>2, <2>1 DEF H!Dropped, HubTypeOK
  <2> QED
    BY <2>2 DEF HubTypeOK
<1> QED
  BY <1>1, <1>2

LEMMA PublishKeepsHubInv ==
  ASSUME HubInv, NEW p \in Publishers, NEW kept \in BOOLEAN, H!Publish(p, kept)
  PROVE  HubInv'
<1> USE ServerAssumption DEF HubInv, HubTypeOK, Subscriptions, Connections, H!Publish, H!Sent
<1>1. /\ made' = made + 1 /\ made' \in Nat /\ made' <= MaxEvents /\ made' > 0
      /\ stored \subseteq stored' /\ stored' \subseteq stored \cup {made'}
  OBVIOUS
<1>2. [ev |-> made', by |-> p] \in Notices
  BY <1>1 DEF Notices
<1>3. ASSUME NEW s \in Sessions
      PROVE  wire'[s] = wire[s] \/ wire'[s] = Append(wire[s], [ev |-> made', by |-> p])
  BY <1>1
<1>4. HubTypeOK'
  <2>1. wire' \in [Sessions -> Seq(Notices)]
    BY <1>2, <1>3
  <2>2. pub' \in [Publishers -> [ev : Nat, waits : SUBSET Sessions]]
    BY <1>1 DEF H!Subscribers
  <2> QED
    BY <1>1, <2>1, <2>2
<1>5. ASSUME NEW s \in Sessions PROVE Past(s)' /\ Unheard(s)' /\ Served(s)'
  <2>1. wire[s] \in Seq(Notices) /\ Past(s) /\ Unheard(s) /\ Served(s)
    OBVIOUS
  <2>2. \A i \in 1 .. Len(wire'[s]) : wire'[s][i].ev \in 1 .. made'
    BY <1>1, <1>3, <2>1 DEF Past
  <2>3. Past(s)'
    <3>1. session'[s].from <= made' /\ last'[s] <= made'
      BY <1>1, <2>1 DEF Past
    <3>2. replay'[s] \subseteq stored' /\ \A e \in made' + 1 .. MaxEvents : got'[s][e] = 0
      BY <1>1, <2>1 DEF Past
    <3> QED
      BY <2>2, <3>1, <3>2 DEF Past
  <2>4. Unheard(s)'
    BY <2>1 DEF Unheard, H!Subscribers
  <2>5. ASSUME session[s].at = "subscribed", ~session[s].cut, NEW e \in 1 .. made'
        PROVE  IF e \in H!Owed(session[s])' THEN H!Once(s, e)' ELSE H!Ways(s, e)' = {}
    <3>1. /\ wire'[s] = Append(wire[s], [ev |-> made', by |-> p])
          /\ got'[s] = got[s] /\ replay'[s] = replay[s] /\ session'[s] = session[s]
      BY <2>5 DEF H!Subscribers
    <3>2. /\ Len(wire'[s]) = Len(wire[s]) + 1
          /\ \A i \in 1 .. Len(wire[s]) : wire'[s][i] = wire[s][i]
          /\ wire'[s][Len(wire[s]) + 1].ev = made'
      BY <2>1, <3>1
    <3>3. CASE e = made'
      <4>1. H!OnWire(s, e)' = {Len(wire[s]) + 1}
        BY <1>1, <2>1, <3>2, <3>3 DEF H!OnWire, Past
      <4>2. e \notin replay[s] /\ got[s][e] = 0
        BY <1>1, <2>1, <3>3 DEF Past
      <4>3. 1 .. got'[s][e] = {}
        BY <3>1, <4>2
      <4>4. H!Ways(s, e)' = {<<"wire", Len(wire[s]) + 1>>}
        BY <3>1, <4>1, <4>2, <4>3 DEF H!Ways
      <4>5. e \in H!Owed(session[s])'
        BY <1>1, <2>1, <3>1, <3>3 DEF H!Owed, Past
      <4> QED
        BY <4>4, <4>5 DEF H!Once
    <3>4. CASE e # made'
      <4>1. e \in 1 .. made
        BY <1>1, <3>4
      <4>2. H!OnWire(s, e)' = H!OnWire(s, e)
        BY <1>1, <2>1, <3>2, <3>4 DEF H!OnWire
      <4>3. H!Ways(s, e)' = H!Ways(s, e)
        BY <3>1, <4>2 DEF H!Ways
      <4>4. e \in H!Owed(session[s])' <=> e \in H!Owed(session[s])
        BY <1>1, <3>1, <3>4, <4>1 DEF H!Owed
      <4> QED
        BY <2>1, <2>5, <4>1, <4>3, <4>4 DEF Served, H!Once
    <3> QED
      BY <3>3, <3>4
  <2> QED
    BY <2>3, <2>4, <2>5 DEF Served
<1>6. ASSUME NEW k \in Streams PROVE Heard(k)'
  <2>1. pub'[p].ev = made' /\ \A q \in Publishers : pub[q].ev # 0 => pub'[q].ev = pub[q].ev
    OBVIOUS
  <2>2. \A e \in H!Owed(stream[k])' : e = made' \/ e \in H!Owed(stream[k])
    BY <1>1 DEF H!Owed
  <2>3. \A e \in H!Owed(stream[k]) : e # 0
    BY DEF H!Owed
  <2>4. stream'[k] = stream[k] /\ Heard(k)
    OBVIOUS
  <2> QED
    BY <2>1, <2>2, <2>3, <2>4 DEF Heard
<1> QED
  BY <1>4, <1>5, <1>6

\* What it means that n takes, the places W and the rest Q of a replay hold exactly
\* one way, or none.
OneWay(n, W, Q) ==
  \/ n = 1 /\ W = {} /\ Q = {}
  \/ n = 0 /\ (\E i \in W : W = {i}) /\ Q = {}
  \/ n = 0 /\ W = {} /\ \E x \in Q : Q = {x}
NoWay(n, W, Q) == n = 0 /\ W = {} /\ Q = {}

LEMMA Tally ==
  ASSUME NEW n \in Nat, NEW W, NEW Q, NEW A,
         A = {<<"got", k>> : k \in 1 .. n} \cup {<<"wire", i>> : i \in W}
               \cup {<<"replay", x>> : x \in Q}
  PROVE  /\ A = {} <=> NoWay(n, W, Q)
         /\ (\E w \in A : A = {w}) <=> OneWay(n, W, Q)
<1>1. /\ \A k \in 1 .. n : <<"got", k>> \in A
      /\ \A i \in W : <<"wire", i>> \in A
      /\ \A x \in Q : <<"replay", x>> \in A
  OBVIOUS
<1>2. \A w \in A : \/ \E k \in 1 .. n : w = <<"got", k>>
                   \/ \E i \in W : w = <<"wire", i>>
                   \/ \E x \in Q : w = <<"replay", x>>
  OBVIOUS
<1>3. n # 0 => 1 \in 1 .. n
  OBVIOUS
<1>4. n = 0 => 1 .. n = {}
  OBVIOUS
<1>5. A = {} <=> NoWay(n, W, Q)
  <2>1. A = {} => NoWay(n, W, Q)
    BY <1>1, <1>3 DEF NoWay
  <2>2. NoWay(n, W, Q) => A = {}
    BY <1>2, <1>4 DEF NoWay
  <2> QED
    BY <2>1, <2>2
<1>6. ASSUME NEW w \in A, A = {w} PROVE OneWay(n, W, Q)
  <2>1. CASE \E k \in 1 .. n : w = <<"got", k>>
    <3>1. W = {} /\ Q = {}
      <4> PICK k \in 1 .. n : w = <<"got", k>>
        BY <2>1
      <4>1. \A i \in W : <<"wire", i>> = w
        BY <1>1, <1>6
      <4>2. \A x \in Q : <<"replay", x>> = w
        BY <1>1, <1>6
      <4> QED
        BY <4>1, <4>2
    <3>2. 1 \in 1 .. n /\ w = <<"got", 1>>
      BY <1>1, <1>3, <1>4, <1>6, <2>1
    <3>3. n \notin 2 .. n
      <4> SUFFICES ASSUME n >= 2 PROVE FALSE
        OBVIOUS
      <4>1. <<"got", 2>> \in A
        BY <1>1
      <4>2. <<"got", 2>> = <<"got", 1>>
        BY <1>6, <3>2, <4>1
      <4> QED
        BY <4>2
    <3> QED
      BY <3>1, <3>2, <3>3 DEF OneWay
  <2>2. ASSUME NEW i \in W, w = <<"wire", i>> PROVE OneWay(n, W, Q)
    <3>1. Q = {} /\ \A j \in W : j = i
      BY <1>1, <1>6, <2>2
    <3>2. n = 0
      BY <1>1, <1>3, <1>6, <2>2
    <3> QED
      BY <3>1, <3>2 DEF OneWay
  <2>3. ASSUME NEW x \in Q, w = <<"replay", x>> PROVE OneWay(n, W, Q)
    <3>1. W = {} /\ \A y \in Q : y = x
      BY <1>1, <1>6, <2>3
    <3>2. n = 0
      BY <1>1, <1>3, <1>6, <2>3
    <3> QED
      BY <3>1, <3>2 DEF OneWay
  <2> QED
    BY <1>2, <2>1, <2>2, <2>3
<1>7. ASSUME OneWay(n, W, Q) PROVE \E w \in A : A = {w}
  <2>1. CASE n = 1 /\ W = {} /\ Q = {}
    <3>1. 1 \in 1 .. n /\ \A k \in 1 .. n : k = 1
      BY <2>1
    <3>2. <<"got", 1>> \in A /\ \A w \in A : w = <<"got", 1>>
      BY <1>1, <1>2, <2>1, <3>1
    <3> QED
      BY <3>2
  <2>2. ASSUME n = 0, Q = {}, NEW i \in W, W = {i} PROVE \E w \in A : A = {w}
    <3>1. <<"wire", i>> \in A /\ \A w \in A : w = <<"wire", i>>
      BY <1>1, <1>2, <1>4, <2>2
    <3> QED
      BY <3>1
  <2>3. ASSUME n = 0, W = {}, NEW x \in Q, Q = {x} PROVE \E w \in A : A = {w}
    <3>1. <<"replay", x>> \in A /\ \A w \in A : w = <<"replay", x>>
      BY <1>1, <1>2, <1>4, <2>3
    <3> QED
      BY <3>1
  <2> QED
    BY <1>7, <2>1, <2>2, <2>3 DEF OneWay
<1> QED
  BY <1>5, <1>6, <1>7

\* The ways of an event, now and after a step, in terms of their three parts.
LEMMA WaysTallied ==
  ASSUME NEW s, NEW e, HubTypeOK, s \in Sessions, e \in 1 .. MaxEvents
  PROVE  /\ H!Ways(s, e) = {} <=> NoWay(got[s][e], H!OnWire(s, e), replay[s] \cap {e})
         /\ H!Once(s, e) <=> OneWay(got[s][e], H!OnWire(s, e), replay[s] \cap {e})
<1>1. got[s][e] \in Nat
  BY ServerAssumption DEF HubTypeOK, Subscriptions, Connections
<1> QED
  BY <1>1, Tally DEF H!Ways, H!Once

LEMMA WaysTalliedNext ==
  ASSUME NEW s, NEW e, HubTypeOK', s \in Sessions, e \in 1 .. MaxEvents
  PROVE  /\ H!Ways(s, e)' = {} <=> NoWay(got'[s][e], H!OnWire(s, e)', replay'[s] \cap {e})
         /\ H!Once(s, e)' <=> OneWay(got'[s][e], H!OnWire(s, e)', replay'[s] \cap {e})
<1>1. got'[s][e] \in Nat
  BY ServerAssumption DEF HubTypeOK, Subscriptions, Connections
<1> QED
  BY <1>1, Tally DEF H!Ways, H!Once

\* Taking a notification turns a place on the wire into a time it was taken.
LEMMA TakingServes ==
  ASSUME HubInv, HubTypeOK', NEW s \in Sessions, H!Takes(s)
  PROVE  Past(s)' /\ Unheard(s)' /\ Served(s)'
<1> DEFINE m == wire[s][1]
           n == Len(wire[s])
<1>1. Past(s) /\ Unheard(s) /\ Served(s) /\ HubTypeOK
  BY DEF HubInv
<1>2. /\ wire[s] \in Seq(Notices) /\ wire[s] # <<>>
      /\ wire'[s] = Tail(wire[s]) /\ wire'[s] \in Seq(Notices)
  BY DEF H!Takes, HubInv, HubTypeOK, Subscriptions, Connections
<1>3. /\ n \in Nat /\ n >= 1 /\ Len(wire'[s]) = n - 1
      /\ \A i \in 1 .. n - 1 : wire'[s][i] = wire[s][i + 1]
      /\ Head(wire[s]) = m
  BY <1>2
<1>4. m.ev \in 1 .. made /\ made \in Nat /\ made <= MaxEvents /\ MaxEvents \in Nat
  BY <1>1, <1>3, ServerAssumption DEF Past, HubTypeOK, Subscriptions, Connections
<1>5. /\ \A e \in 1 .. MaxEvents : got'[s][e] = IF e = m.ev THEN got[s][e] + 1 ELSE got[s][e]
      /\ UNCHANGED <<made, stored, session, replay>> /\ last'[s] = m.ev
  <2> HIDE DEF m
  <2> QED
    BY <1>3, <1>4 DEF H!Takes, HubInv, HubTypeOK, Subscriptions, Connections
<1>6. Past(s)'
  <2>1. ASSUME NEW i \in 1 .. Len(wire'[s]) PROVE wire'[s][i].ev \in 1 .. made
    <3>1. i + 1 \in 1 .. Len(wire[s]) /\ wire'[s][i] = wire[s][i + 1]
      BY <1>3
    <3>2. wire[s][i + 1].ev \in 1 .. made
      BY <1>1, <3>1 DEF Past
    <3> QED
      BY <3>1, <3>2
  <2>2. \A e \in made + 1 .. MaxEvents : got'[s][e] = 0
    BY <1>1, <1>4, <1>5 DEF Past
  <2> QED
    BY <1>1, <1>4, <1>5, <2>1, <2>2 DEF Past
<1>7. Unheard(s)'
  BY <1>1, <1>2, <1>5 DEF Unheard
<1>8. ASSUME session[s].at = "subscribed", ~session[s].cut, NEW e \in 1 .. made
      PROVE  IF e \in H!Owed(session[s])' THEN H!Once(s, e)' ELSE H!Ways(s, e)' = {}
  <2> DEFINE W == H!OnWire(s, e)
             N == H!OnWire(s, e)'
             Q == replay[s] \cap {e}
  <2>1. e \in 1 .. MaxEvents /\ got[s][e] \in Nat
    <3>1. made \in Nat /\ made <= MaxEvents /\ MaxEvents \in Nat
      BY <1>4
    <3>2. e \in 1 .. MaxEvents
      BY <1>8, <3>1
    <3>3. got[s] \in [1 .. MaxEvents -> Nat]
      BY <1>1 DEF HubTypeOK
    <3> QED
      BY <3>2, <3>3
  <2>2. IF e \in H!Owed(session[s]) THEN OneWay(got[s][e], W, Q) ELSE NoWay(got[s][e], W, Q)
    BY <1>1, <1>8, <2>1, WaysTallied DEF Served
  <2>3. H!Owed(session[s])' = H!Owed(session[s])
    BY <1>5 DEF H!Owed
  <2>4. SUFFICES IF e \in H!Owed(session[s]) THEN OneWay(got'[s][e], N, Q)
                 ELSE NoWay(got'[s][e], N, Q)
    BY <1>5, <2>1, <2>3, WaysTalliedNext
  <2>5. \A i : i \in W <=> i \in 1 .. n /\ wire[s][i].ev = e
    BY <1>2 DEF H!OnWire
  <2>6. \A i : i \in N <=> i \in 1 .. n - 1 /\ wire[s][i + 1].ev = e
    BY <1>2, <1>3 DEF H!OnWire
  <2> HIDE DEF W, N, Q
  <2>7. CASE e = m.ev
    <3>1. 1 \in W
      BY <1>3, <2>5, <2>7
    <3>2. e \in H!Owed(session[s]) /\ got[s][e] = 0 /\ Q = {} /\ W = {1}
      BY <2>2, <3>1 DEF OneWay, NoWay
    <3>3. N = {}
      <4> SUFFICES ASSUME NEW i \in N PROVE FALSE
        OBVIOUS
      <4>1. i \in 1 .. n - 1 /\ i + 1 \in 1 .. n /\ wire[s][i + 1].ev = e
        BY <1>3, <2>6
      <4>2. i + 1 \in W /\ i + 1 # 1
        BY <2>5, <4>1
      <4> QED
        BY <3>2, <4>2
    <3>4. got'[s][e] = 1
      BY <1>5, <2>1, <2>7, <3>2
    <3> QED
      BY <3>2, <3>3, <3>4 DEF OneWay
  <2>8. CASE e # m.ev
    <3>1. got'[s][e] = got[s][e]
      BY <1>5, <2>1, <2>8
    <3>2. ASSUME NEW i \in W PROVE i \in 2 .. n /\ i - 1 \in N
      <4>1. i \in 1 .. n /\ i # 1 /\ wire[s][i].ev = e
        BY <2>5, <2>8
      <4>2. i - 1 \in 1 .. n - 1 /\ (i - 1) + 1 = i
        BY <1>3, <4>1
      <4>3. wire[s][(i - 1) + 1].ev = e
        BY <4>1, <4>2
      <4>4. i - 1 \in N
        BY <2>6, <4>2, <4>3
      <4> QED
        BY <1>3, <4>1, <4>4
    <3>3. ASSUME NEW i \in N PROVE i \in 1 .. n - 1 /\ i + 1 \in W
      <4>1. i \in 1 .. n - 1 /\ i + 1 \in 1 .. n /\ wire[s][i + 1].ev = e
        BY <1>3, <2>6
      <4> QED
        BY <2>5, <4>1
    <3>4. W = {} => N = {}
      BY <3>3
    <3>5. ASSUME NEW i \in W, W = {i} PROVE N = {i - 1}
      BY <1>3, <3>2, <3>3, <3>5
    <3>6. OneWay(got[s][e], W, Q) => OneWay(got'[s][e], N, Q)
      BY <3>1, <3>4, <3>5 DEF OneWay
    <3>7. NoWay(got[s][e], W, Q) => NoWay(got'[s][e], N, Q)
      BY <3>1, <3>4 DEF NoWay
    <3> QED
      BY <2>2, <3>6, <3>7
  <2> QED
    BY <2>7, <2>8
<1> QED
  BY <1>5, <1>6, <1>7, <1>8 DEF Served

\* What a step of a session disturbs: that session, and no stream.
LEMMA OneSession ==
  ASSUME HubInv, HubTypeOK', NEW s \in Sessions, UNCHANGED <<made, stored, stream>>,
         \A p \in Publishers : pub'[p].ev = pub[p].ev,
         \A r \in Sessions \ {s} :
           /\ session'[r] = session[r] /\ replay'[r] = replay[r] /\ wire'[r] = wire[r]
           /\ got'[r] = got[r] /\ last'[r] = last[r],
         Past(s)' /\ Unheard(s)' /\ Served(s)'
  PROVE  HubInv'
<1>1. ASSUME NEW r \in Sessions \ {s} PROVE Past(r)' /\ Unheard(r)' /\ Served(r)'
  BY SessionUntouched
<1>2. ASSUME NEW k \in Streams PROVE Heard(k)'
  BY StreamUntouched
<1> QED
  BY <1>1, <1>2 DEF HubInv

LEMMA TakingKeepsHubInv ==
  ASSUME HubInv, NEW s \in Sessions, H!Takes(s)
  PROVE  HubInv'
<1>1. /\ wire[s] \in Seq(Notices) /\ wire[s] # <<>>
      /\ Head(wire[s]) = wire[s][1] /\ 1 \in 1 .. Len(wire[s])
      /\ Tail(wire[s]) \in Seq(Notices)
  BY DEF HubInv, HubTypeOK, Subscriptions, Connections, H!Takes
<1>2. Head(wire[s]).ev \in 1 .. made /\ Head(wire[s]).ev \in 1 .. MaxEvents
  BY <1>1, ServerAssumption DEF HubInv, HubTypeOK, Subscriptions, Connections, Past
<1>3. HubTypeOK'
  <2>1. got' \in [Sessions -> [1 .. MaxEvents -> Nat]]
    <3> DEFINE e == Head(wire[s]).ev
    <3>1. got' = [got EXCEPT ![s] = [got[s] EXCEPT ![e] = got[s][e] + 1]]
      BY DEF H!Takes
    <3>2. e \in 1 .. MaxEvents /\ got \in [Sessions -> [1 .. MaxEvents -> Nat]]
      BY <1>2 DEF HubInv, HubTypeOK, Subscriptions, Connections
    <3> HIDE DEF e
    <3>3. got[s] \in [1 .. MaxEvents -> Nat]
      BY <3>2
    <3>4. got[s][e] + 1 \in Nat
      BY <3>2, <3>3
    <3>5. [got[s] EXCEPT ![e] = got[s][e] + 1] \in [1 .. MaxEvents -> Nat]
      BY <3>2, <3>3, <3>4
    <3> QED
      BY <3>1, <3>2, <3>5
  <2>2. last' \in [Sessions -> Nat] /\ wire' \in [Sessions -> Seq(Notices)]
    BY <1>1, <1>2 DEF HubInv, HubTypeOK, Subscriptions, Connections, H!Takes
  <2>3. pub' \in [Publishers -> [ev : Nat, waits : SUBSET Sessions]]
    BY DEF HubInv, HubTypeOK, Subscriptions, Connections, H!Takes
  <2> QED
    BY <2>1, <2>2, <2>3 DEF HubInv, HubTypeOK, Subscriptions, Connections, H!Takes
<1>4. \A p \in Publishers : pub'[p].ev = pub[p].ev
  BY DEF HubInv, HubTypeOK, Subscriptions, Connections, H!Takes
<1>5. \A r \in Sessions \ {s} :
        /\ session'[r] = session[r] /\ replay'[r] = replay[r] /\ wire'[r] = wire[r]
        /\ got'[r] = got[r] /\ last'[r] = last[r]
  BY DEF HubInv, HubTypeOK, Subscriptions, Connections, H!Takes
<1>6. UNCHANGED <<made, stored, stream>>
  BY DEF H!Takes
<1> QED
  BY <1>3, <1>4, <1>5, <1>6, TakingServes, OneSession

\* The rest of a replay loses an event to the wire.
LEMMA ReplayKeepsHubInv ==
  ASSUME HubInv, NEW s \in Sessions, H!ReplayNext(s)
  PROVE  HubInv'
<1> PICK e \in replay[s] :
      /\ wire' = [wire EXCEPT ![s] = Append(@, H!Sent(e, "replay"))]
      /\ replay' = [replay EXCEPT ![s] = @ \ {e}]
  BY DEF H!ReplayNext
<1>1. HubTypeOK /\ Past(s) /\ Unheard(s) /\ Served(s)
  BY DEF HubInv
<1>2. e \in 1 .. made /\ made \in Nat /\ made <= MaxEvents /\ MaxEvents \in Nat
  BY <1>1, ServerAssumption DEF HubTypeOK, Subscriptions, Connections, Past
<1>3. wire[s] \in Seq(Notices) /\ H!Sent(e, "replay") \in Notices
  BY <1>1, <1>2 DEF HubTypeOK, Subscriptions, Connections, Notices, H!Sent
<1> DEFINE n == Len(wire[s])
<1>4. /\ n \in Nat /\ wire'[s] = Append(wire[s], H!Sent(e, "replay"))
      /\ wire'[s] \in Seq(Notices) /\ Len(wire'[s]) = n + 1
      /\ \A i \in 1 .. n : wire'[s][i] = wire[s][i]
      /\ wire'[s][n + 1].ev = e
  BY <1>1, <1>3 DEF HubTypeOK, Subscriptions, Connections, H!Sent
<1>5. replay'[s] = replay[s] \ {e} /\ UNCHANGED <<made, stored, pub, session, got, last, stream>>
  BY <1>1 DEF HubTypeOK, Subscriptions, Connections, H!ReplayNext
<1>6. HubTypeOK'
  <2>1. wire' \in [Sessions -> Seq(Notices)]
    BY <1>1, <1>4 DEF HubTypeOK, Subscriptions, Connections
  <2> QED
    BY <1>1, <1>5, <2>1 DEF HubTypeOK, Subscriptions, Connections
<1>7. \A r \in Sessions \ {s} : replay'[r] = replay[r] /\ wire'[r] = wire[r]
  BY <1>1 DEF HubTypeOK, Subscriptions, Connections
<1>8. Past(s)'
  <2>1. \A i \in 1 .. Len(wire'[s]) : wire'[s][i].ev \in 1 .. made
    BY <1>1, <1>2, <1>4 DEF Past
  <2> QED
    BY <1>1, <1>5, <2>1 DEF Past
<1>9. Unheard(s)'
  BY <1>1, <1>5 DEF Unheard
<1>10. ASSUME session[s].at = "subscribed", ~session[s].cut, NEW x \in 1 .. made
       PROVE  IF x \in H!Owed(session[s])' THEN H!Once(s, x)' ELSE H!Ways(s, x)' = {}
  <2> DEFINE W == H!OnWire(s, x)
             N == H!OnWire(s, x)'
             Q == replay[s] \cap {x}
             T == replay'[s] \cap {x}
  <2>1. x \in 1 .. MaxEvents
    BY <1>2
  <2>2. IF x \in H!Owed(session[s]) THEN OneWay(got[s][x], W, Q) ELSE NoWay(got[s][x], W, Q)
    BY <1>1, <1>10, <2>1, WaysTallied DEF Served
  <2>3. H!Owed(session[s])' = H!Owed(session[s])
    BY <1>5 DEF H!Owed
  <2>4. SUFFICES IF x \in H!Owed(session[s]) THEN OneWay(got[s][x], N, T)
                 ELSE NoWay(got[s][x], N, T)
    BY <1>5, <1>6, <2>1, <2>3, WaysTalliedNext
  <2>5. \A i : i \in W <=> i \in 1 .. n /\ wire[s][i].ev = x
    BY <1>3 DEF H!OnWire
  <2>6. \A i : i \in N <=> i \in 1 .. n + 1 /\ wire'[s][i].ev = x
    BY <1>4 DEF H!OnWire
  <2>7. CASE x = e
    <3>1. e \in Q /\ T = {}
      BY <1>5, <2>7
    <3>2. n + 1 \in N
      BY <1>4, <2>6, <2>7
    <3> HIDE DEF Q, T, W, N
    <3>3. W = {} /\ got[s][x] = 0 /\ x \in H!Owed(session[s])
      BY <2>2, <3>1 DEF OneWay, NoWay
    <3>4. ASSUME NEW i \in N PROVE i = n + 1
      <4>1. i \in 1 .. n + 1 /\ i \notin 1 .. n
        BY <1>4, <2>5, <2>6, <3>3
      <4> QED
        BY <1>4, <4>1
    <3>5. N = {n + 1}
      BY <3>2, <3>4
    <3> QED
      BY <3>1, <3>3, <3>5 DEF OneWay
  <2>8. CASE x # e
    <3>1. T = Q
      BY <1>5, <2>8
    <3> HIDE DEF Q, T, W, N
    <3>2. ASSUME NEW i \in N PROVE i \in W
      <4>1. i \in 1 .. n + 1 /\ wire'[s][i].ev = x /\ i # n + 1
        BY <1>4, <2>6, <2>8
      <4>2. i \in 1 .. n
        BY <1>4, <4>1
      <4> QED
        BY <1>4, <2>5, <4>1, <4>2
    <3>3. ASSUME NEW i \in W PROVE i \in N
      <4>1. i \in 1 .. n /\ wire[s][i].ev = x
        BY <2>5
      <4>2. i \in 1 .. n + 1
        BY <1>4, <4>1
      <4> QED
        BY <1>4, <2>6, <4>1, <4>2
    <3>4. N = W
      BY <3>2, <3>3
    <3> QED
      BY <2>2, <3>1, <3>4
  <2> QED
    BY <2>7, <2>8
<1>11. Served(s)'
  BY <1>5, <1>10 DEF Served
<1> QED
  BY <1>5, <1>6, <1>7, <1>8, <1>9, <1>11, OneSession

\* Subscribing owes the client what came after its cursor, and the page of the replay
\* is all of that unless it was cut.
LEMMA SubscribingKeepsHubInv ==
  ASSUME HubInv, NEW s \in Sessions, NEW resume \in BOOLEAN, H!Subscribe(s, resume)
  PROVE  HubInv'
<1>1. HubTypeOK /\ Past(s) /\ wire[s] = <<>> /\ made \in Nat
  BY DEF HubInv, HubTypeOK, Subscriptions, Connections, Unheard, H!Subscribe
<1>2. H!Position(last[s]) \in Nat
  BY <1>1 DEF HubTypeOK, Subscriptions, Connections, H!Position
<1>3. H!Page(H!After(last[s])) \subseteq stored
  BY DEF H!Page, H!After
<1>4. H!HasMore(H!After(last[s])) \in BOOLEAN
  BY DEF H!HasMore
<1>5. /\ session'[s].at = "subscribed" /\ session'[s].from = made
      /\ session'[s].since = IF resume THEN H!Position(last[s]) ELSE made
      /\ session'[s].cut = (resume /\ H!HasMore(H!After(last[s])))
      /\ replay'[s] = IF resume THEN H!Page(H!After(last[s])) ELSE {}
      /\ got'[s] = [e \in 1 .. MaxEvents |-> 0]
      /\ UNCHANGED <<made, stored, pub, wire, last, stream>>
  BY <1>1 DEF HubTypeOK, Subscriptions, Connections, H!Subscribe, H!None
<1>6. HubTypeOK'
  <2>1. session' \in [Sessions -> Subscriptions]
    BY <1>1, <1>2, <1>4 DEF HubTypeOK, Subscriptions, Connections, H!Subscribe
  <2>2. replay' \in [Sessions -> SUBSET Nat]
    <3>1. stored \subseteq Nat
      BY <1>1 DEF HubTypeOK
    <3>2. H!Page(H!After(last[s])) \in SUBSET Nat
      BY <1>3, <3>1
    <3> QED
      BY <1>1, <3>2 DEF HubTypeOK, Subscriptions, Connections, H!Subscribe
  <2>3. got' \in [Sessions -> [1 .. MaxEvents -> Nat]]
    BY <1>1 DEF HubTypeOK, Subscriptions, Connections, H!Subscribe, H!None
  <2> QED
    BY <1>1, <1>5, <2>1, <2>2, <2>3 DEF HubTypeOK, Subscriptions, Connections
<1>7. \A r \in Sessions \ {s} :
        session'[r] = session[r] /\ replay'[r] = replay[r] /\ got'[r] = got[r]
  BY <1>1 DEF HubTypeOK, Subscriptions, Connections, H!Subscribe
<1>8. Past(s)' /\ Unheard(s)'
  <2>1. \A e \in made + 1 .. MaxEvents : got'[s][e] = 0
    BY <1>1, <1>5, ServerAssumption
  <2>2. replay'[s] \subseteq stored' /\ Len(wire'[s]) = 0
    BY <1>1, <1>3, <1>5
  <2>3. 1 .. Len(wire'[s]) = {}
    BY <2>2
  <2> QED
    BY <1>1, <1>5, <2>1, <2>2, <2>3 DEF Past, Unheard
<1>9. ASSUME ~session'[s].cut, NEW e \in 1 .. made
      PROVE  IF e \in H!Owed(session[s])' THEN H!Once(s, e)' ELSE H!Ways(s, e)' = {}
  <2>1. replay'[s] = IF resume THEN H!After(last[s]) ELSE {}
    BY <1>5, <1>9 DEF H!HasMore
  <2>2. e \in H!Owed(session[s])' <=> e \in replay'[s]
    <3>1. made + 1 .. made = {}
      BY <1>1
    <3>2. \A x \in stored : x \in Nat /\ x <= made
      BY <1>1 DEF HubTypeOK, Subscriptions, Connections
    <3> QED
      BY <1>1, <1>5, <2>1, <3>1, <3>2 DEF H!Owed, H!After
  <2>3. e \in 1 .. MaxEvents
    BY <1>1, ServerAssumption DEF HubTypeOK, Subscriptions, Connections
  <2>4. got'[s][e] = 0 /\ H!OnWire(s, e)' = {}
    BY <1>1, <1>5, <2>3 DEF H!OnWire
  <2>5. CASE e \in replay'[s]
    <3>1. replay'[s] \cap {e} = {e}
      BY <2>5
    <3>2. OneWay(got'[s][e], H!OnWire(s, e)', replay'[s] \cap {e})
      BY <2>4, <3>1 DEF OneWay
    <3> QED
      BY <1>6, <2>2, <2>3, <2>5, <3>2, WaysTalliedNext
  <2>6. CASE e \notin replay'[s]
    <3>1. NoWay(got'[s][e], H!OnWire(s, e)', replay'[s] \cap {e})
      BY <2>4, <2>6 DEF NoWay
    <3> QED
      BY <1>6, <2>2, <2>3, <2>6, <3>1, WaysTalliedNext
  <2> QED
    BY <2>5, <2>6
<1>10. Served(s)'
  BY <1>5, <1>9 DEF Served
<1> QED
  BY <1>5, <1>6, <1>7, <1>8, <1>10, OneSession

\* A session that ends, or has not subscribed, is owed nothing.
LEMMA UnservedKeepsHubInv ==
  ASSUME HubInv, NEW s \in Sessions,
         H!Open(s) \/ H!Unsubscribe(s) \/ H!Close(s) \/ H!ReplayThrows(s)
  PROVE  HubInv'
<1>1. HubTypeOK /\ Past(s) /\ Unheard(s) /\ Served(s) /\ made \in Nat
  BY DEF HubInv, HubTypeOK, Subscriptions, Connections
<1>2. HubTypeOK'
  <2>1. CASE H!Open(s)
    BY <1>1, <2>1, SessionMoves DEF HubTypeOK, Subscriptions, Connections, H!Open
  <2>2. CASE H!Unsubscribe(s)
    BY <1>1, <2>2, SessionMoves DEF HubTypeOK, Subscriptions, Connections, H!Unsubscribe
  <2>3. CASE H!Close(s)
    <3>1. H!None \in [1 .. MaxEvents -> Nat] /\ <<>> \in Seq(Notices) /\ {} \in SUBSET Nat
      BY DEF H!None
    <3> QED
      BY <1>1, <2>3, <3>1 DEF HubTypeOK, Subscriptions, Connections, H!Close, H!Gone
  <2>4. CASE H!ReplayThrows(s)
    <3>1. {} \in SUBSET Nat
      OBVIOUS
    <3>2. replay' \in [Sessions -> SUBSET Nat]
      BY <1>1, <2>4, <3>1 DEF HubTypeOK, Subscriptions, Connections, H!ReplayThrows
    <3>3. session' \in [Sessions -> Subscriptions]
      BY <1>1, <2>4, DroppedMoves DEF H!ReplayThrows
    <3> QED
      BY <1>1, <2>4, <3>2, <3>3 DEF HubTypeOK, Subscriptions, Connections, H!ReplayThrows
  <2> QED
    BY <2>1, <2>2, <2>3, <2>4
<1>3. UNCHANGED <<made, stored, pub, last, stream>>
  BY DEF H!Open, H!Unsubscribe, H!Close, H!ReplayThrows
<1>4. \A r \in Sessions \ {s} :
        /\ session'[r] = session[r] /\ replay'[r] = replay[r] /\ wire'[r] = wire[r]
        /\ got'[r] = got[r]
  BY <1>1 DEF HubTypeOK, Subscriptions, Connections, H!Open, H!Unsubscribe, H!Close, H!ReplayThrows, H!Dropped
<1>5. CASE H!Open(s) \/ H!Unsubscribe(s)
  <2>1. /\ wire' = wire /\ replay' = replay /\ got' = got
        /\ session'[s].from = session[s].from /\ session'[s].at \in {"open", "unsubscribed"}
        /\ session'[s].at = "open" => session[s].at = "gone"
    BY <1>1, <1>5 DEF HubTypeOK, Subscriptions, Connections, H!Open, H!Unsubscribe
  <2>2. Past(s)' /\ Unheard(s)' /\ Served(s)'
    BY <1>1, <1>3, <2>1 DEF Past, Unheard, Served
  <2> QED
    BY <1>2, <1>3, <1>4, <2>2, OneSession
<1>6. CASE H!ReplayThrows(s)
  <2>1. /\ wire' = wire /\ replay'[s] = {} /\ got' = got
        /\ session'[s].from = session[s].from /\ session'[s].at # "subscribed"
        /\ session'[s].at \in {"gone", "open"} => session[s].at = session'[s].at
    BY <1>1, <1>6 DEF HubTypeOK, Subscriptions, Connections, H!ReplayThrows, H!Dropped
  <2>2. Past(s)' /\ Unheard(s)' /\ Served(s)'
    BY <1>1, <1>3, <2>1 DEF Past, Unheard, Served
  <2> QED
    BY <1>2, <1>3, <1>4, <2>2, OneSession
<1>7. CASE H!Close(s)
  <2>1. /\ session'[s] = H!Gone /\ replay'[s] = {} /\ wire'[s] = <<>> /\ Len(wire'[s]) = 0
        /\ got'[s] = [e \in 1 .. MaxEvents |-> 0]
    BY <1>1, <1>7 DEF HubTypeOK, Subscriptions, Connections, H!Close, H!None
  <2>2. 1 .. Len(wire'[s]) = {} /\ \A e \in made + 1 .. MaxEvents : got'[s][e] = 0
    BY <1>1, <2>1, ServerAssumption
  <2>3. Past(s)' /\ Unheard(s)' /\ Served(s)'
    BY <1>1, <1>3, <2>1, <2>2 DEF Past, Unheard, Served, H!Gone
  <2> QED
    BY <1>2, <1>3, <1>4, <2>3, OneSession
<1> QED
  BY <1>5, <1>6, <1>7

\* A delivery that times out drops its subscriber, or touches no session.
LEMMA TimeOutKeepsHubInv ==
  ASSUME HubInv, NEW p \in Publishers, NEW s \in Sessions, H!TimesOut(p, s)
  PROVE  HubInv'
<1>1. HubTypeOK /\ Past(s) /\ Unheard(s) /\ Served(s)
  BY DEF HubInv
<1>2. UNCHANGED <<made, stored, replay, wire, got, last, stream>>
  BY DEF H!TimesOut
<1>3. \/ session' = session
      \/ session' = [session EXCEPT ![s].at = IF @ = "subscribed" THEN "dropped" ELSE @]
  BY DEF H!TimesOut, H!Dropped
<1>4. /\ pub' \in [Publishers -> [ev : Nat, waits : SUBSET Sessions]]
      /\ \A q \in Publishers : pub'[q].ev = pub[q].ev
  BY <1>1 DEF HubTypeOK, Subscriptions, Connections, H!TimesOut
<1>5. HubTypeOK'
  <2>1. session' \in [Sessions -> Subscriptions]
    BY <1>1, <1>3, DroppedMoves DEF HubTypeOK, H!Dropped
  <2> QED
    BY <1>1, <1>2, <1>4, <2>1 DEF HubTypeOK, Subscriptions, Connections
<1>6. \A r \in Sessions \ {s} : session'[r] = session[r]
  BY <1>1, <1>3 DEF HubTypeOK, Subscriptions, Connections
<1>7. \/ session'[s] = session[s]
      \/ session'[s].from = session[s].from /\ session'[s].at = "dropped"
  BY <1>1, <1>3 DEF HubTypeOK, Subscriptions, Connections
<1>8. Past(s)' /\ Unheard(s)' /\ Served(s)'
  BY <1>1, <1>2, <1>5, <1>7, SessionUntouched DEF Past
<1> QED
  BY <1>2, <1>4, <1>5, <1>6, <1>8, OneSession

\* The streams that listen hear an event the moment its publish returns; a stream that
\* connects reads the history in the same step.
LEMMA StreamsKeepHubInv ==
  ASSUME HubInv,
         \/ \E p \in Publishers : H!RawListeners(p)
         \/ \E k \in Streams : H!Disconnect(k) \/ \E id \in 0 .. MaxEvents : H!Connect(k, id)
  PROVE  HubInv'
<1>1. HubTypeOK
  BY DEF HubInv
<1>2. UNCHANGED <<made, stored, session, replay, wire, got, last>>
  BY DEF H!RawListeners, H!Disconnect, H!Connect
<1>3. SUFFICES HubTypeOK' /\ \A k \in Streams : Heard(k)'
  BY <1>2, SessionUntouched DEF HubInv
<1>4. ASSUME NEW p \in Publishers, H!RawListeners(p)
      PROVE  HubTypeOK' /\ \A k \in Streams : Heard(k)'
  <2>1. /\ pub'[p].ev = 0 /\ \A q \in Publishers \ {p} : pub'[q] = pub[q]
        /\ pub' \in [Publishers -> [ev : Nat, waits : SUBSET Sessions]]
    BY <1>1, <1>4 DEF HubTypeOK, Subscriptions, Connections, H!RawListeners, H!Idle
  <2>2. \A k \in Streams :
          stream'[k] = IF stream[k].on
                       THEN [stream[k] EXCEPT !.sent = @ \cup {pub[p].ev}] ELSE stream[k]
    BY <1>4 DEF H!RawListeners
  <2>3. HubTypeOK'
    <3>1. pub[p].ev \in Nat
      BY <1>1 DEF HubTypeOK, Subscriptions, Connections
    <3>2. ASSUME NEW k \in Streams
          PROVE  stream'[k] \in Connections
      <4>1. stream[k] \in Connections /\ stream[k].sent \cup {pub[p].ev} \in SUBSET Nat
        BY <1>1, <3>1 DEF HubTypeOK, Connections
      <4>2. [stream[k] EXCEPT !.sent = @ \cup {pub[p].ev}] \in Connections
        BY <4>1 DEF Connections
      <4> QED
        BY <2>2, <4>1, <4>2
    <3>3. stream' = [k \in Streams |-> stream'[k]]
      BY <1>4 DEF H!RawListeners
    <3>4. stream' \in [Streams -> Connections]
      BY <3>2, <3>3
    <3> QED
      BY <1>1, <1>2, <2>1, <3>4 DEF HubTypeOK, Subscriptions, Connections
  <2>4. ASSUME NEW k \in Streams PROVE Heard(k)'
    <3>1. /\ stream'[k].on = stream[k].on /\ stream'[k].cut = stream[k].cut
          /\ stream'[k].since = stream[k].since /\ stream'[k].from = stream[k].from
          /\ stream[k].on => stream'[k].sent = stream[k].sent \cup {pub[p].ev}
      BY <1>1, <2>2 DEF HubTypeOK, Subscriptions, Connections
    <3>2. H!Owed(stream[k])' = H!Owed(stream[k])
      BY <1>2, <3>1 DEF H!Owed
    <3> QED
      BY <2>1, <3>1, <3>2 DEF HubInv, Heard
  <2> QED
    BY <2>3, <2>4
<1>5. ASSUME NEW k \in Streams, H!Disconnect(k)
      PROVE  HubTypeOK' /\ \A j \in Streams : Heard(j)'
  <2>1. stream'[k] = H!Silent /\ \A j \in Streams \ {k} : stream'[j] = stream[j]
    BY <1>1, <1>5 DEF HubTypeOK, Subscriptions, Connections, H!Disconnect
  <2>2. HubTypeOK' /\ pub' = pub
    BY <1>1, <1>2, <1>5 DEF HubTypeOK, Subscriptions, Connections, H!Disconnect, H!Silent
  <2>3. \A j \in Streams \ {k} : Heard(j)'
    BY <1>2, <2>1, <2>2, StreamUntouched
  <2>4. Heard(k)'
    BY <2>1 DEF Heard, H!Silent
  <2> QED
    BY <2>2, <2>3, <2>4
<1>6. ASSUME NEW k \in Streams, NEW id \in 0 .. MaxEvents, H!Connect(k, id)
      PROVE  HubTypeOK' /\ \A j \in Streams : Heard(j)'
  <2>1. H!Position(id) \in Nat /\ H!HasMore(H!After(id)) \in BOOLEAN
    BY ServerAssumption DEF H!Position, H!HasMore
  <2>2. H!Page(H!After(id)) \subseteq stored /\ stored \subseteq Nat /\ made \in Nat
    BY <1>1 DEF HubTypeOK, Subscriptions, Connections, H!Page, H!After
  <2>3. /\ stream'[k].since = H!Position(id) /\ stream'[k].from = made
        /\ stream'[k].cut = H!HasMore(H!After(id)) /\ stream'[k].sent = H!Page(H!After(id))
        /\ \A j \in Streams \ {k} : stream'[j] = stream[j]
        /\ pub' = pub
    BY <1>1, <1>6 DEF HubTypeOK, Subscriptions, Connections, H!Connect
  <2>4. HubTypeOK'
    BY <1>1, <1>2, <1>6, <2>1, <2>2 DEF HubTypeOK, Subscriptions, Connections, H!Connect
  <2>5. \A j \in Streams \ {k} : Heard(j)'
    BY <1>2, <2>3, StreamUntouched
  <2>6. Heard(k)'
    <3>1. made + 1 .. made = {}
      BY <2>2
    <3>2. H!Owed(stream[k])' \subseteq H!After(id)
      BY <1>2, <2>3, <3>1 DEF H!Owed, H!After
    <3> QED
      BY <2>3, <3>2 DEF Heard, H!HasMore
  <2> QED
    BY <2>4, <2>5, <2>6
<1> QED
  BY <1>4, <1>5, <1>6

LEMMA StepHubInv == HubInv /\ [H!Next]_H!vars => HubInv'
<1> SUFFICES ASSUME HubInv, [H!Next]_H!vars PROVE HubInv'
  OBVIOUS
<1>1. CASE UNCHANGED H!vars
  <2>1. HubTypeOK'
    BY <1>1 DEF H!vars, HubInv, HubTypeOK, Subscriptions, Connections
  <2>2. ASSUME NEW s \in Sessions PROVE Past(s)' /\ Unheard(s)' /\ Served(s)'
    BY <1>1, <2>1, SessionUntouched DEF H!vars
  <2>3. ASSUME NEW k \in Streams PROVE Heard(k)'
    BY <1>1, StreamUntouched DEF H!vars
  <2> QED
    BY <2>1, <2>2, <2>3 DEF HubInv
<1>2. CASE H!Next
  BY <1>2, PublishKeepsHubInv, TakingKeepsHubInv, ReplayKeepsHubInv, SubscribingKeepsHubInv,
     UnservedKeepsHubInv, TimeOutKeepsHubInv, StreamsKeepHubInv DEF H!Next
<1> QED
  BY <1>1, <1>2

LEMMA ServerHub ==
  /\ ServerInit => H!Init
  /\ [ServerNext]_all => [H!Next]_H!vars
<1>1. ServerInit => H!Init
  BY DEF ServerInit
<1>2. ServerNext => H!Next \/ UNCHANGED H!vars
  BY DEF ServerNext, Publishes, Checks, Serves, Resumes, hub, H!vars
<1>3. UNCHANGED all => UNCHANGED H!vars
  BY DEF all, hub, H!vars
<1> QED
  BY <1>1, <1>2, <1>3

\* For any sessions, streams, publishers and page size, and however publishes, time-outs,
\* replays and reconnections interleave: a kept subscriber gets every event after its
\* cursor exactly once if its replay fitted one page, and a raw stream misses none.
THEOREM EventsAlwaysArrive == ServerSpec => []EventsArrive
  BY HubInvSuffices, ServerHub, InitHubInv, StepHubInv, PTL DEF ServerSpec
-----------------------------------------------------------------------------
(* The gate.  check() reads every layer in one stretch, so that a bar that  *)
(* stands when it reads is met; nothing else lets a call in that was not    *)
(* asking already.                                                          *)

CallRecord == [at : {"idle", "asking", "approved", "denied", "started"},
               tool : Tools \cup {"none"}, actor : Actors \cup {"none"}]

LEMMA BlankCall == K!Blank \in CallRecord
BY DEF K!Blank, CallRecord

LEMMA InitGate == K!Init => K!TypeOK
<1> SUFFICES ASSUME K!Init PROVE K!TypeOK
  OBVIOUS
<1>1. call \in [Calls -> CallRecord]
  BY BlankCall DEF K!Init
<1>2. matrix \in [Actors -> [Tools -> Rows \cup {"none"}]]
  BY DEF K!Init
<1> QED
  BY <1>1, <1>2 DEF K!Init, K!TypeOK, CallRecord

LEMMA StepGate == K!TypeOK /\ [K!Next]_K!vars => K!TypeOK'
<1> SUFFICES ASSUME K!TypeOK, [K!Next]_K!vars PROVE K!TypeOK'
  OBVIOUS
<1> USE DEF K!TypeOK
<1>1. CASE UNCHANGED K!vars
  BY <1>1 DEF K!vars
<1>2. ASSUME NEW t \in Tools, K!Disable(t) \/ K!Enable(t) \/ K!DisableExpires(t)
      PROVE  K!TypeOK'
  BY <1>2 DEF K!Disable, K!Enable, K!DisableExpires, K!Set, K!Disabled
<1>3. ASSUME NEW a \in Actors, NEW t \in Tools, NEW tier \in Rows \cup {"none"},
             K!SetTier(a, t, tier)
      PROVE  K!TypeOK'
  BY <1>3 DEF K!SetTier
<1>4. ASSUME NEW now \in BOOLEAN, K!Present(now)
      PROVE  K!TypeOK'
  BY <1>4 DEF K!Present
<1>5. ASSUME NEW c \in Calls, NEW a \in Actors, NEW t \in Tools, K!Check(c, a, t)
      PROVE  K!TypeOK'
  BY <1>5 DEF K!Check, K!Passes
<1>6. ASSUME NEW c \in Calls,
             K!Approve(c) \/ K!Reject(c) \/ K!Deadline(c) \/ K!Start(c) \/ K!Return(c)
      PROVE  K!TypeOK'
  <2>1. CASE K!Return(c)
    <3>1. call' \in [Calls -> CallRecord]
      BY <2>1, BlankCall DEF K!Return, CallRecord
    <3> QED
      BY <2>1, <3>1 DEF K!Return, CallRecord
  <2>2. ASSUME NEW answer \in {"approved", "denied"}, K!Answer(c, answer) PROVE K!TypeOK'
    <3>1. [call[c] EXCEPT !.at = answer] \in CallRecord
      BY <2>2 DEF CallRecord
    <3>2. call' \in [Calls -> CallRecord]
      BY <2>2, <3>1 DEF K!Answer, CallRecord
    <3> QED
      BY <2>2, <3>2 DEF K!Answer, CallRecord
  <2>3. CASE K!Start(c)
    BY <2>3 DEF K!Start
  <2> QED
    BY <1>6, <2>1, <2>2, <2>3 DEF K!Approve, K!Reject, K!Deadline
<1> QED
  BY <1>1, <1>2, <1>3, <1>4, <1>5, <1>6 DEF K!Next

\* Whoever was let in was let in before, or by a check that found no bar.
LEMMA StepLetIn ==
  ASSUME K!TypeOK, [K!Next]_K!vars, NEW a \in Actors, NEW t \in Tools, K!Barred(a, t)
  PROVE  K!LetIn(a, t)' \subseteq K!LetIn(a, t)
<1> USE DEF K!TypeOK, K!LetIn
<1>1. CASE UNCHANGED call
  BY <1>1
<1>2. ASSUME NEW c \in Calls, NEW b \in Actors, NEW u \in Tools, K!Check(c, b, u)
      PROVE  K!LetIn(a, t)' \subseteq K!LetIn(a, t)
  BY <1>2 DEF K!Check, K!Passes
<1>3. ASSUME NEW c \in Calls,
             K!Approve(c) \/ K!Reject(c) \/ K!Deadline(c) \/ K!Start(c) \/ K!Return(c)
      PROVE  K!LetIn(a, t)' \subseteq K!LetIn(a, t)
  BY <1>3 DEF K!Approve, K!Reject, K!Deadline, K!Answer, K!Start, K!Return, K!Blank
<1>4. ASSUME NEW u \in Tools, K!Disable(u) \/ K!Enable(u) \/ K!DisableExpires(u)
      PROVE  UNCHANGED call
  BY <1>4 DEF K!Disable, K!Enable, K!DisableExpires, K!Set
<1>5. ASSUME NEW b \in Actors, NEW u \in Tools, NEW tier, K!SetTier(b, u, tier)
      PROVE  UNCHANGED call
  BY <1>5 DEF K!SetTier
<1>6. ASSUME NEW now, K!Present(now)
      PROVE  UNCHANGED call
  BY <1>6 DEF K!Present
<1> QED
  BY <1>1, <1>2, <1>3, <1>4, <1>5, <1>6 DEF K!Next, K!vars

LEMMA ServerGate ==
  /\ ServerInit => K!Init
  /\ [ServerNext]_all => [K!Next]_K!vars
<1>1. ServerInit => K!Init
  BY DEF ServerInit
<1>2. ServerNext => K!Next \/ UNCHANGED K!vars
  BY DEF ServerNext, Publishes, Checks, Serves, Resumes, gate, K!vars
<1>3. UNCHANGED all => UNCHANGED K!vars
  BY DEF all, gate, K!vars
<1> QED
  BY <1>1, <1>2, <1>3

LEMMA GateTypeCorrect == ServerSpec => []K!TypeOK
BY ServerGate, InitGate, StepGate, PTL DEF ServerSpec

\* While any layer bars an actor from a tool no call of its gets in, whatever the
\* operator changes elsewhere and whatever is approved: the safety half of
\* BarTakesEffect, for any tools, actors, calls and tiers.
THEOREM BarLetsNobodyIn == ServerSpec => K!NothingPassesABar
<1> DEFINE Stands == \A a \in Actors, t \in Tools :
             K!Barred(a, t) => K!LetIn(a, t)' \subseteq K!LetIn(a, t)
<1>1. K!TypeOK /\ [ServerNext]_all => [Stands]_K!vars
  BY ServerGate, StepLetIn
<1> QED
  BY <1>1, GateTypeCorrect, PTL DEF ServerSpec, K!NothingPassesABar

\* The no-go list outweighs every switch, tier, passkey and approval.
THEOREM NoGoNeverRunsAlways == ServerSpec => []K!NoGoNeverRuns
<1>1. K!Init => K!NoGoNeverRuns
  BY DEF K!Init, K!NoGoNeverRuns, K!LetIn, K!Blank
<1>2. K!TypeOK /\ K!NoGoNeverRuns /\ [K!Next]_K!vars => K!NoGoNeverRuns'
  BY StepLetIn DEF K!NoGoNeverRuns, K!Barred
<1> QED
  BY <1>1, <1>2, ServerGate, GateTypeCorrect, PTL DEF ServerSpec
=============================================================================
