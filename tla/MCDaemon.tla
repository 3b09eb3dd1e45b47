------------------------------ MODULE MCDaemon ------------------------------
(***************************************************************************)
(* Small instances of what has to survive the daemon's restarts, side by   *)
(* side: the daemon's processes, with the PID file that names them, and    *)
(* the bricks on its disk, which every boot loads again.  They share no    *)
(* state, so a behaviour runs one of them.                                 *)
(***************************************************************************)
EXTENDS DaemonLife

CONSTANTS Bricks, Requests

\* The boot works on bricks too, and is no request; a process that works on none
\* works on no brick.
ASSUME BricksAssumption == "boot" \notin Requests /\ "nothing" \notin Bricks

VARIABLES side, dir, row, registry, await, on, queue, refused, interrupted, met

Brick == INSTANCE BrickInstaller WITH at <- await, torn <- interrupted

bricks == <<dir, row, registry, await, on, queue, refused, interrupted, met>>
both == <<side, vars, bricks>>

EitherInit == side \in {"life", "bricks"} /\ Init /\ Brick!Init

Lives(A) == side = "life" /\ A /\ UNCHANGED <<side, bricks>>
Installs(A) == side = "bricks" /\ A /\ UNCHANGED <<side, vars>>

EitherNext == Lives(Next) \/ Installs(Brick!Next)

\* The fairness of the processes.
EitherSpec ==
  /\ EitherInit /\ [][EitherNext]_both
  /\ \A p \in Pids : WF_both(Lives(DaemonStep(p)))
  /\ \A a \in Controllers :
       WF_both(Lives(ControllerStep(a))) /\ SF_both(Lives(Spawn(a, FALSE)))
  /\ WF_both(Lives(Ping)) /\ WF_both(Lives(CoolDown))

\* The daemon answers again after whatever befell it.
DaemonRecovers == side = "life" => Recovers

\* Disk, row and registered connector of a brick agree.
InstalledIsRegistered == Brick!TypeOK /\ Brick!InstalledIsRegistered
=============================================================================
