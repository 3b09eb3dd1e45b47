--------------------------- MODULE BrickInstaller ---------------------------
(***************************************************************************)
(* Installing and uninstalling bricks (src/bricks/installer.ts) while the  *)
(* daemon runs, and loading the installed ones again when it boots.  Three *)
(* things have to agree: the directory a brick is copied to, its row in    *)
(* installed_bricks, and the connector its code registered.  Every change  *)
(* of one is an await away from the next, requests are not serialised, and *)
(* the boot's re-import runs beside them.                                  *)
(***************************************************************************)
EXTENDS Naturals

CONSTANTS
  Bricks,
  Requests      \* bound: dashboard requests at a time

Boot == "boot"  \* the process that re-imports the rows, no request
Nothing == "nothing"
Processes == Requests \cup {Boot}

VARIABLES
  dir,         \* per brick: its directory, "absent", "partial" or "whole"
  row,         \* bricks with a row
  registry,    \* bricks with a registered connector
  at,          \* per process: what it awaits
  on,          \* per process: for which brick, Nothing for none
  queue,       \* rows the boot has still to import
  \* history
  refused,     \* bricks whose code did not load in this daemon's life
  torn,        \* bricks whose removal a restart cut short, or met before it
  met          \* bricks two processes worked on at a time in this life

disk == <<dir, row>>
history == <<refused, torn, met>>
vars == <<disk, registry, at, on, queue, history>>

Awaits == {"idle", "copying", "undoing", "importing", "building", "removing"}

\* Type invariant.
TypeOK ==
  /\ dir \in [Bricks -> {"absent", "partial", "whole"}]
  /\ row \subseteq Bricks /\ registry \subseteq Bricks /\ queue \subseteq Bricks
  /\ at \in [Processes -> Awaits]
  /\ on \in [Processes -> Bricks \cup {Nothing}]
  /\ \A p \in Processes : on[p] = Nothing <=> at[p] = "idle"
  /\ refused \subseteq Bricks /\ torn \subseteq Bricks /\ met \subseteq Bricks

Init ==
  /\ dir = [b \in Bricks |-> "absent"]
  /\ row = {} /\ registry = {} /\ queue = {}
  /\ at = [p \in Processes |-> "idle"]
  /\ on = [p \in Processes |-> Nothing]
  /\ refused = {} /\ torn = {} /\ met = {}

\* Process p awaits a step of its work on b.
Works(p, b, await) == at' = [at EXCEPT ![p] = await] /\ on' = [on EXCEPT ![p] = b]
Goto(p, await) == Works(p, on[p], await)
Ends(p) == Works(p, Nothing, "idle")

WorkedOn(b) == b \in queue \/ \E p \in Processes : on[p] = b
Begin(r, b, await) ==
  /\ at[r] = "idle"
  /\ Works(r, b, await)
  /\ met' = IF WorkedOn(b) THEN met \cup {b} ELSE met

-----------------------------------------------------------------------------
(* installLocal                                                            *)

\* No row of that id yet; the copy begins, over whatever the directory holds.
Install(r, b) ==
  /\ b \notin row
  /\ Begin(r, b, "copying")
  /\ dir' = [dir EXCEPT ![b] = "partial"]
  /\ UNCHANGED <<row, registry, queue, refused, torn>>

\* The copy is complete: the row is saved, whoever saved one meanwhile, and the
\* import begins.
Copied(r) ==
  /\ at[r] = "copying"
  /\ Goto(r, "importing")
  /\ dir' = [dir EXCEPT ![on[r]] = "whole"]
  /\ row' = row \cup {on[r]}
  /\ torn' = torn \ {on[r]}
  /\ UNCHANGED <<registry, queue, refused, met>>

\* A copy that fails is left where it is; one without its entry file is undone.
CopyFails(r) ==
  /\ at[r] = "copying"
  /\ Ends(r) \/ Goto(r, "undoing")
  /\ UNCHANGED <<disk, registry, queue, history>>

Undone(r) ==
  /\ at[r] = "undoing"
  /\ Ends(r)
  /\ dir' = [dir EXCEPT ![on[r]] = "absent"]
  /\ UNCHANGED <<row, registry, queue, history>>

-----------------------------------------------------------------------------
(* importAndBuild and register, for a request or for the boot's next row.  *)

\* The boot goes on to a row of its snapshot, wherever the row is by now.
Done(p) ==
  IF p = Boot /\ queue # {}
    THEN \E b \in queue : Works(p, b, "importing") /\ queue' = queue \ {b}
    ELSE Ends(p) /\ UNCHANGED queue

Import(p) ==
  /\ at[p] = "importing" /\ dir[on[p]] # "absent"
  /\ Goto(p, "building")
  /\ UNCHANGED <<disk, registry, queue, history>>

\* The entry point is missing, throws, or builds no connector of that id.  The
\* row stays.
ImportFails(p) ==
  /\ at[p] \in {"importing", "building"}
  /\ Done(p)
  /\ refused' = refused \cup {on[p]}
  /\ UNCHANGED <<disk, registry, torn, met>>

\* The factory answered; register throws for an id it has.
Register(p) ==
  /\ at[p] = "building"
  /\ Done(p)
  /\ registry' = registry \cup {on[p]}
  /\ UNCHANGED <<disk, history>>

-----------------------------------------------------------------------------
(* uninstall                                                               *)

\* Unregister forgotten.
ForgetsConnector(b) == UNCHANGED registry
Unregister(b) == registry' = registry \ {b}

Uninstall(r, b) ==
  /\ b \in row
  /\ Begin(r, b, "removing")
  /\ Unregister(b)
  /\ refused' = refused \ {b}
  /\ UNCHANGED <<disk, queue, torn>>

\* The directory is gone, or could not be removed; the row goes either way.
Removed(r) ==
  /\ at[r] = "removing"
  /\ Ends(r)
  /\ dir' = [dir EXCEPT ![on[r]] = "absent"] \/ UNCHANGED dir
  /\ row' = row \ {on[r]}
  /\ UNCHANGED <<registry, queue, history>>

-----------------------------------------------------------------------------
\* The daemon dies and boots: what it was removing is gone in part or whole,
\* and the rows are imported again.
Removing == {on[r] : r \in {q \in Requests : at[q] = "removing"}}

Restart ==
  /\ \E d \in [Removing -> {"absent", "partial"}] :
       dir' = [b \in Bricks |-> IF b \in Removing THEN d[b] ELSE dir[b]]
  /\ torn' = torn \cup Removing \cup met
  /\ registry' = {} /\ refused' = {} /\ met' = {}
  /\ IF row = {}
       THEN /\ at' = [p \in Processes |-> "idle"] /\ on' = [p \in Processes |-> Nothing]
            /\ queue' = {}
       ELSE \E b \in row :
              /\ at' = [p \in Processes |-> IF p = Boot THEN "importing" ELSE "idle"]
              /\ on' = [p \in Processes |-> IF p = Boot THEN b ELSE Nothing]
              /\ queue' = row \ {b}
  /\ UNCHANGED row

Next ==
  \/ \E r \in Requests, b \in Bricks : Install(r, b) \/ Uninstall(r, b)
  \/ \E r \in Requests : Copied(r) \/ CopyFails(r) \/ Undone(r) \/ Removed(r)
  \/ \E p \in Processes : Import(p) \/ ImportFails(p) \/ Register(p)
  \/ Restart

Spec == Init /\ [][Next]_vars

-----------------------------------------------------------------------------
\* A brick nobody works on is registered exactly if it has a row and its code
\* loaded, and a row stands for a whole directory unless its removal was
\* interrupted: through failed copies, failed imports and reinstallations.  A
\* brick on which two requests, or a request and the boot, met is excepted until
\* the next boot: restarting repairs the registry whatever they did to it.
InstalledIsRegistered ==
  \A b \in Bricks \ met : ~WorkedOn(b) =>
    /\ b \in registry <=> b \in row \ refused
    /\ b \in row \ torn => dir[b] = "whole"
=============================================================================
