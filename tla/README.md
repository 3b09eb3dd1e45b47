# A TLA+ verification of the stavR daemon

stavR is a local broker that sits between coding agents and the machine they
work on.  One Node.js process (the *daemon*) owns a SQLite database, an event
log and an MCP endpoint; agents ask it for decisions, run jobs through it, and
act under trust scopes the operator grants.  Around it stand a stdio *shim*
that reconnects agents, a *watchdog* process that restarts the daemon, and a
Rust *governor* tray program that supervises it.

The daemon is single threaded.  A handler runs to its next `await` without
interruption, SQLite calls are synchronous, and every `await` of an `async`
function is a point where any other handler, timer or callback may run.  That
gives every module here the same grain: **one action is the code between two
awaits**.  What is in memory (listeners, timers, maps of live handles) is lost
when the process dies; rows and the event log survive.

Paths below are relative to the repository root, so the daemon's TypeScript is
under `src/`.

- [1. The system](#1-the-system) · [2. The modules](#2-the-modules) ·
  [3. The runs](#3-the-runs) · [4. Fairness](#4-fairness) ·
  [5. The proofs](#5-the-proofs) · [6. Where code and documents disagree](#6-where-code-and-documents-disagree) ·
  [7. What is not modelled](#7-what-is-not-modelled) · [8. What is left](#8-what-is-left)

## 1. The system

| Component | State it keeps | Operations | What is hard | Correct when |
|---|---|---|---|---|
| Decision rendezvous: `src/tools/decisions.ts`, `src/persistence.ts`, `src/security/respond-policy.ts`, `decision-gate.ts` | `decisions` rows; one listener and timer per blocked requester; the event log | open, wait, answer (MCP tool, dashboard, notification reply), time-out fallback, boot sweep | answer, timer and fallback race; a crash forgets waiters but not rows | who waits is told what the row says, one authorised answer is recorded, nobody waits for ever |
| Trust scopes and gated actions: `src/trust/store.ts`, `matcher.ts`, `tools.ts`, `src/tools/gated-action.ts` | `trust_scopes`, `trust_scope_actions`, budgets of job grants | propose, grant, revoke, extend, find, record, complete, expire | the cap is read before an awaited action and counted after it | what takes effect was authorised, every charge is booked once, an ended scope stays ended |
| Job orchestrator: `src/jobs/orchestrator.ts`, `lifecycle.ts` | `jobs` rows; live handles, slots per actor, idle timers | dispatch, terminate, shed, exit, go stale, restart | admission is checked and counted on different sides of awaits; exits arrive before, during and after the handlers that expect them | slots balance, caps and budgets hold, an end is final, jobs move on |
| Job bindings: `src/jobs/binding-*.ts`, `event-bus.ts` | a child, a request, a call or a session; flags `exited`, `terminated` | work ends, times out, `terminate` | the three race, with two callers | one exit, with a true reason, and every `terminate` returns |
| Job watchdog: `src/jobs/watchdog.ts` | a record of its last report per job | a pass a minute, reports of silent jobs | a pass awaits its reports, so passes overlap; the idle timer follows the same silence | a silence is reported while the job is still listed as running, and once in a while |
| Load shedder: `src/governor/load-shedder.ts` | the start of its cool-down | a tick every five seconds: sample, choose the newest job, have it stopped | ticks run while a stop is awaited | sheds are spaced, and go on while memory is short |
| Trust reporter: `src/trust/reporter.ts` | an entry per scope it heard of, timers, counters | hear granted, authorized, revoked; tick; report | events come later than, and out of order with, the changes they tell of | a scope's final report is true, single, and comes |
| BOM executor and planner: `src/steward/executor.ts`, `planner.ts`, `v02-wiring.ts` | BOM, version and step rows; replan counts in memory | approve, run in batches, retry, replan, escalate, resume | a crash in the middle of a step, a planner that throws | steps run in order, within their tries, and a running BOM ends |
| Event hub: `src/broker.ts`, `src/transports.ts`, `src/server.ts` | subscriptions, the event log, raw SSE listeners | publish, fan out, subscribe, replay, drop, stream | a subscriber that stalls; a replay beside live events | who stays subscribed gets each event once; nobody can hold a publisher |
| MCP sessions and their streams: `src/transports.ts`, `src/observability/bounded-event-store.ts` | the map of sessions, an interval and the calls under way of each, a bounded buffer of sent messages per stream | initialize, call, answer, DELETE, close, sweep, janitor, shutdown; store, prune, replay | six ways to end, in any order, across awaits; a replay walks the buffer that inserts prune | nothing of a session outlives it; a stream resumes in order, without duplicates, and misses only what the store gave up or passed over |
| Chokepoint gate: `src/security/decision-gate.ts`, `actor-permissions.ts`, `capability-overrides.ts` | permission matrix, capability switches, the last passkey assertion | `check` before every handler; the operator's settings | the layers are read before a decision that may take minutes | a bar that stays up takes effect |
| Steward role: `src/steward/store.ts`, `tools.ts` | claim tokens, Steward sessions | mint, claim, release, transfer | each waits for an approval between its first look and its write | at most one Steward, a token opens one session |
| Notifications: `src/notify/` | notification rows, their one-shot consumption, Telegram's offset | announce, send, reply by link or button, route, poll | duplicates, overlapping polls, replies to what is settled, restarts | a reply counts once, as the pressed button can be read, and lands |
| Federation peers: `src/federation/` | a record per peer, who was published as joined | load peers.yaml, discover, lose, ping | answers and announcements arrive late and out of order | trust is peers.yaml's, the state ends up true |
| Bricks: `src/bricks/installer.ts`, `src/connectors/` | a directory, a row and a registered connector per brick | install, import, uninstall, re-import at boot | each is an await away from the next; crashes between them | the three agree |
| Daemon lifecycle and watchdog: `src/daemon.ts`, `cli.ts`, `watchdog.ts` | processes, port, PID file, failure counter, cool-down | start, stop, restart, ping, force | processes interleave at every file and signal operation | one daemon, findable, and it comes back |
| Host commands: `src/security/host-exec-tool.ts`, `host-exec-runner.ts` | a child process, a time-out and its grace per call | find a scope, announce, run, time out, kill, charge | the child hangs, ignores SIGTERM or ends with the time-out; the scope changes meanwhile | an answered command is over, and paid for once |
| Stdio shim: `src/shim.ts` | transports, back-off, counters, a timer | forward, fail, reconnect, give up | attempts overlap, a replaced transport still reports errors | never stranded, one transport, it reattaches |
| Governor: `governor/src/` | verdict, streak, bridge and its ladder, mutes, heartbeat | probe, connect, stream, route, mute, beat | a cold start looks like an outage; a restart may be over before its broken stream is read | the verdict is what the probes call for, and events flow again |
| Steward agent: `src/steward/spawner.ts`, `ipc.ts`, `src/steward-agent/loop.ts` | status, age of the last answer, plans asked for | boot, ping, plan, time out, exit, shut down | four ends race for a plan; messages are read after the exit | a plan ends once, a silent agent shows |

How they meet.  *Gated actions*, the *chokepoint gate* and the *Steward role* ask
through the *decision rendezvous*; *notifications* carry the question out and an
answer in.  *Gated actions* and the *job orchestrator* both spend from the *trust
scope* store, each in its own way: actions are charged after they ran, dispatches
pay before they start.  The orchestrator drives each job through a *binding*; the *job
watchdog* reads its rows and the *load shedder* stops its jobs.  The
*reporter* learns of scopes only from published events.  The *BOM executor* opens
a scope for each BOM, runs steps through connectors (some of them *bricks*) and
closes it at its end.  *Host commands* look a scope up, run a process and charge the
scope, without asking anyone.  All of them publish through the *event hub*, and every
publication is an await.  Outside the process, the *shim* carries an agent's
messages, the *watchdog* and the command line start and end the daemon, and the
*governor* watches it.

Everything this code makes hard to test is listed, at its line, under
`hazards` in `PROJECT.json`; the properties are there for that list.

## 2. The modules

| Module | Role |
|---|---|
| `DecisionPromise` | abstract: a decision is asked once, settled at most once or abandoned, and heard as settled |
| `Decisions` | the rendezvous in detail; implements `DecisionPromise` |
| `TrustScopes` | the store: each operation is one synchronous call, hence one action |
| `GatedActions` | calls between the store (extended) and decisions (`INSTANCE DecisionPromise`) |
| `JobOrchestrator` | dispatches and jobs over the store (extended) |
| `JobRun` | abstract: what the orchestrator counts on from a binding's handle |
| `JobBinding` | the four bindings in detail; implements `JobRun` |
| `JobWatchdog` | the watchdog's passes and the orchestrator's idle timer over one clock |
| `LoadShedder` | the shedder's ticks and the calls of `shedJob` they start |
| `TrustReporter` | the reporter over the store (extended), with gated calls cut down to what publishes events |
| `BomExecutor` | one BOM and the loop that drives it |
| `EventHub` | broker, MCP sessions and raw streams |
| `McpSessions` | sessions of the HTTP endpoint, from initialize to the last trace |
| `SessionStream` | one resumable stream and its bounded buffer |
| `HostExec` | host commands over the store (extended) |
| `ChokepointGate` | the layers, the operator's settings, calls that wait for a confirmation |
| `StewardRole` | tokens, sessions and the three tools |
| `Notifications` | announcements, replies by two ways, the poller |
| `PeerRegistry` | records of peers, peers.yaml, mDNS, pings, joined and left |
| `BrickInstaller` | directory, row and connector of bricks, requests, the boot |
| `DaemonLife` | processes, port and PID file, command lines and the watchdog |
| `Shim` | transports, timer and clocks of the shim |
| `Governor` | monitor, bridge, router and heartbeat |
| `StewardAgent` | the agent's process, its two channels and the daemon's handle |
| `MCGatedActions`, `MCJobOrchestrator` | instances for TLC: requests and proposals, those of gated actions in groups |
| `MCPromises`, `MCJobsAndWatchdog`, `MCScopeUsers`, `MCClients`, `MCDaemon`, `MCOutside`, `MCServer` | instances of several modules side by side |
| `TrustScopesProofs`, `GatedActionsProofs` | theorems about the module of that name |
| `PromisesProofs` | about decisions, job bindings and the Steward agent |
| `JobOrchestratorProofs` | about the orchestrator and the job watchdog |
| `ScopeUsersProofs` | about the reporter, the BOM executor and host commands |
| `ClientsProofs` | about the shim, the Steward role and the governor |
| `DaemonProofs` | about the daemon's processes, bricks, MCP sessions, their streams, the event hub and the gate |
| `NotificationsProofs` | about notifications and peers |

A *side by side* module holds the variables of its parts and one more, `part`
(`side` in `MCDaemon`).  A behaviour runs the part it names under that part's fairness and leaves
the others in an initial state.  The parts share no variable, so this
shows for each of them what a run of its own would, and nothing about their
interplay; where components do interact, one module extends or instantiates the
other (`TrustScopes` under its four users, `DecisionPromise` under
`GatedActions`).

### Decisions

`row` is the table, `call[d]` where the requester is suspended: `announcing`
(the request is being fanned out), `waiting` (`awaitDecisionResponse` has its
listener and timer), `resolved` or `timedout` (the promise settled, the handler
has not resumed), and the ways it ends.  `Open` is `createDecision`;
`BeginWait` is the re-read of the row before the listener is installed;
`Respond` and `RespondLate` stand for all three answering surfaces, which share
one policy and one store call; `FallbackWrites`, `FallbackReads` and
`FallbackFails` are the three ways out of the time-out branch; `DieAfterWrite`
is the death of the process between the update of the row and the append of the
event; `Boot` runs `startupDecisionSweep` before a transport is mounted.

### TrustScopes and GatedActions

`scope` holds the rows, `granted` the order of `granted_at` the lookups scan,
`lapsed` the scopes whose deadline is past.  Looking a scope up is a write: a
lapsed one is marked expired in passing.  `Charge`, `Completes` and `Spent` are
the three decisions of `recordScopeAction`.

A call's `pc` is the await its handler is suspended at.  The chain is
`StartCovered` → `TakeEffect` → `ReturnCovered` when a scope covers it, and
`StartUncovered` or `StartBarred` → … → `HearApprove` → `TakeEffect` →
`ReturnAsked` when an operator has to be asked.  The effect on the outside world
is a step of its own, because the handler may still fail, or the daemon die,
between the effect and the charge.  The same handler states serve the
`trust_scope_grant` and `trust_scope_extend` tools (`ApplyGrant`,
`ApplyExtend`), which write whatever the scope has become while they waited.
`MCGatedActions` picks a `group` of calls and proposals at the start and runs
only those (`Fits`).

### JobOrchestrator and JobBinding

`pc[j]` follows one `dispatch` call: name and grant (`Dispatch`), slot
(`CheckActor`), ceiling and budget (`RefuseHost` or `Admit`), binding
(`GoLive` or `FailToStart`), then the life of the job.  `row` outlives the
daemon, `live`, `slots`, `killed` and `stopping` do not.  Stopping is in halves:
a signal (`Terminate`, `ShedKill`), the exit event (`Exit`) and the return of
`handle.terminate` (`Stopped`), which may come in either order.  `issued` is a
history variable for the budget ledger.

`JobBinding` is what happens behind one handle.  `kind` picks the binding; `work`
is what the job is about, which ends by itself (`ChildEnds`, `Answered`,
`SessionEnds`), breaks off (`CallBreaks`) or is killed; `stop[c]` is where a call
of `terminate` is.  The bindings differ in what guards their exit event: the
http binding does not look at `exited` again after reading the body, an aborted
MCP call is only no longer waited for, a session is not listened to once
detaching began, and a kill that the operating system refuses is an `error` of
the child, on which the binding reports a crash although the process lives.
`JobRun` is what the orchestrator counts on: at most one exit, `completed` only
of work that was done and `terminated` only of what was killed or asked to stop,
and an end to every wait.  The first of these is `RunsAsPromised`, the safety half of
`KeepsJobPromise`, which is the whole.

### JobWatchdog and LoadShedder

Both read what the orchestrator keeps, on timers that do not wait for what they
started.  In `JobWatchdog`, `heard` is `last_activity_at`, `armed` the idle timer,
`pass[p]` the rows a pass read and has not looked at while it awaits a report; two
passes overlap at most, because deliveries are bounded.  A binding that
answers after its job was ended makes the row run again (`GoLive`), with the
activity of the dispatch; `revived` sets such jobs apart.  `told` is the history of
reports that `repeated` is computed from, not the record the code keeps.  A job that
goes stale leaves the list a pass reads (`Listed`), and what it owes with it: which
of the two timers is first is a matter of `IdleAfter` and `Threshold`, and with the
program's defaults it is the idle timer (6).  In
`LoadShedder`, `call[s]` is a call of `shedJob` under way, which the next tick may
find there; `Kill` publishes and signals, `Returns` starts the cool-down, `Throws`
leaves it alone.

### TrustReporter

`posted` is the set of events that were published but have not reached the
reporter's tap, so they arrive in any order and late.  `entry` is
`state.granted`; `ticking` and `replying` are the two handlers that await the
publication of a progress report and go on with what they read before.  The
dashboard's revoke publishes an event without `scope_id` and therefore posts
nothing.  `reports` is the history of `trust_scope_completed`.

### BomExecutor

`driver` is where `runBom` is, `run` where each step of the current batch is.
`steps` keeps every version, because a version number can be used twice:
`saveBomSteps` updates the plan of a row that exists and keeps its state
(`Saved`).  `Crash` ends the daemon anywhere and boots it again;
`ReplanThrows` is the replan whose rejection nobody handles, which ends the
process (`src/daemon.ts`).  BOMs share no state, so one is modelled.

### EventHub

Events are numbered in log order (`made`), and `stored` is the subset the table
took: an event it refuses is fanned out all the same.  `pub[p]` is a publish call
and the deliveries it still waits for; a delivery ends when the session takes the
notification from its `wire`, when the session is closed, or with `TimesOut`,
which drops the session.  `RawListeners` is the last step of `publish`.
`Subscribe` with a cursor starts a `replay` of one page, one awaited
notification at a time, beside the live events; `cut` marks a replay that did
not fit its page or whose cursor the table does not know.

### McpSessions and SessionStream

`at[s]` is how far a session is: `connecting` and `handling` are the two awaits of
an initialize request.  `listed`, `registered`, `keepalive` and `inFlight` are the
four places it leaves traces in.  `Closed` is `transport.close()` with the `onclose`
it runs in the same stretch; DELETE, a refusal, a throw and shutdown all come down
to it, the `Janitor` does the same without closing and `Sweep` is the check half a
minute later.  In `SessionStream`, messages are numbered in the order they are
stored, `buf` is the stream's buffer and `next` where a replay stands *in the
buffer*, whose front may move while it stands there.  `skipped` is the history of
messages that a resume passed over, in one of two ways (`PassedOver`): the cursor was
evicted, so that nothing is replayed, not even what is still held; or an insert pruned
the buffer under the iterator, which then steps over a message that is still held.
`StreamResumes` lets a stream miss a message for no other reason than these two (6).

### HostExec

`at[c]` is the await the tool's handler is at, `child` its process, which the
daemon does not command: it may end, never end, or be asked and not go.  `clock` is
the time-out, armed or in the two seconds between SIGTERM and SIGKILL.  An error or
a close event of the child and the end of the grace race for one `Finish`.  The
scope is the one found at the start, whatever it has become by the `Report`.

### ChokepointGate

`Check` reads all layers in one stretch, as the code does: no-go list, capability
switch, `Resolve` (matrix row, default of the tool, default deny), passkey.  A
call that has to be confirmed waits until `Approve`, `Reject` or `Deadline`;
`Start` is the handler, and nothing is read again.  The operator changes
switches and rows at any moment.

### StewardRole

`session` is the `stewards` table, oldest first, `token` the claim tokens.  A
`call` goes from `Begin` (the handler's first look at the store) over
`Approved` to `Perform`, whose three forms are the store's transactions;
`DirectoryFails` is the memory directory that cannot be made after the claim
was stored.  A release ends whatever session is active by then (6).

### Notifications

`target` is the decision or scope a notification is about (external, settled
`Elsewhere` too), `note` its row.  `Click` is the web link, `Tap` and `Direct`
fill Telegram's queue, `PollTick`/`Fetched`/`Handle` are the poller, whose interval
does not wait for the previous poll.  A reply goes through three awaited stages:
the claim (`Claim`, one UPDATE), the routing (`Route`, `Effect`) and the answer to
the operator (`Told`).  `Crash` forgets the offset and everything in flight.
`Begins` relates an option to another one that the few characters a button keeps of
it begin as well; `Read` takes the first button they fit, as the poller does, and
`MayMean` is what they fit.

### PeerRegistry

A peer is `up` or not, and may announce it (`mail`) in the order it happens;
`probe` are its pings: asked, or answered and not yet recorded.  An answer
that was made before the peer left is applied after the loss was, to whatever
record has the id by then.  Answers are taken to be the peer's own (7).

### BrickInstaller

`at[p]` is the await a process (a request, or the boot's re-import) is at, `on[p]`
its brick (`Nothing` when it is idle).  Every change of the three things that have to agree is one
step; nothing serialises requests.  The history variables say which bricks the
property cannot speak of: code that `refused` to load, a removal that was `torn`
by a restart, and bricks that were `met` by two processes at a time.

### DaemonLife

`proc` is the stage of each operating-system process between its spawn and its
end, `ctl` that of each command line and of the watchdog.  Two starts may pass
the check of the PID file before either writes it; the port then keeps them apart
(`BindTaken`; `StaysOnStdio` is the daemon that lives on without it).  `termed`
and `hung` separate a signal that was sent from the handler that answers it.
`overlap` is history: it tells commands that raced from commands that did not,
because only the latter leave a daemon findable.  A start opens the store and runs its
sweep in stage `boot`, *before* it tries the port; `OneDaemon` therefore says two things: at
most one process is past the port, and, as long as no commands raced and none was forced,
a process that boots is the only one alive (`StartsAlone`).

### Shim and Governor

Both count time: the shim in ticks, the governor in turns of its health monitor;
a clock stops at the largest bound it is compared with.  In `Shim`, an `attempt`
is split at its two awaits (`start` of the new transport, `close` of the old
one), and any transport that was ever open may still report an error.  In
`Governor`, `trail` is the history of probes that `VerdictMatchesProbes` compares
the state machine with: the rule of `record_probe`, as a statement about past probes
instead of counters (a comment of `state.rs` promises more, 6).  `bridge` is `open`,
`broken` (the sockets are gone and the end is not read yet) or `waiting`.  A daemon that
hangs or turns unhealthy (`DaemonChanges`) keeps its sockets; one whose process ends
(`DaemonEnds`) breaks the stream, and the next process may be up before the end is read.
An unhealthy daemon may refuse the stream too, and every status but 200 is a failure.

### StewardAgent

`toChild` and `fromChild` keep order; the exit is an event of its own, so `Receive`
may read an answer after `ExitSeen`.  `Sent` is the channel's answer to whether it
is open, which lags behind the end of the process.  `Hang` is an agent whose
event loop is blocked: it neither reads nor leaves.  `heard` is the age of the
last answer in heartbeats and `None` before the first one.

## 3. The runs

| Run | Instance | What it shows |
|---|---|---|
| `promises` | decisions: 1 decision, 2 options, a loopback operator, a notification operator, a paired peer; bindings: each of the four, 2 calls of terminate; agent: 1 plan, unhealthy after 3 heartbeats, channels for 2 pings or pongs; shedder: 3 jobs, window of 2 ticks, 2 sheds under way; gated calls: one that a scope covers and a no-go one, 1 scope | what the requester is told is what the row and the log record, and nobody sleeps on an answered decision (`OneAnswer`); only who may closes it, the sweep only what is overdue (`ClosedRightly`); `KeepsPromise`; `RequesterReleased`; `KeepsJobPromise`; `HandleKeepsWord` (a plan settles once and in the end, a silent agent shows); `StressEmptiesTheHost`; `GatedCallsEnd` (also if no operator answers) |
| `gated` | either a merge for scopes with a cap of 2, beside two of: another merge, an extension that lowers the cap to 1, a second scope; or 1 scope, a merge, a no-go action and the grant tool called for that scope, which one proposal lets forbid what it allows | `LedgerComplete`, `ScopesObeyed` (ended scopes stay ended, calls start within the bounds), `Authorised` and `PromiseKept` while scopes are granted, revoked, extended, spent and lapse around suspended calls |
| `jobs_admission` | 3 dispatches of one holder (two share a name), 2 slots, 1 place on the host, both stoppers; watchdog: 2 jobs, 2 overlapping passes, threshold and idle time both 2 as they are equal in the program, repeats every 2 minutes, 5 minutes, 1 restart | `SlotsHold` (slots balance and stay within the cap), `EndIsFinal`; `SilencesReported` (whenever no pass is under way, a job that is still listed and silent beyond the threshold was reported; none is reported again too early) |
| `jobs_grants` | a peer pinned to a grant and an operator without one, of one name, budget 1, one restart | `BudgetLedger`, `StartsWithinGrant`, `JobsMoveOn` |
| `scope_users` | reporter: 1 scope with a cap of 2, each of the 4 cadences, 2 calls, 1 revoke by tool, any number on the dashboard, one restart; executor: three plans (a chain, a join, two steps that wait for each other), 2 steps at a time, 1 retry, 1 replan, 1 crash; host commands: 2 calls under the same scope, restarts | `ReportsTrue`, `EndsReported`; `BomKeepsPlan` (steps run in order, within their tries; an ended BOM holds no scope); `HostCommandsHonest` (answered means over, one charge); `WorkEnds` (running BOMs and host commands end) |
| `daemon_life` | 3 process ids, 1 operator with 2 commands (forced ones too), the watchdog with a threshold of 2, 1 crash or hang; bricks: 2, with two requests and the boot, any number of restarts | `OneDaemon` (one process past the port; unraced starts boot alone), `Findable`; `InstalledIsRegistered`; `DaemonRecovers` |
| `clients` | governor: 2 unreachable probes or 3 turns to Down, settle window 4, ladder 1, 2, three changes; shim: 3 transports, back-off 1 to 2, patience 3, 1 outage; Steward: 2 clients, 2 tokens, 2 calls | `GovernorSeesTruth` (the verdict is the one the probes call for and ends up true, and events flow again); `TransportsHold`, `Reattaches`; `RoleGivenOnce` (one active Steward, one session per token) |
| `outside` | notifications: 1 decision with two buttons of which what is kept of the second begins the first too, 1 directive, 1 link handler, 2 polls, 2 taps, 1 restart; peers: 1 peer, 2 announcements under way | `OneShot`, `RepliesCount` (an answer is one that a pressed button may mean, a directive is given once), `RepliesLand`; `PeersAsTheyAre` (trust is peers.yaml's, the state ends up true) |
| `server` | hub: 1 session, 1 stream, 2 publishers, 3 events, pages of 2; gate: an operator and a peer, 2 tools, 1 call, rows AUTO and EXPLICIT; sessions: 2, and 1 tool call; stream: a buffer of 3, 5 messages | `EventsArrive`, `PublishReturns`; `BarTakesEffect` (a bar lets nobody in while it stands, and one that stays up takes effect); `NothingOutlives`; `StreamResumes` (in order, no duplicates, missed only what a resume passed over) |
| `jobs_names` | 2 dispatches of one name | violated: see 6 |
| `hub_resume` | pages of 1 | violated: see 6 |
| `watchdog_default` | 1 job, 1 pass, threshold and idle time 5 | violated: see 6 |

**Bounds, and why they are enough.**  Decisions share no state but the process,
so one decision shows every race; that several may be closed by one sweep is
covered by the proof.  The races of gated actions and dispatches need two calls
and a third party that moves the scope, or two scopes and one who moves between them; a cap of two is what makes "spent by
the other" and "lowered under what was executed" different.  `jobs_admission`
needs three dispatches so that one waits for a slot while another holds the
last host place.  In the reporter one scope is enough because entries do not
touch each other; `Every = 2` stands for five so that a call can be below and at
the threshold.  The executor's plans contain every shape of dependency `Ready`
tells apart: none, one, several, and never satisfied; a second replan, retry or
crash repeats what the first can do.  In the hub two publishers overlap and
three events fill a page and leave one; a second session would only be another
name in `waits`.  A second session is there so that the janitor finds
more than one and shutdown walks a map that grows; five messages overflow a buffer
of three twice, before and during a replay.  Two host commands share one scope, so
that the charge of one completes it under the other.  `daemon_life` needs three process ids for a daemon, its
replacement and a start that races it.  The shim needs three transports for an
open one, a replaced one and an attempt; its delays keep the code's order
(initial < maximum, clean stretch < patience).  The governor's thresholds keep the
code's order (3 unreachable probes, 6 turns without a good one, 12 turns to settle) at
sizes at which both routes to Down, and a start that is not over, are still told apart.  Two polls are the overlap the
poller's interval allows.  One peer is enough because records do not touch each
other, two bricks because the boot's list is then older than the row it is at.
The watchdog needs two jobs so that a pass awaits one while it owes the other a
report.  Its threshold and the idle time are equal, as in the program: a row an earlier
daemon left, or a job whose binding is still starting, is then reported, a live one
mostly goes stale first.  The shedder
needs three jobs, two to be shed in one window and one that comes meanwhile.  One plan is
enough because requests share nothing but the channel, which keeps its order.

The bounds that restrict behaviours in a guard are `MaxRestarts` (`JobOrchestrator`,
`TrustReporter`, `BomExecutor`), `MaxCommands` and `MaxFaults` (`DaemonLife`),
`MaxOutages` (`Shim`), `MaxChanges` (`Governor`), `MaxEvents` (`EventHub`),
`MaxMessages` (`SessionStream`), `MaxTaps` and `MaxCrashes` (`Notifications`), `MaxMail` (`PeerRegistry`,
`StewardAgent`), `Passes`, `MaxTime` and `MaxStarts` (`JobWatchdog`), `Sheds`
(`LoadShedder`);
`Stoppers` restricts who stops jobs.  `Decisions`, `GatedActions`,
`StewardRole`, `ChokepointGate`, `McpSessions`, `HostExec`, `JobBinding` and `BrickInstaller` are bounded
by their sets only.

**Deadlock** is checked in every run except five.  In `scope_users`, `clients`,
`server`, `hub_resume` and `watchdog_default` a part may really stop: every scope or BOM has
ended, the shim gave up, or the bound on events or on time is spent.  The step `Over` of `promises` lets a
part end in a state of its own: a job whose exit was reported (so that a binding
that hangs before is still found), an agent whose handle is down, a host without
jobs.  `Over` of `jobs_admission` is the watchdog's clock at its bound.

**Symmetry** is used where only safety is checked and the permuted calls ask
for the same thing: `gated` (the merges) and `jobs_admission` (the
dispatches of one name and the watchdog's passes; its properties are quantified over
all jobs and passes and so invariant under it).

## 4. Fairness

Safety properties assume none.  The liveness properties assume what the event loop
and the operating system give:

- `Decisions`: a suspended requester is resumed and a timer fires; time passes.
  Nobody has to answer, and a crash is allowed at any time.
- `GatedActions`: the same for handlers, and an awaited action returns or
  throws (`gh` is run with a time-out, `GH_TIMEOUT_MS` in
  `src/adapters/github-writes.ts`).  It is assumed in the part of `promises` that runs
  gated calls.
- `JobOrchestrator`: suspended dispatches are resumed, a binding answers, a
  signalled process exits and `terminate` returns (which is what `JobBinding`
  shows of the bindings).  A job that nobody stops may run for ever.
- `JobBinding`: a child that was sent SIGKILL dies, five seconds pass, an abort
  rejects what it aborts, an adapter answers `detach`.  Nothing makes work end by
  itself, and a terminated child may ignore SIGTERM.
- `TrustReporter`: a fan-out ends because each subscriber is given five seconds
  (`NOTIFY_TIMEOUT_MS`, `src/broker.ts`), and armed timers fire.
- `EventHub`: exactly that: an untaken delivery times out, and a publish whose
  deliveries are over goes on.  No client has to take anything.
- `HostExec`: what follows an await and the two timers.  Nothing makes a process end,
  nor its pipes close when it did: another process may hold them.
- `ChokepointGate`: a decision has a deadline and an approved handler starts.
- `BomExecutor`: connectors and the planner return or throw, and a daemon that
  died is started again by the watchdog.  One weak fairness of the whole loop is
  enough: whatever the loop does, it gets nearer to the end.
- `Notifications`: the poll timer fires, a batch is worked through, handlers are
  resumed.  Fetching has strong fairness: a poll that may fail succeeds if it
  is tried again and again.
- `PeerRegistry`: the ping timer fires, a request is answered or times out after
  three seconds, mail arrives.  Peers come and go as they like.
- `DaemonLife`: every process runs, the clock moves, the watchdog pings.  `Spawn`
  has strong fairness only because the pids of the instance are few and may be
  taken for a while.  Nothing makes the operator act or a hung loop recover.
- `Shim`: time passes, a due timer fires, `start` and `close` of a transport
  settle, and a transport to a daemon that is gone fails.  `Governor`: the
  monitor's loop turns, the bridge's attempt is made when it is due, and the end of
  a broken stream is read.
- `LoadShedder`: the interval fires, a call of `shedJob` goes on and ends, a killed
  process exits.  `Kill` has strong fairness: a call that may throw succeeds if it is
  tried again and again.  Nothing makes a job exit by itself.
- `StewardAgent`: what was sent is delivered, the exit is seen, the heartbeat and the
  time-outs fire.  Nothing makes the agent read, plan or live.

## 5. The proofs

All theorems hold for every value of the constants that the named assumptions
admit.  Those only say what the constants are:

- a NULL is no value, the operators are actors, a cap is positive, thresholds,
  delays, windows and bounds are numbers, the boot is no request, a peer may be
  untrusted (`DecisionsAssumption`, `TrustScopesAssumption`, `GatedActionsAssumption`,
  `JobOrchestratorAssumption`, `NotificationsAssumption`, `ShimAssumption`,
  `LifeAssumption`, `TrustReporterAssumption`, `PromisesAssumption`,
  `WatchdogAssumption`, `GovernorAssumption`, `BricksAssumption`, `PeersAssumption`,
  `ServerAssumption`, `ScopeUsersAssumption`);
- calls and jobs are finite sets where something is counted, a threshold of missed
  probes is at least one, a plan is a sequence of sets of step numbers.

`StewardRole` and `McpSessions` need none, and no theorem has a hypothesis of its own.

A theorem about `EitherSpec` or `ServerSpec` speaks of the part in question beside the
others; each rests on two facts, that the part begins as its own specification says and that
every step is one of its own or leaves its variables alone.

**`PromisesProofs`**, decisions — `Safety`, `TypeCorrect`, `ToldTheRecorded`,
`WakeupNotLost`, `Authority`, `Finality`, `Refinement`.  `ToldIsRecorded` is not
inductive: it needs that a resolved promise holds the recorded choice
(`PromiseIsRecorded`), that a row carries a choice exactly when it is responded
(`ChoiceWhenResponded`) and that who runs has a row (`ActiveHasRow`);
`TimeoutIsDue` carries the deadline from the timer to the fallback for
`AnswerAuthorised`.  `IInv` is their conjunction.  There is one lemma per action.
`Refinement` maps `asked`, `settled` and `closed` to the row and `heard` to what
the requester was told; `PromiseStep` shows each step is one of the promise's or a
stutter.
*Bindings* — `BindingsRunAsPromised`: every step of each of the four bindings is
one of `JobRun` or a stutter, for any set of callers.  `BindingInv` says what the
flags stand for: `exited` that an exit was emitted (`ExitedMeansReported`), an open
request that the work goes on (`UnsettledIsOpen`), an ended one that somebody
asked (`EndedWasAsked`).
*Agent* — `PlansSettleOnce`: a settled plan stays as it is, and an asked one is only ever
settled, so that a late reply, the time-out, the exit and the closed channel do not
overwrite each other.  With the types this needs no more than the steps themselves.

**`TrustScopesProofs`** — the store has no specification of its own, so its
lemmas say what an operation may do to it: `EvolvesBut(B)` is "rows never
disappear, terms other than the budgets of `B` never change except for caps, an
ended scope keeps its status, what left the proposals does not return to them, the order of
grants only grows".  Each operation has its `…Evolves` lemma, and `DecrementEvolves` says
exactly when a budget pays.  `GatedActions`, `JobOrchestrator`, `TrustReporter` and `HostExec`
all rely on them.

**`GatedActionsProofs`** — `Safety`, `TypeCorrect`, `OnlyAuthorised`, `Ledger`,
`TerminalScopesFinal`, `CallsStartWithinBounds`, `ScopesAlwaysObeyed`,
`DecisionsUsedAsPromised`.  The invariant is the store's and `CallInv`: a call
that runs under a scope is covered by it still (`CoveredCalls`; it survives
everybody else's steps because the store only evolves), one that runs without was
approved (`ApprovedCalls`), and the ledger.

**`JobOrchestratorProofs`**, orchestrator — `Safety`, `TypeCorrect`, `Slots`, `ActorCapKept`,
`SlotsAlwaysHold`, `Budgets`, `DispatchesStartWithinGrant`, `EndsAreFinal`.  The
slot count is proved against the set of holders (`SlotsEnter`, `SlotsLeave`:
entering and leaving change count and set together).  `GrantsFit` carries what the
resolution checked across two awaits, so that the budget check at the insert is
all that is left to do; `Accounts` is the ledger; `RowsFit` and `Known` say who
has a row.
*Watchdog* — `SilencesReportedOnce`, for any threshold and any idle time.  A silence beyond
the threshold of a job on the list is treated as a debt: it was reported, or a pass that
began in that minute still holds the row (`Met`, `MetNow`); so no debt is left when
no pass is under way.  That a report is not repeated early rests on the
record the watchdog keeps being its last report (`RecordsFit`), except for a job that left
the list and was revived.

**`ScopeUsersProofs`** — `ReportsAlwaysTrue`, `BomAlwaysKeepsPlan`,
`HostCommandsAlwaysHonest`.
*Reporter*: an event that was published before says something that is still so (`InStep`: a
`granted` one that the scope is no proposal any more, a `revoked` one that it ended), because
the store only evolves; so a report that is made of it is true whenever it comes.  That
there is one per life of the daemon is `Reported`: an entry that was reported is final.
*Executor*: `BomInv` says where the loop is and what that means for the BOM (`Driven`),
that a row's tries and retries agree with its state (`Tallied`), what a suspended step of a
batch relies on (`Batched`: what it needs is done, its row is its own), and that each failure
waits once (`Failing`).  From it every step keeps the order (`B!InOrder`) and an ended BOM is
clean.  It holds for all plans, cyclic ones included.
*Host commands*: the scope found at the start exists to the end (`HostCovered`), the clock and
the child agree (`ChildKnown`), an answered command is over and each is charged once.

**`ClientsProofs`** — *Shim*: `ShimTypeCorrect`, `NeverStrandedAlways`,
`TransportsAlwaysHold`, for any number of transports and any delays: a shim that is not
closed and whose transport is broken always has a timer or an attempt.
*Steward role*: `RoleTypeCorrect`, `OneStewardAlways`, `TokensOpenOnce`,
`RoleGivenOnceAlways`.  One active session is inductive with the types alone; that a token
opens one needs that every session's token is redeemed (`SessionsRedeem`).
*Governor*: `VerdictAlwaysMatches`, for all thresholds and windows.  The state machine keeps
counters where the rules speak of the past, so the invariant reads the counters as
statements about the trail of probes: the streak is that of the last probes
(`StreakIsUnreachable`), and none was good since the one remembered (`NoneGoodSince`).

**`DaemonProofs`** — *Processes*: `TypeCorrect`, `OneDaemonAlways`, `FindableAlways`.  The
processes past the port are exactly its holder (`PortIsHeld`), for any number of processes,
command lines, crashes and forced starts.  That a start which raced nothing has the machine,
and so the store it opens and sweeps, for itself is part of `Orderly`.  Findable is what commands that did not race leave:
`Orderly` says that they go one by one, a start has the machine for itself, an end is
awaited by the stop that asked for it, a stop aims at the only process there is, and the
PID file names who is past its start.
*Bricks*: `BricksAlwaysAgree`.  Of a brick no two processes met on, one works on it or
none (`Alone`), who does finds it unregistered and with a row exactly between the copy and
the removal (`InHand`), and what waits for the boot has a row and a whole directory (`Listed`).
*Sessions*: `NothingEverOutlives`, from what cannot meet: a call that was not made has no trace
(`UnmadeCalls`), one that was belongs to a session that was opened (`CallsOfOpened`),
a sweep is of a closed one (`SweepsOfClosed`).
*Streams*: `StreamAlwaysResumes`.  The buffer is the newest messages without a gap
(`BufferIsRecent`), so the position of a replay in it tells the message it has come to;
what was sent last is behind that one, however inserts move the front (`TipIsBehind`), and
every message between the two was passed over (`MissedIsSkipped`, `Reached`).
*Hub*: `EventsAlwaysArrive`.  `HubInv` counts the ways an event has come or may yet come to a
subscriber, by its wire, by a publisher that has not reached it, by a replay: one for each it
is owed, none for the others.
*Gate*: `BarLetsNobodyIn`, `NoGoNeverRunsAlways`.  `check` is the only step by which a call
gets in and it reads every layer, so while any of them bars an actor from a tool the set of
its calls to that tool which are past the gate only shrinks; what the no-go list matches
is barred for ever.

**`NotificationsProofs`** — *Notifications*: `RoutedOnce`, `ConsumedWasActedOn`,
`RepliesAlwaysCount`.  A notification is routed at most once because a live row was never
routed (`LiveIsUntouched`) and at most one handler carries a consumed one to the router
(`OneCarrier`).  What a handler carries is an option that a pressed button may mean,
because batches hold only what Telegram has and reading a button finds no other
(`PressInv`, `ReadsWhatIsMeant`), whichever options begin alike; a directive is given once while polls take turns, because the
offset then separates what was handled from what was not (`InTurn`).
*Peers*: `TrustAlwaysFollowsYaml`, from what each record owes to the file (`Right`).

**Model-checked only.**  Liveness under fairness is out of the prover's reach: `RequesterReleased`,
`GatedCallsEnd`, `JobsMoveOn`, `EndsReported`, `WorkEnds`, `DaemonRecovers`, `Reattaches`,
`RepliesLand`, `PublishReturns`, `StressEmptiesTheHost`, and of `KeepsJobPromise`,
`HandleKeepsWord`, `GovernorSeesTruth`, `PeersAsTheyAre` and `BarTakesEffect` the half that
says what must come about; the other half of these five is `BindingsRunAsPromised`,
`PlansSettleOnce`, `VerdictAlwaysMatches`, `TrustAlwaysFollowsYaml` and `BarLetsNobodyIn`.  `LoadShedder` has
no theorem: what is checked of it is liveness, and it removes from a sequence with `SelectSeq`,
whose result is an induction over data.  And of course the violations.

## 6. Where code and documents disagree

Three disagreements have a run that exhibits them:

- **A job's name** (`jobs_names`).  docs/tool-cards/job_dispatch.md:152 says a
  duplicate is refused.  Check and insert are three awaits apart.
- **Resuming a subscription** (`hub_resume`).  docs/event-taxonomy.md:30 says
  `since_event_id` replays missed events to recover from disconnects.  The
  replay sends one page of the log (500 events) and ignores that there are
  more, so the rest is never sent.
- **A silent job** (`watchdog_default`).  `src/jobs/watchdog.ts:5` says `job_stuck` is
  emitted for any job idle for longer than the threshold.  The daemon starts the
  watchdog without options (`daemon.ts:353`), so that is 300 s, and the orchestrator's
  idle timer is five minutes as well (`orchestrator.ts:47`): it makes a live job
  `stale` (`orchestrator.ts:730`), which removes it from the watchdog's query
  (`persistence.ts:1549`), before the silence exceeds the threshold.  With the defaults
  only rows that an earlier daemon left, a job whose binding is still starting, or one
  that started slowly are reported.

Others were met while modelling; the models contain the behaviour, no run is
spent on it.  Decisions, scopes and reports:

- a decision that is open at a crash and has time left is picked up by the sweep
  only at the next restart after its deadline, against ARCHITECTURE.md:339;
- concurrent calls are each let in below a scope's cap and counted afterwards, so
  a cap can be exceeded, against the "bounded autonomy by count" of adr/022:57;
  `ScopesObeyed` states what does hold;
- without the 15-minute cadence a scope's deadline is not reported, nor is a
  revoke on the dashboard with any cadence until a tick, against adr/024:35;
- a scope the reporter has no entry for is reported each time it is told of its
  end, against "always fires once" (adr/024:58); its timer can be armed again
  after the final report and goes off once more for nothing (adr/024:54);
- approving the grant of a scope that was revoked meanwhile still publishes
  `trust_scope_granted` (`src/trust/tools.ts:128`);
- a release of the Steward role ends the session of whoever holds it when the
  approval comes, while `src/steward/tools.ts:133` says the client must be the
  active Steward (`OwnRelease` in `StewardRole` states it).

Jobs:

- dispatches whose bindings start together all pass the ceiling
  (`orchestrator.ts:979`), against the "hard cap" of
  docs/host-resource-ceiling.md:25;
- the idle time is five minutes (`orchestrator.ts:47`), `src/jobs/lifecycle.ts:36` gives
  one hour as the stale threshold;
- a job that dies of a signal the operating system sent is recorded as
  terminated by its user, because any signal is; a terminated `mcp-call` job is
  recorded as crashed, because the abort reaches the binding as an error
  (`binding-mcp-call.ts:141`), against `lifecycle.ts:16`;
- the time-out of an http job ends with the response's headers
  (`binding-http.ts:94`): a body that never ends keeps the job for ever;
- after a restart rows stay `running` with no handle behind them, and only a
  terminate stamps them;
- terminating a job that is still starting stamps its row and reports success,
  and the row is running again when the binding returns; terminating a stale one
  does nothing and reports success, while its process lives and its name is free.

Timers:

- the load shedder says it waits a window after a shed (`load-shedder.ts:20`); the
  cool-down starts when the awaited shed has returned, and ticks do not wait for
  each other, so two ticks can shed two jobs;
- the Steward agent's handle says three missed pongs make it unhealthy
  (`spawner.ts:4`); the age of the last answer is not looked at before there was one
  (`spawner.ts:159`), so an agent that never gets ready stays `starting`;
- in code no module stands for: a digest is sent at the configured hour
  (`digest.ts:4`), but when the hour is moved back far enough after the day's digest,
  the next day's lies within the 23 hours that follow the last fire and is skipped;
  and the cron dispatcher remembers the minute of the day without its date
  (`scheduled.ts:99`), so its default `0 3 * * *` fires once in the life of the process.

Sessions and host commands:

- the janitor's comment says it prevents leaks where `onclose` never fired
  (`transports.ts:1221`); it looks for `_writable.destroyed` on the library's
  transport through a cast.  `McpSessions` lets that be true of any session at any
  time; where it never is, a client that vanishes without a DELETE stays listed
  with its interval until shutdown;
- the `catch` around an initialize says a failed one cannot leak
  (`transports.ts:1057`), but a throw of `connect` comes before `isNew` is set, so
  that what was registered with the broker stays there (the model takes `connect`
  of the library's own transport not to throw);
- a replay that is under way when an insert prunes passes over a message the buffer
  still holds, because the buffer shifts under its iterator
  (`bounded-event-store.ts:89`), and a resume whose cursor was evicted replays nothing,
  not even what is still held, and says nothing (`:112`): what `transports.ts:863` gives
  as the reason for the store, a result lost silently, can still happen then.  These are
  the messages in `skipped`;
- `runHostExec` "never rejects" (`host-exec-runner.ts:219`), but a `spawn` that throws
  rejects it, and the tool publishes `host_exec_started` without an end; a SIGTERM
  the operating system refuses is reported as a failed start, exit code −1, of
  a process that lives.

Processes and the governor:

- a start opens the store and sweeps it (`transports.ts:156`) before it tries the port
  (`transports.ts:275`, 1276), so one that races another, or is forced, closes overdue
  decisions of the daemon that is serving before it finds the port taken;
- `state.rs:10` says 30 s without a successful response are Down, and 32 and 93 repeat it;
  the code promotes on an unreachable probe only, so a daemon that answers badly for
  however long stays Degraded (`VerdictMatchesProbes` has the code's rule);

BOMs, notifications, peers, bricks and clients:

- the executor's header (`executor.ts:22`) says steps found running at a restart are
  dispatched again; `readySteps` takes pending steps only, so the BOM is failed;
- an approved BOM whose event was lost in a crash is never started: `start()`
  resumes running ones only;
- a Telegram button keeps twelve characters of `decision:` and the option
  (`telegram.ts:72`), and the reply is matched by that beginning
  (`telegram-poller.ts:241`): of two options that begin alike the first is recorded
  although the other was pressed, against the "picked id" of `wiring.ts:92`.  The
  instance has such buttons, and `RepliesCount` says no more than that the answer is
  one the pressed button may mean;
- `peer_left` always gives `config_removed` as its reason, also for a peer that
  only fell silent (`reporter.ts:56`);
- the answer of a remembered address counts for a peer whoever gives it
  (`peer-client.ts:112`);
- a brick that is uninstalled and installed again runs its old code until the
  daemon restarts, because the import is cached by URL (`installer.ts:202`);
- the shim's give-up counts from the first failure of a streak, but the streak
  is wiped by a stretch without errors only when the next error comes
  (`shim.ts:198`), so the promise of its header (line 12) depends on it;
- the toast router's comment says a muted event does not count for the debounce;
  the code's order is the other one (`event_router.rs:103` and 192).

## 7. What is not modelled

The models cover the protocols of the daemon and of what runs beside it.  The
larger part of the repository's lines is elsewhere: dashboard pages and their
styles and scripts, the catalogue of tools and event types (data), adapters that
format requests to external programs, telemetry, migrations and command-line
printing.  These have little state that two actors share, and no definition
here stands for them.

- **Inside the modelled components.**  Matching of tools and parameters is a
  relation given by a scope's terms (`Covers`, `Serves`); the glob and regular
  expression matching behind it is data, as are the patterns of the no-go list and
  the filter of a subscription.  Texts, formats, costs and the contents
  of events are left out, and so is what reads them only.  `job_inject` changes no
  row and no live state (the activity it causes only delays `GoStale`, which
  `JobOrchestrator` lets happen at any time; there the load shedder may act at any time
  too; `JobWatchdog` and `LoadShedder` have the timers).  How a sample of the host is
  smoothed is arithmetic.  What a plan contains, addresses and identity of peers,
  versions of a brick's code, extension replies and the rate limit of
  notifications, the Steward's pulse and the governor's menus are left out.
- **External**: the operating system's processes and signals, Telegram, multicast,
  HTTP and MCP peers, the MCP library's transports, GitHub, session adapters (an
  adapter is taken to answer `detach`).
- **Left aside**: the daily digest and the scheduled dispatcher (a clock compared with
  a stored time; 6 says what was seen), pairing,
  WebAuthn and script signing (cryptography; an identity is an input here), stored
  credentials (nothing in the program grants one), connectors (a call that returns or throws), the
  Steward's language-model runtimes and its other autonomy modes (no protocol beyond
  the requests they make), dashboard pages, telemetry
  and retention, command-line programs that only read and print.
- **Modelled but without a caller**: the daemon never calls `reloadPeers`
  itself, so a changed peers.yaml takes effect at the next start; `Reload` is the
  operation as the subsystem exports it.  Neither does it start the Steward agent
  (`spawnStewardAgent`), which is modelled as its module exports it.

## 8. What is left

- One module for a job across `JobOrchestrator` and `JobRun`, so that the
  orchestrator's `Exit` and `Stopped` are those of a handle, as `GatedActions` is
  composed with `DecisionPromise`.
- The idle timer of `JobOrchestrator` on the clock of `JobWatchdog`, and its `ShedKill`
  on the ticks of `LoadShedder`.
- Properties for the four hazards without one: dispatches that start together pass the
  ceiling (`orchestrator.ts:979`), a row is written over after an await
  (`orchestrator.ts:466`), an approved BOM whose event was lost (`executor.ts:169`), a
  release that ends another's session (`steward/tools.ts:140`).  All four are
  behaviours the models contain (6).
