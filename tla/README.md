# ACE IT Center: a TLA+ verification project

ACE IT Center manages a fleet of Windows machines from one self-hosted server.
An Owner uses a web front end; a Go backend keeps everything in PostgreSQL; a
Windows service, the Agent, runs on each device; a separate updater process
upgrades the backend and web containers; a Windows update helper upgrades the
Agent. The modules here model the parts in which several processes, failures and
restarts meet, check them with TLC on small instances, and prove the safety
properties of each of them with TLAPS for every value of the constants.

Paths below are those of the repository.

## Inventory

| Component | State | Operations | Talks to |
|---|---|---|---|
| Command queue (`internal/postgres/commands.go`) | `command_tasks`, `command_executions` with status, lease hash, lease end, attempt, result | CreateCommand, RetryCommand, ClaimCommand (with the sweep of expired leases), StartCommand, CompleteCommand | HTTP API |
| Command worker and executor (`agent/internal/app/command_worker.go`, `agent/internal/command`) | the claim in hand, the running process | claim loop, start and complete with retries, Execute with timeout | queue, over HTTP |
| Upgrade manager (`internal/systemupdate`) | the state file (task, last check), the running job | Check, Start, run, rollback, Recover | Docker, registry, PostgreSQL dump, services' health |
| Updater process (`updater/cmd/ace-updater`) | its root context | recover, then serve; stop on SIGTERM | manager, backend's updater client |
| Agent controller (`agent/internal/controller`) | configuration, generation, launch gate, update flight, pending helper, status, worker | Bootstrap, Enroll, StartPairing, RestartWorker, CheckUpdate, Shutdown, pairing polls | configuration file, IPC, server, worker, update client |
| Service host and IPC (`agent/internal/windowsservice`, `agent/internal/ipc`) | open connections | serve, stop | controller |
| Heartbeat worker (`agent/internal/app/worker.go`) | last heartbeat and upload | heartbeat, log upload, status reports | server, controller |
| Pairing and enrolment (`internal/postgres/store.go`, `internal/api/router.go`) | pairing requests, enrolments, nodes, credentials, sessions, the rate limiter's windows | create, poll, approve, reject, expire, prune, enrol, set up the Owner | Agent, front end |
| Retention (`internal/maintenance`) | none | delete old samples and pairings | store |
| Update helper (`agent/internal/update/helper*.go`, `agent/internal/updaterapp`) | lock, backup of the executable, service state | stop, back up, install, restart, wait for health, roll back | service manager, installer |
| Update staging and promotion (`agent/internal/update/checker.go`, `promote.go`) | staging directory, pending updater | check, stage, promote | release server, file system |
| Network usage (`agent/internal/agent/network_usage.go`) | counters of the day and month, previous counters, a file | sample, roll over, save | collector |
| Windows service manager (`agent/internal/windowsservice/manager.go`) | the service's registration | install, restore, stop, uninstall | Windows |
| Release tool and manifest (`tools/cmd/ace-release`, `internal/release`) | signed manifests | sign, verify, publish | - |
| Tray, diagnostics, logging, front end, installer, scripts | view state and files | - | IPC, HTTP |

What is hard in this system:

* **Commands must not run twice** while every HTTP call can be lost, repeated or
  late, leases expire on the server's clock and are judged by the device's clock
  too, workers are replaced without waiting for them, and the Agent can die with a
  command running.
* **An upgrade of two containers** is a dozen Docker commands with a state file
  between them; the updater may be killed between any two, a command may fail and
  leave anything behind, and a version check may rewrite the state file meanwhile.
* **The controller's configuration** is replaced by pairings and approvals while
  update checks, polls and workers of earlier configurations are still under way,
  each having read it earlier.
* **Pairing requests** are decided by approvals, rejections and expiry that each act on
  the time at which their HTTP handler started, statement by statement, while devices
  poll and retention deletes.
* **An Agent replaces its own executable** with a helper process that has to bring the
  service back whatever fails, and while the service it has just started may launch the
  next helper.
* **Byte totals** must survive midnight, counter resets, restarts and failed saves, and
  a replaced worker that still samples next to its successor, on the same file.
* Stopping must not deadlock: Shutdown needs the gate that requests and update
  flights take, and waits for every goroutine.

`PROJECT.json` lists each of these hazards at its line with the property that
would catch it. The models also contain behaviours that the code accepts and about
which no document says anything, so that no property rules them out: a failed save at
the end of an upgrade leaves its task open until the updater restarts; one Docker error
during recovery is enough for manual intervention; a failed save of an approved
configuration ends the poll until the next start; a worker that is being replaced may
report its last state over the status of the next; a helper that is killed restores
nothing; a service that is still stopping cannot be started again by the helper, which
then gives up until the next boot.

## Plan

1. `CommandDispatch`: queue, API and worker in one module; `CommandOnce`, the abstract
   command centre it implements; `CommandDispatchProofs`. *Done.*
2. `SystemUpdate`: manager, state file, Docker platform, updater process;
   `SystemUpgrade`, the abstract upgrade it implements; `SystemUpdateProofs` and
   `SystemUpdateRefinement`. *Done.*
3. `AgentController`: controller, service host, configuration file;
   `AgentControllerProofs`. *Done.*
4. `Pairing`: pairing requests, enrolment, retention, `PairingProofs`; `PairingLimiter`:
   the limiter in front of them, `PairingLimiterProofs`. *Done.*
5. `UpdateHelper`: check, staging, launch, helper with rollback, promotion;
   `UpdateHelperProofs`. *Done.*
6. `NetworkUsage`: samplers, checkpoint, workers, `NetworkUsageProofs`; `UsageReport`:
   heartbeat and row. *Done.*
7. Left: Owner set-up and sessions; the publication order of the release tool.

## Modules

### CommandDispatch

One execution is a pair (task, device), as in `UNIQUE (task_id, node_id)`. A store
method is one action, since each is one transaction or one guarded `UPDATE`:
`CreateCommand`, `RetryCommand`, `ClaimCommand`, `StartCommand`, `CompleteCommand`.
`ClaimCommand` starts with the sweep (`SweptStatus`): expired running rows fail,
expired leased rows are queued again. Requests travel in `net`; an answer reaches the
worker only while it waits for it. A worker is a slot of a device, so a replaced
worker and its successor coexist; `pc` follows `CommandWorker.Run`, `start`,
`complete` and `Execute`. `Crash` ends all workers of a device and leaves the
command's process running. The lease token is a fresh number, which is what its
random value is used for. A completion is its status: output and exit code are left
out, so `SameCompletion` compares status and result. Two assumptions: killing the process
at its timeout works (`process_windows.go` waits for the process for ever when both
`taskkill` and `Kill` fail), and for liveness the device's clock is not a whole lease
ahead of the server's, since such a device refuses every claim (`client.go:137`). The
safety theorems hold for every skew.

### CommandOnce

What the Owner of a command may rely on, without leases, workers or network: a request
is opened, accepted once (the point of no return), its process is launched at most once
and only after that, and the Owner is told how it ended, or that it was given up
(`lost`), and nothing else later. A process may still be launched, or still run, after
its command was given up; the code cannot prevent that and the abstraction says so.
`CommandDispatch` maps its rows to phases with `PhaseOf` (queued and leased rows are
`open`, a failed row without a completion is `lost`), its launches to `runs` and the ends
of processes to `ended`.

### SystemUpdate

`Steps` is the list of platform calls of `Manager.run` with the stage each is made
under. The job thread goes `enter` (perform saves the stage), `act` (the call),
`leave` (perform saves the result), and after the last step `finish`. `HandleFailure`
decides between a plain failure, a rollback, and leaving the checkpoint to the next
process; `DeployRollback`, `WaitRollbackHealthy` and `EndRollback` are
`Manager.rollback`; `Recover` and `RecoverWait` are `Manager.Recover`. Docker is four
functions: the image and reference each service runs, its health, the rollback aliases
and the local images. A failing call may leave any of the results it can have. `Check`
keeps the mutex from its first inspection to its save, so no save of the job happens
meanwhile. `base` records, for the properties only, what ran when the task started.
The process is `down`, `recovering` or `serving`; `Terminate` is SIGTERM, and `Exit`
does not wait for the job, as `main` does not.

### SystemUpgrade

What the Owner may rely on, without steps, state file, aliases, restarts or failing
commands. An upgrade begins (`Begin`) only when none is under way, towards a pair of images
of one version that is newer than what both services run; it `prepares`, `switches`, and if
it is given up, `undoes`. A service moves only while the upgrade switches, to the goal or
to nothing, the web only after the backend (`Switch`); or while it undoes, back to what it
ran or to nothing (`Undo`), and an upgrade that undoes never switches again. `Succeed`
needs both services on the goal, `Fail` both on what they ran. `AskOwner` is manual
intervention, which ends everything. `SystemUpdate` maps the stage of the task in the state
file to a phase (`PhaseOf`), its containers to `runs` (`Runs`), the history variable `base`
to `was` and the target of the task to `goal`.

### AgentController

A section under `Controller.mu` is one action; `launchGate` is held across several.
`Request` to `RequestStart` are `Enroll` and `StartPairing`, `PollFires` to
`ApproveStart` the polling goroutine of a generation, `CheckUpdate` to `FlightEnds`
an update flight, `RestartRead` and `RestartStart` the two halves of `RestartWorker`.
`Stop`, `Shutdown`, `ShutdownDone` follow the service host: cancel the context, wait
for the IPC handlers, shut the controller down. Both ways to get a configuration are
offered all the time; the service itself offers only pairing over IPC, the foreground
mode also enrolment. An identity is a number in the order the server issued them. The
worker's own states (starting, online, error, stopped) are one.

### Pairing

An HTTP request is a handler goroutine: `Begin` reads the clock once, as every handler
does, and each statement outside a transaction is one action that uses that reading.
`ApprovePairingRequest` and `EnrollNode` are transactions, with one action per statement
that can meet a lock: the `SELECT ... FOR UPDATE` and the checks under it (`ApproveLock`,
`EnrollLock`), the read of the node (`ApproveFind`), the INSERT or UPDATE of the node, which
waits for any other transaction that writes the same node (`ApproveNode`, `EnrollInsert`),
and the rest up to the commit, which can meet no lock (`ApproveCommit`, `EnrollCommit`). The
expiry UPDATE of the list takes its rows one by one (`ListStart`, `ListRow`) and keeps them
until its end (`ListExpire`). `Holds` and `Wants` say what a handler has locked and what its
next statement has to lock; a machine stands for its node, be it the row or the entry that an
uncommitted INSERT has in the unique index. What a transaction has written becomes visible
with its commit. Executions of the one expiry UPDATE are assumed to visit the rows in one
order, that of the same scan; PostgreSQL does not promise it, and without it two lists at the
same time deadlock (the mutant of `NoLockCycle`). Heartbeats also write node rows, but hold
one row only and wait for nothing with it, so they are left out.

The unique index on `nodes.machine_id`, which leaves out the empty machine id, makes the
later of two inserts fail and roll back. `Abort` is a request that the limiter refuses, a
client that goes away, a failed statement or a server stop: the transaction is rolled back. A
node remembers the use of the token it came from, for the properties only. `told` records
every answer about a request: the final states that polls and successful decisions report,
and the refusals of a decision with "pairing expired" (410).

Four things the model shows about this code that no document rules out. Approving a due
request writes "expired" and rolls that back (the transaction returns without a commit), so
the Owner may be told "expired" and an approval whose handler started earlier still succeeds.
Rejecting a request that was approved in time is answered "expired", not "conflict", once its
lifetime is over. For both reasons `VerdictIsFinal` takes a 410 for no more than it is: the
request's lifetime is over. Approving an older request of a machine after a newer one replaces
the newer credential. A pending request nobody polls or lists is never marked expired nor
pruned. The router's test double returns an existing request when a device posts again
(`internal/api/router_test.go`); the store inserts a new row each time, which is what is
modelled.

### PairingLimiter

The limiter's map is a window per key, an address or a machine id, with count 0 for a key that
is not in it. `createPairing` reads the clock (`ReadClock`) before `Allow` takes the mutex, and
these are two actions, so that readings reach the limiter in any order. With an old reading,
`Allow` may count in a window that starts later, or open one that lies in the past and that
the next eviction removes. `RateBound` therefore has a term for them: with readings in order a
device gets at most `2 * RateLimit - 1` requests through in a `RateWindow`, and `RateLimit`
more for every request of its own that passed with a reading older than one already used
(`stale`). Restarting the server empties the map; the model does not restart it.

### UpdateHelper

Files hold versions; `Corrupt` is an executable of no release. The Agent's side is
`CheckRelease`, `Stage`, `LaunchApply` or `LaunchFails`, `PendingExpires`, and the promotion
of a pending updater in two steps, the comparison of its version (`CheckPendingUpdater`) and
the loop of up to 90 seconds that replaces the fixed updater (`PromotePendingUpdater`). A helper's program counter follows `RunHelper`, and from
`undoStop` on `rollbackHelper`; each operation is one action with its failures.
`StopServiceFails` and `StartServiceFails` cover the 30-second waits, `RunInstaller` a
failure before or after either of the two files it writes; it force-closes a service that was
started again meanwhile (`CloseService`), after which recovery may start it once more. `Recover` is the recovery
action of the service manager, which may restart a crashed service in the middle of an
update. A helper reaches its mutex in the step that launches it. The installer
(`installer/windows/AceAgent.iss`, in its update-helper mode) and Windows' refusal to
replace a running executable are modelled from how the helper uses them. At the installer's
timeout only the setup process is killed (`helper_windows.go:195`); the child process that
Inno Setup works in is assumed to end with it, and not to write after the restore. An
installer that somebody starts by hand does not take the mutex and is not modelled.

### NetworkUsage

A day is a number and a month a run of days; the counters of the operating system start above
zero and grow, and a change of interfaces (a restart, one that goes away or comes back with
its own counters) sets them to anything. Every worker has a sampler of its own
(`cmd/ace-agent/main.go:311`) and all share one checkpoint. `startWorker` only cancels the
worker before (`StartWorker`), which ends the sample it is in, may begin another one, since
`select` may choose its ticker, and ends between two heartbeats (`EndWorker`); so samplers
overlap. `Sample` is three actions: the counters and the clock (`ReadCounters`), the load on
first use, roll-over and addition (`Account`), and the save (`Save`). `Crash` may come anywhere.

An account is the state of a sampler or the checkpoint, and is judged by itself, with the
checkpoints it continues: `ledger` is the last total it had for each day, `first` the reading
it began with. The server keeps the last report only, so that is what the Owner sees. Going
back to an older checkpoint after a failed save loses nothing, since the bytes since then are
the difference of the counters, but may put them on another day.

One order does count bytes twice, and `NoByteTwice` excepts it (`raced`): the new worker reads
the counters, the replaced one reads them later, accounts and saves, and then the new one loads
that checkpoint. Its own older reading looks like a counter that went back, so it becomes the
baseline, and what lies between is counted again. Bytes that an interface brings back are
counted as traffic, which `Sample` cannot tell apart; the bound allows for them (`back`). A
sample whose clock went back adds its bytes all the same: `Sample` compares times only for the
rates, although `docs/superpowers/specs/2026-08-03-network-usage-totals-design.md` wants a
sample with an invalid time to start from a new baseline. The rates are left out.

### UsageReport

The heartbeat of the running worker: `Sample` or `SampleFails`, then `Deliver`, or `Timeout`
and `ArriveLate`; `ReplaceWorker` is a new worker or a crash, and a heartbeat that was under
way may still arrive. The server writes what it gets. A report is a day and a total, whatever
the sampler returned.

### MC modules

They hold what the configurations need besides values: symmetry sets, a negative skew,
version labels, the releases that work. `MCPairing` and `MCNetworkUsage` explore two modules
side by side that do not act on each other: a behaviour of the run is one of `Pairing` with an
unused limiter or one of `PairingLimiter` with an empty store, and one of `UsageReport` before
anything is sampled or one of `NetworkUsage` after the first report. Every behaviour of either
module, within its bounds, is explored.

## Runs

| Run | Checks | Bounds |
|---|---|---|
| `CommandDispatch` | type, at most one launch, results real, acknowledged is stored, retries reach only failures | 2 tasks, 1 device, 2 overlapping workers, lease 2, timeout 1, 2 faults |
| `CommandDispatchLive` | every command is decided; the protocol implements `CommandOnce` | 1 task, 2 overlapping workers, the device's clock behind the server's, 2 faults, fair |
| `SystemUpdate` | type, failed leaves the originals, succeeded runs the target, rollback possible (aliases and backup), one task at a time; the updater implements `SystemUpgrade` | 3 images, 2 tasks, 3 faults, 1 failed save, 2 stable rounds |
| `SystemUpdateLive` | every task ends | 3 images of 2 versions (one published twice), 2 tasks, 1 fault, no failed save, 2 stable rounds, fair |
| `AgentController` | type, verdicts real, launch under its configuration, saved is active, quiet after a launch, newest identity | 2 identities (5 generations), 2 faults, 1 file fault |
| `AgentControllerLive` | stopping completes, approved is enrolled | 2 identities, 1 fault, no file fault, fair |
| `Pairing` | type, a reported verdict is final, credentials are granted, one node per machine, token uses, rate bound, no cycle of locks | 2 requests of 1 machine, 1 token with 1 use, 2 concurrent handlers, requests live 1, retention 1, clock up to 3; limiter: 2 devices, 2 addresses, 2 handlers, limit 2, window 2, 3 windows, 5 requests, clock up to 4 |
| `UpdateHelper` | type (only releases are installed), the backup is the previous executable, verdict matches the disk, updater not ahead; the service comes back, the newest release is installed | 3 releases of which the second never becomes healthy, 2 helpers, 3 faults, fair |
| `NetworkUsage` | type, today within the month, no byte twice, every byte counted; the row catches up | 2 overlapping workers, 3 days in 2 months, counters up to 2, 1 fault, 1 replaced worker or crash; reports: 2 days, 2 failures, 1 replaced worker, fair |

The numbers are in the `.cfg` files. The bounds are chosen so that every hazard
happens: two identities give a replaced pairing, an enrolment that is replaced, and a
flight of an old generation; two faults in `CommandDispatch` are enough for a lost answer
followed by a slow worker, a crash or a replaced worker, and the proofs cover the rest for
every bound; two tasks in `SystemUpdate` give a task after a failed or a successful one,
and in `SystemUpdateLive` a version is published again while it is being installed.
In `Pairing` two handlers and two requests of one machine give every race of two
statements and every pair of lock holders, and the clock passes the lifetime and the
retention of a request; the limiter's intervals meet two windows, its map of three windows is
full with two devices and two addresses, and readings get stale. A bad
release between two good ones in `UpdateHelper` gives a rollback, then an update over its
remains. `NetworkUsage` has midnight within a month and at its end, a replaced worker at
every place of `Sample`, and one fault before, during or after that; the proofs cover more of
each. Deadlock is not checked in `SystemUpdate` and `UpdateHelper`: an updater or
device with no release left is idle and may stay so; nor in `Pairing`, where calls and time
are bounded and `NoLockCycle` states what matters.

Every passing run checks each property against a mutant: a definition such as
`LeaseValidNoToken`, which drops a guard the way a bug would, stands before the
definition it would replace, and with it TLC finds the property violated.

### Runs that show a disagreement

* `CommandDispatch_OneCommandPerDevice`: the design wants one command per device at a
  time; `startWorker` does not wait for the worker it cancels.
* `SystemUpdate_InterruptedBeforeSwitchFails`: a restart between tagging an alias and
  saving it ends in manual intervention, where the plan says failed.
* `SystemUpdate_RecheckAfterRollback`: the upgrade after a rollback fails at its first
  inspection, and from then on no check works, where the design says that checks are
  possible again.

`PROJECT.json` quotes the sentence each of these runs states. The command design also
says that a lease covers the longest timeout; a start accepted late leaves less of the
lease than the command may take, which `CommandOnce` allows as a command that was given
up.

## Fairness

* `CommandDispatch`: goroutines keep running; a request its worker waits for is
  handled; time passes; the Windows service has automatic start and recovery actions
  (`installWithManager`), so a device without a live worker gets one. Faults are
  bounded, so a call is not lost for ever.
* `SystemUpdate`: the job and a check go on, a terminated process exits, and Docker
  restarts the updater (`restart: unless-stopped` in `compose.yaml`). The job has
  strong fairness: its saves compete with checks for a `sync.Mutex`, which hands itself
  to a starving waiter.
* `AgentController`: goroutines run and calls return (they have timeouts), a cancelled
  worker ends, the service is started again. Only Shutdown has strong fairness: update
  checks may take the launch gate before it again and again, and a Go channel serves
  its receivers in order.
* `UpdateHelper`: the Agent checks again and again, its promotion and a helper go on, a
  service told to stop stops, and recovery actions fire. A release, a fault or a reboot is
  never promised.
* `UsageReport`: the worker's ticker fires, and of heartbeats sent again and again one
  is answered (strong fairness of `Deliver`, since timeouts and restarts interrupt it).
* `Pairing`, `PairingLimiter` and `NetworkUsage` state safety only.

## Proofs

`CommandDispatchProofs` proves for every set of tasks, devices and workers, every
lease, timeout, skew and number of faults:

| Theorem | Property |
|---|---|
| `TypeCorrect` | `TypeOK` |
| `LaunchAtMostOnce` | `AtMostOnce` |
| `LaunchRecorded` | `LaunchedIsRecorded` (not in a run: `ImplementsOnce` contains it) |
| `ResultReal` | `StoredResultIsReal` |
| `AckStored` | `AckedResultIsStored` |
| `RetrySound` | `RetryOnlyFailures` |
| `LifeCycleKept` | `LifeCycle` (not in a run: `ImplementsOnce` contains it) |
| `Refinement` | `ImplementsOnce` |

from `DispatchAssumption` only (lease and timeout positive, the skew an integer,
`NoExec` no execution). The argument is one inductive invariant, `IInv`. `AtMostOnce` is
not inductive: that a second launch cannot happen depends on who may still hold an
accepted start. The strengthening says

* `TokenInv`: every lease token in a row, a request or a worker's claim was issued, and no
  two workers hold the same one;
* `RowInv`: which statuses have a lease;
* `NetInv`: a request names the execution of the claim it was sent under, and a completion
  on its way carries the outcome of the execution's process, whose row is started under
  the same lease;
* `StartInv`: a worker that may run a process owns its row, and the row is started;
* `LaunchInv`: a row with a launch has exactly one, is started, and its owner is past the
  start;
* `OutcomeInv`: once a process has ended, its owner only reports, and reports its outcome;
* `ResultInv`: stored and acknowledged completions agree with it;
* `TaskInv`, `RetryOnlyFailures`: a task that does not exist has no rows, and the source of
  a retry stays failed.

Each action preserves each part by a lemma of its own; the theorems follow by one
temporal step. `LifeCycle` is an action property and follows from the same invariant.
`Refinement` maps every action to a step of `CommandOnce`: a new task to `Request`, a
claim to `GiveUp` of the rows its sweep fails, an accepted start to `Accept` or a
stutter, a launch, the end of a process and an accepted completion to `Launch`, `End` and
`Report`; that these are enabled is what `LaunchInv`, `OutcomeInv`, `NetInv` and
`ResultInv` say.

`PairingProofs` proves for every set of requests, machines, tokens and handlers, and every
lifetime and retention:

| Theorem | Property |
|---|---|
| `Invariance` | `IInv`, the inductive invariant |
| `TypeCorrect` | `TypeOK` |
| `VerdictFinal` | `VerdictIsFinal` |
| `CredentialGranted` | `CredentialIsGranted` |
| `OneNode` | `OneNodePerMachine` |
| `UsesBounded` | `TokenUses` |
| `RequestLifeCycle` | `RequestsLive` (action property) |
| `NodeLifeCycle` | `NodesLive` (action property) |
| `NoDeadlock` | `NoLockCycle` |

from `PairingAssumption` (requests are numbers, in the order of a scan; lifetimes and limits
positive; requests, tokens, machines, `Nobody` and `Blank` apart). None of the safety
properties but the type is inductive: what an approval or enrolment commits was checked in an
earlier statement of its transaction. The strengthening says

* `CallInv`: what each handler may rely on between its statements (`Fits`: its reading is not
  ahead of the clock, the row it has locked is still pending, the token it has locked still has
  a use left, the node it is about to insert is not there, the rows a scan has changed come
  before those it still visits), that no two handlers hold the same lock, and that nobody else
  knows a request that is being inserted;
* `RowInv`: a request that exists names a machine, none expired before its time, and an unknown
  token has no uses;
* `UseInv`: `TokenUses`, element by element.

`RequestsLive` is the life of a request: created pending, decided once, expired only when
its lifetime is over, deleted only when decided and older than the retention, and otherwise
unchanged. `NodesLive` is that of a node: it stays, and its credential is replaced only in
the very step that approves a pending request of its machine. Both are about single steps
but not about single actions: the expiry UPDATE uses a time that its handler read earlier, and
the approval a node that it looked up in an earlier statement.

`NoDeadlock` follows from the invariant. A transaction that holds a node waits for nothing, and
one that waits for a node waits for such a one; so a circle has none of them, and only scans
are left that hold something and wait. Each waits for a row that the other has changed, which
lies before the row the other waits for, so that a circle of scans would descend for ever.

`PairingLimiterProofs` proves `RateBound` (theorem `RateBounded`) for every limit and
window and any number of devices, addresses and handlers, from `LimiterAssumption`. A
window forgets what came before it, so its count alone is not inductive. `LimiterInv`
(theorem `LimiterInvariant`) relates it to all the requests of the device that have passed,
where `k` is `RateLimit` times the number of its stale ones and `n` the newest reading:

* with a window: at most `RateLimit - 1 + count + k` requests lie in the `RateWindow` up to
  `n`, at most `count - 1 + k` of them after the window's start, at most `k` after its end;
* without one: at most `RateLimit - 1 + k` lie in the `RateWindow` up to `n`, and at most `k`
  at `n`;
* no interval of that length holds more than `2 * RateLimit - 1 + k`.

`KnowsEvicted`, `KnowsPassed` and `KnowsStale` are the three ways in which `Allow` changes a
window: eviction, a reading in order, a stale one.

`SystemUpdateProofs` proves for every set of images, assignment of versions, number of
tasks, faults, failing saves and stable rounds:

| Theorem | Property |
|---|---|
| `SystemInvariant` | `SystemInv`, the inductive invariant |
| `SystemTypes` | `TypeOK` |
| `FailureRestores` | `FailedLeavesOriginal` |
| `SuccessIsCurrent` | `SucceededIsCurrent` |
| `RollbackIsPossible` | `RollbackPossible` |
| `NoSecondTask` | `OneTaskAtATime` |
| `OnlyNewer` | `NewerOnly` (action property; not in a run: `ImplementsUpgrade` contains it) |

from `UpdateAssumption` (images are positive numbers, `NoImage` is not one of them; every
image has a version; the bounds are natural numbers, at least one stable round). The
difficulty is that the updater may die after any step, so that the state file has to
promise enough for `Recover`, which sees nothing else. Besides the types, `SystemInv` says

* `DockerKnows`: a service runs its old image or the target, if anything, and Docker has
  every image that a container or an alias names;
* `FileKnows`: what each stage in the state file promises: nothing switched before
  "switching_backend", the dump, both aliases and both originals from there to
  "stabilizing", the originals until the end of a rollback, both targets from "cleaning";
* `JobKnows`: what the job knows at each step, from the steps it has completed
  (`Progress`), and that the task in memory is the saved one except between a change and
  its save;
* `CheckKnows`: what a check under way has seen of a service is its old image or the target,
  and the target once the task has succeeded;
* `VersionsKnow`: targets and offered updates have one version, newer than the one the
  services return to.

`SystemUpdateRefinement` proves from the same assumption that the updater implements
`SystemUpgrade`:

| Theorem | Property |
|---|---|
| `UpgradeInvariant` | `UpgradeInv`, that is `SystemInv` and `StageKnows` |
| `UpgradeRefinement` | `ImplementsUpgrade` |

`SystemInv` does not quite suffice: between two steps the job saves the next stage, and
whether that save is a step from "prepares" to "switches", or none, depends on the stage the
file shows before it. `StageKnows` says that this is a preparing one up to the first switch
and a switching one after it, and that a job which failed before the first switch has never
saved a switching stage. Each action then is a step of `SystemUpgrade` or a stutter: `Start`
is `Begin` (`VersionsKnow` makes the pair newer, `CheckKnows` makes the check one of what
still runs), a Docker command that replaces a container is `Switch` or `Undo`, a save is
`Proceed`, `Withdraw`, `Succeed`, `Fail`, `AskOwner` or a stutter, and so is each way that
`Recover` ends.

`AgentControllerProofs` proves for any number of identities, faults and file faults:

| Theorem | Property |
|---|---|
| `ControllerInvariant` | `ControllerInv`, the inductive invariant |
| `ControllerTypes` | `TypeOK` |
| `RealVerdicts` | `VerdictIsReal` |
| `LaunchesUnderConfig` | `LaunchUnderConfig` |
| `ActiveIsSaved` | `SavedIsActive` |
| `QuietAfterALaunch` | `QuietAfterLaunch` (action property) |
| `NewestIdentityIsKept` | `NewestIdentity` (action property) |

from `ControllerAssumption` (the bounds are natural numbers). `ControllerInv` says what
each goroutine that holds `launchGate` may rely on between two sections under
`Controller.mu`: `RequestKnows` for Enroll and StartPairing, `PollsKnow` for the polls of
every generation, `FlightsKnow` for the update checks; that a process that is down holds
nothing (`DownIsIdle`); that identities in use were issued (`IdsIssued`) and get at most two
generations each (`GenerationBound`, needed for the type of `generation`); and that
`pending` is set exactly within the TTL of a launch (`PendingIsRecent`).

`UpdateHelperProofs` proves for any number of releases, of helpers at work and of faults:

| Theorem | Property |
|---|---|
| `UpdateInvariant` | `UpdateInv`, the inductive invariant |
| `UpdateTypes` | `TypeOK` |
| `RollbackHasBackup` | `BackupIsPrevious` |
| `HelperVerdict` | `VerdictMatchesDisk` |
| `UpdaterBehindAgent` | `UpdaterNotAhead` |
| `PublishedInvariant` | `UpdateInv` and `PublishedFirst` |
| `ExecutableOnlyMoves` | `ExecutableMoves` (action property) |

from `UpdateAssumption` (at least one release; the first and the last are good). The
strengthening: the mutex leaves one helper at work (`OneHelper`), a staged installer has
passed the comparison with the manifest (`StagedIsGood`), a running service runs what is
installed, and the updater it has checked for promotion is still the pending one
(`RunsInstalled`), and at each place of `RunHelper` the helper knows which of its
two versions the executable, the backup and the updater are (`HelpersKnow`).
`ExecutableMoves` says that AceAgent.exe changes only with the service not running (the
installer closes one that was started again), from
the executable that was backed up to a newer published release, or back to it. That the
installer moves forward is decided long before, when the check compares the manifest with
the running Agent; `PublishedFirst` carries the comparison (`Ahead`) through the helper's
steps, restarts of the service and newer publications, and `Advances` states what a step of
any place of `RunHelper` does to a helper's record.

`NetworkUsageProofs` proves for any number of workers at the same time, of days and faults,
any length of a month and any counters:

| Theorem | Property |
|---|---|
| `UsageInvariant` | `UsageInv`, the inductive invariant |
| `UsageTypes` | `TypeOK` |
| `DayWithinMonth` | `TodayWithinMonth` |
| `NothingTwice` | `NoByteTwice` |
| `NothingLost` | `EveryByteCounted` |

from `UsageAssumption` (natural numbers, at least one day in a month). The totals are sums
over all days. The library's induction theorems take a predicate, which the provers cannot
instantiate; `NatSetInduction` and `SubsetInduction` take a set in its place and follow from
the existence of minimal elements (`WFMin`). With them `SumExists` and `SumFold` show that
`MapThenSumSet` is the sum it should be, and `SumChange` what it does when one day changes.
Every account, that of each sampler and of the checkpoint, then satisfies `AccountOK`: a
sample wrote it (`Written`); unless there was a race, its ledger together with what the
counters have grown by since its last sample is covered by bytes that moved or came back
(`Covered`); and while all is clean it has exactly what the counters grew by (`Complete`). None
of this says what happens to a reading that a worker has taken and not yet accounted for, while
others move on: `ReadingOK` does, for every state that the reading may be added to (`Bases`),
which for a sampler that has not loaded yet is the checkpoint of whoever saves first. That is
where the race has to be excepted: a save puts a newer checkpoint under such a reading.

`SystemInv`, `UpgradeInv`, `ControllerInv`, `UpdateInv`, `PublishedFirst`,
`ExecutableMoves`, `RequestsLive`, `NodesLive`, `UsageInv` (with `MapThenSumSet` for `SumOf`,
which TLC cannot evaluate) and `LimiterInv` hold in TLC on the instances of the runs as well.

Only model-checked: the liveness properties `EventuallyDecided`, `TaskEnds`, `StopCompletes`,
`ApprovedIsEnrolled`, `ServiceComesBack`, `NewestIsInstalled` and `ServerCatchesUp`, which hold
under fairness and are out of TLAPS's reach. `Refinement` and `UpgradeRefinement` prove the
safety part that `CommandOnce` and `SystemUpgrade` state, which is all of them.

## Not modelled

Wording, formatting, logging, metrics, HTTP framing and authentication; the tray and the
front end (views); diagnostics and paths (input and output); cryptography of passwords,
tokens and release signatures; installer, build and deployment scripts; the inventory
(organizations, sites, groups, remarks, network history: single statements without a
protocol), Owner set-up and sessions, log upload, the updater client of the backend (a
stateless proxy), pruning of network samples.
Within the modelled parts: power loss below the file system (a rename is durable or not
made), the rollback's override file, and HTTP redirects and retries of the client library.
