# Verification of parkrpi

parkrpi is the software of a small robot on a Raspberry Pi: a C program that
forks a system server, an input shell, a web server and a browser; a Go backend
that stores robots in a bolt database, takes their telemetry from a message
queue and sends it to browsers over web sockets; a TypeScript page that shows
the robots and drives their motors; and a kernel driver for a temperature
sensor. This directory holds TLA+ models of the parts of it that run
concurrently, fail half-way or depend on the order of things, the TLC
configurations that check them on small instances, and TLAPS proofs of the
properties that matter most for every value of the constants.

`PROJECT.json` is the index: components, runs, the source lines behind every
definition (`map`), hazards with the properties that cover them, findings and
theorems. Paths below are relative to the root of the repository.

## 1. Inventory

### The C program (`main.c`, `system/`, `ui/`, `web_server/`, `hal/`)

| Part | State it keeps | Operations | What is hard |
|---|---|---|---|
| Process tree: `main.c`, `create_*` | pids (all 0, see section 7), the four message queues | fork and clone, SIGCHLD handler, four `waitpid` | the handler reaps the children `main` waits for |
| System server: `system/system_server.c` | `timer`, `global_timer_sem`, the inotify descriptor, the loop flag and its condition variable | six threads: watchdog, monitor, disk, camera, timer, engine; SIGALRM handler | a signal that may hit any thread, asserts behind `mq_receive`, a semaphore between handler and thread |
| Input process: `ui/input.c` | the shared segment, the shell's prompt | sensor thread, command thread with nine commands, seccomp filter | sends to bounded queues that outlive their readers |
| Shared memory: `system/shared_memory.c` | one System V segment | create, attach, key id | no lock between the sensor thread and the monitor |
| Camera HAL: `hal/` | a module handle | `dlopen`, take picture, dump | an assert when the module is missing |
| State dump: `system/dump_state.c` | none of its own; up to three descriptors of the system server | opens, prints and closes `/proc` files and directories | runs in the monitor thread while the disk thread leaks descriptors |
| Sensor driver: `drivers/sensor/sensor.c` | device, class, cdev, i2c client, kobject, timer, work queue | module init and exit, read, sysfs, timer callback | start and stop order against timer and work |

The processes talk through POSIX message queues of ten messages
(`/watchdog_queue`, `/monitor_queue`, `/disk_queue`, `/camera_queue`) and one
shared segment. What makes them correct: no alarm is lost or counted twice, no
thread waits for ever while its peers live, what the monitor prints is neither
older nor much newer than what it was told of, and no message takes a process
down.

### The Go backend (`be/`)

| Part | State it keeps | Operations | What is hard |
|---|---|---|---|
| Web-socket hub: `pkg/robots/hub.go`, `client.go`, `websocket.go`, `broadcast.go` | the map of clients, three unbuffered channels | register, unregister, broadcast, read, write | goroutines of every connection around one that serves them all; sockets that stop reading |
| Robot store and telemetry: `pkg/robots/robots.go`, `storage.go`, `pkg/storage/bolt/robots.go`, `cmd/robots.go` | the robots bucket, the decode buffer | rebuild at start, receive, get, update, announce | read-modify-write over several transactions, panics, kills between transactions |
| REST handlers: `pkg/api/robots.go` | none of their own | list, create, change, motor commands | run concurrently with telemetry |
| Users: `pkg/users`, `pkg/storage/bolt/users.go`, `cmd/users_*.go` | the users bucket and its counter | add, rm, update, import, find, export | imports of many transactions, ids given by the database or by a file |
| Settings and start: `pkg/settings`, `cmd/config_*.go`, `cmd/root.go`, `cmd/utils.go` | settings, server settings, auther, the file of a unix socket | quick setup, `config init`, `config set`, checks at start, listener and signal handler | several saves that a kill can cut; a socket file only a clean end removes |
| Authentication: `pkg/auth`, `pkg/api/auth.go` | none | `withUser` around the robot handlers but for those of a motor; login, sign-up, three methods | `withUser` wants a user called "admin", whatever the users are called; no route leads to the rest |
| Plumbing: `pkg/api/http.go`, `data.go`, `static.go`, `pkg/runner`, `pkg/shell`, `pkg/logger`, importer | none | routing, static files, hooks that nothing runs | nothing |

What makes it correct: every viewer gets every state once and in order and no
slow or broken viewer spoils it for the rest; what viewers are told is what is
stored; telemetry never undoes what a user set; the table a service starts with
is the table it should have however often it was killed; a service that is up
has its settings; a user whom a list or a command names is the one it changes.

### The page and its client (`fe/`, `api/`)

| Part | State it keeps | Operations | What is hard |
|---|---|---|---|
| Robot page: `fe/src/reducers`, `actions`, `components/robot-page`, `utils/socket.ts` | `RobotsState` (`current`, `updating`), the socket | load, state over the socket, motor command, reload after five seconds | three connections whose answers nothing orders |
| API client: `api/src` | none | REST requests | none |
| Notifications, layout: `fe/src/reducers/notifications-reducer.ts`, `components/` | error slots | show, hide | none |

What makes it correct: the page shows what the database holds except for what it
provably could not hear, never steps back in time on the socket, hands on
commands in the order they were given and comes back after a lost socket.

### How the parts interact

The device's process (not in the repository) puts telemetry into
`/mq_sys_to_be`; the backend stores it, then announces it through the hub to
every page; a page drives motors with REST requests whose handlers put messages
into `/mq_be_to_sys`. The input process feeds the system server. The two halves
meet only in those queues: nothing in the repository reads `/mq_be_to_sys` or
writes `/mq_sys_to_be`, so their far ends are environments of the models.

## 2. Modules

| Module | Models | Composed with |
|---|---|---|
| `StateFeed` | what the hub promises: lock-step publication to subscribers | refined by `WebSocketHub` |
| `WebSocketHub` | hub goroutine, upgrade, readers, telemetry hand-over, browsers | `StateFeed` |
| `RobotService` | the way of a state from the database through the hub to a page | extends `WebSocketHub`, refines `RobotPage` |
| `RobotStore` | database rows, telemetry goroutine, REST handlers, start, kill, failing transactions | |
| `SystemTimer` | interval timer, SIGALRM handler, timer thread, the effect of the signal on every other thread | refined by `SystemServer` |
| `SystemServer` | the disk thread's walks, the monitor's dumps and the descriptors they share | extends `SystemTimer` |
| `ToyIpc` | sensor and command threads, monitor, camera and engine threads, queues, segment | |
| `RobotPage` | page, its three connections, backend as the modules above leave it | |
| `AdminCommands` | the database and the socket file over their life: start and end of services, robot requests, config and users commands | |
| `ProcessTree` | `main`, the processes it makes, the SIGCHLD handler and the waits, the shell of `sh` | |
| `SensorDriver` | loading and unloading of the kernel module, its timer, work, files and attributes | |
| `MCRobotService`, `MCRobotStore`, `MCSystemTimer`, `MCAdminCommands` | symmetry, lists and sets for the runs of the module they are named after | |
| `WebSocketHubProofs`, `RobotServiceProofs`, `RobotStoreProofs`, `ToyIpcProofs`, `RobotPageProofs`, `AdminCommandsProofs`, `SensorDriverProofs` | theorems about the module of the same name | |
| `ProcessProofs` | theorems about the processes of the C program: `SystemTimer`, `SystemServer`, `ProcessTree` | |

Variables keep the source's names where there is one (`clients`, `msg`,
`updating`, `timer`); program counters name the call a goroutine or thread is
in. Each action is one handler, or the part of it between two points where
another process can come in: a channel rendezvous, a bolt transaction, a system
call. Variables called history or `missed`, `heard`, `raced`, `edited`, `shown`
(in `RobotStore`) record the past for a property and guard nothing.

Definitions whose comment begins with "Mutant:" are altered copies of the
definition that follows them, each with one plausible mistake in it. No
specification uses them. They are kept to show that every property can fail:
with the altered definition in place of the right one TLC finds the property
violated.

### WebSocketHub

`hub` is where `HubStart` is: its `select`, its range loop, or inside
`Client.Write`. `handler[c]` is where the goroutine of connection `c` is. A send
on an unbuffered channel and its receipt are one step (`Register`, `Unregister`,
`TakeBroadcast`). A socket is a buffer of `SendBuffer` states: a write returns
when there is room and fails once the peer is gone; errors are sticky, as in
gorilla's connection. Browsers receive, stall, resume and leave.

### RobotService

`WebSocketHub` with a store before it and a page behind it. `about` lists the
robots of the states stored so far; the telemetry goroutine stores the next one
when the hub has taken the last. One connection at a time is the page's
(`mine`), and a page that is loaded anew takes another; the rest belong to
anybody. Each end of the page's connection can lose it alone: `BackendLosesPage`
is the backend's read or write failing while the page hears nothing,
`PageLosesSocket` is the page's `onclose`, after which the reader finds out
later or never. The page's `conn` and `wire` are not variables but read off the
hub: the page is "open" once the hub has taken its registration, "lost" once the
backend's end failed, and what is on its wire is what its socket holds and,
while the hub is ranging over its clients, the state it has still to write. With
this mapping `ImplementsPage` says that the composition is an implementation of
`RobotPage`: the reduced backend in that module leaves nothing out that a page
could see.

### RobotStore

Every storage call is a bolt transaction and a step. The telemetry goroutine is
`rpc`: opening its queue, receiving, updating (between `Get` and `Update`),
announcing. REST handlers interleave with it; a field-wise PUT is one
transaction per field. `checkErr` reports through a logger that is never set, so
every error in the goroutine is a panic that ends the process: `GoDown` with its
cause. A start deletes the rows one by one and saves the device's own; `Killed`
may come at any step and leaves database and queue as they are. Any transaction
may fail: `InitRobots` ignores or logs it, a REST handler answers 500, the
telemetry goroutine panics. The id 0 is no row: telemetry may carry it and finds
no robot, and a start with the flag at 0 tries to save it and logs that storage
refuses (`failed`). `handle` reads the settings before every request and ends
the process when it cannot.

### SystemTimer

The kernel may deliver SIGALRM to any thread in `AlarmThreads`. The actions
`AlarmIn...` say what the interrupted call does: `sem_wait` is called again,
`sleep` is cut short, the condition wait may return, `mq_receive` fails and the
assert behind it aborts the process, `read` fails and ends the disk thread.

### SystemServer

What two of the threads do when they are out of their call. The disk thread
walks `./fs` and opens a directory per level, closing none (`leaked`). The
monitor thread, for one of its two messages, runs `dumpstate`: files, then
`/proc`, each process's `cmdline` and task directory, each thread's files, then
the last files. `place` is where it is. Every open takes one of `Descriptors` or
fails, and a file or process may be gone. Leaving the descriptors out gives
`SystemTimer` back (`ServerImplementsTimer`).

### ToyIpc

Two queues, a segment that was created, could not be created or could not be
mapped, and the threads around them, one step per system call or field. The
segment has no lock: the sensor thread stores while the monitor prints. `ahead`
counts, for each field, the stores beyond the sample the monitor's message was
about. The server can end at any time, by an alarm that fails an `mq_receive`
(`AlarmInReceive`) and by an attach that fails (`AttachFails`), which `shmat`
may do on a segment that exists as well; the monitor reads through the -1.
Commands that only print are not distinguished; `mincore` and the end of input
end the process, `exit` only its command thread. The `sh` command runs
`toy_shell`, which is in `ProcessTree`.

### RobotPage

The backend is reduced to what the other modules show: a state is stored, then
announced, and a registered connection carries every announcement in order. A
request is a pair of session and number; a session is one loading of the page. A
connection may be "lost": the backend has closed it and the page trusts it
still, because nothing pings and no read has a deadline. What was written may
arrive up to any point (`WireIsCut`). The JavaScript of a page runs one handler
at a time, so a handler is a step.

### AdminCommands

bolt locks its file, so commands do not interleave; the steps are the saves, and
a kill may come between any two. `Order` gives the saves of quick setup, `config
init` and `config set`. Settings are reduced to the authentication method, a
user to id and name; `Numeric` are the names that read as numbers, which
`parseUsernameOrID` turns into ids the user store does not accept. A service may
listen on a unix socket, whose file only the signal handler removes. `answers`
are the kinds of answers the running service has given to requests about robots.
The list, a creation and a change go through `withUser`, which finds the user
`Admin` or refuses with 500; past it, GET and DELETE of one robot panic
("broken"). A read may fail ("failed"), and the requests to a motor ask for no
user ("motor").

### ProcessTree

`life` is what the kernel knows of a process: a stopped one whose stop was
reported is `paused`, a dead one is a zombie until its parent, the handler or
init takes it. `pc` and `waits` follow `main`, and also the input process, which
is forked without an exec and therefore inherits the handler and, when `input()`
returns, the rest of `main`. The handler is one step, because SIGCHLD is blocked
while it runs; `signal()` of glibc restarts the calls it interrupts. `toy_shell`
declares `status` without a value: what its loop makes of it at first is a
choice. `create_*` return 0, so every wait is `waitpid(0)`: for any child of the
caller's process group. No code here makes a group, but a program that is
executed may; `OwnGroup` are those that do.

### SensorDriver

`module` is the call `k_module_init` or `k_module_exit` does next, `held` what
has been registered, made or started. Every call may fail, and what the code
makes of the failure follows the kernel's conventions: `class_create`,
`device_create` and `i2c_new_client_device` answer with error pointers, so the
tests for NULL never see a failure. A queue that is being drained drops new work
and leaves it pending. A destroyed one may look like anything, or still be
there, as kernels up to about 5.17 free it only later: the callback may find
nothing wrong, bring the kernel down, or queue work (`late`) that runs at any
later point, over whatever is left by then. The model stops at an oops, and a
module is not loaded on top of what a failed load left registered.

## 3. Runs

Every run is exhaustive for its constants. The type invariants and
`ExhaustionLasts` are left to the proofs (section 5), which show them for all
constants. Two properties that one step of the code could break together are
checked as one (`HubFollowsReaders`, `StatesArrive`, `DamageStays`,
`ServiceIsSteady`); their parts are definitions of their own.

| Run | Instance | Shows |
|---|---|---|
| `HubFeed` | 2 connections, 2 states, sockets of 1, draining browsers | a map entry exactly while its reader runs and no write to a closed socket (`HubFollowsReaders`), every state once and in order, refinement of `StateFeed`; every broadcast is taken and every viewer hears (`StatesArrive`), every broken connection is closed |
| `HubWriteWait` | as above, browsers that may stop reading | violated: a write may last for ever although `writeWait` is declared |
| `ServiceEndToEnd` | 2 connections, 2 robots (both symmetric), 2 states, 2 loadings | refinement of `RobotPage`, whichever end loses the page's connection first; until one does, the page is registered, read, written to without failures and short of no state (`OpenIsServed`) |
| `StoreSafety` | 2 robots, started without an id or for robot 2, 1 field-wise PUT, 2 telemetry messages, queue of 1, any transaction may fail | own telemetry ends the backend only when its row could not be saved, table at start, announced is stored, motor settings survive telemetry |
| `ServerThreads` | any thread, 3 alarms; 4 descriptors, 2 directories, 2 processes, 2 files | no alarm lost or counted twice; each becomes a tick unless one aborted the process; dumps give back what they open and come to their end |
| `TimerAssert` | any thread, 4 alarms | violated: the assert behind `mq_receive` fails |
| `IpcThreads` | queues of 2 | no printed field is older than the sample announced, or newer by more samples than fit a full queue and one (`PrintedIsAnnounced`); commands return, the sensor thread keeps sampling while the server lives and stops for good when it is gone |
| `PageSessions` | 2 robots, 2 states, 2 loadings, 2 commands, motor queue of 1 | the page is fresh, moves forward, keeps commands in order, waits for nobody who cannot go on (`RequestsAreServed`), comes back, hears of its commands |
| `AdminLifetime` | 2 names, one of them a number, 3 ids, all lists of up to two users | a service that is up has its settings, and finds its user for every request that asks for it or for none while it runs (`ServiceIsSteady`); a half-made database and a socket file left behind stay so (`DamageStays`) |
| `AdminImport` | 3 names, 3 ids, the same lists | violated: an import that ends well has lost one of its users |
| `ProcessLife` | 2 shells, a second browser in a group of its own | `main` returns last and comes to its end whoever reaps its children; `sh` gets back to the prompt unless the handler reaped the shell over a stale status |
| `DriverLife` | 2 loads, 2 files | unloading leaves nothing, the measurement and the files have what they use, a load that got everything never takes the kernel down but by the timer between the end of its queue and its own, or the work queued there, the next measurement of a loaded module is always on its way (`MeasurementToCome`), a stored value gives way to a measurement |

### Why the bounds are enough

* Hub: two states make one overtake another; two connections give one being
  written to and one that waits in the range loop, registers or leaves
  meanwhile. A socket of one state blocks at the second. The safety properties
  are theorems for any number of both.
* Service: of two connections one is the page's and one another viewer's, or one
  the page of the first loading has left behind and one that of the second. Two
  states of two robots let one be in the socket and one at the hub, and be about
  the same robot or not.
* Store: two robots are the one storage refuses to delete and one it deletes; an
  id flag of 0 and of 2 make a start with and without a row of its own. Two
  messages let a short one replay an earlier one. One field-wise PUT of two
  fields is enough to come between `Get` and `Update` in both orders.
* Store: a queue of one is empty or full.
* Server: three alarms are one posted, one merged, one in progress. Four
  descriptors are what a dump needs at once and one leaked directory; walks of
  two directories use them up in the middle of a dump. Two processes are one at
  hand and one still to come, two files one open and one to be read.
* Queues: with two places a queue is empty, partly filled and full.
* Page: two states of two robots let one be in the answer and the other on the
  wire or still to come, be about the same robot or not; the proofs cover any
  number. Two loadings let a command of the first reach a handler in the second;
  a motor queue of one blocks at the second command.
* Users: three ids are the first user, who cannot be deleted, one that an import
  adds and one it overwrites; lists of two let one entry meet another. The third
  name in `AdminImport` is needed because the first user is there already. Of
  the two names in `AdminLifetime` one is "admin", which requests ask for.
* Processes: the second shell finds the status the first one left. The second
  browser is the only child of an input process that fell through. With it in a
  group of its own and `main`'s four children in `main`'s, both kinds of
  `waitpid` happen: one that waits, and one that fails while a child lives. The
  proofs cover every `OwnGroup`.
* Driver: two files are one open and one being opened; the second load follows
  one that failed at its first call or was unloaded, and no variable but the
  count tells it from the first.

### Deadlock

All configurations switch the check off: a bounded number of states, alarms or
commands ends, a server may be gone, a kernel down, and a command may have
nothing to do.

## 4. Fairness

* Hub (`GoFairness`): a goroutine that can run does. The three rendezvous are
  strongly fair because a blocked sender keeps its place in its channel's queue
  and `select` picks at random among ready channels. Upgrades, bad messages,
  stalls and departures are never forced. `PeersDrain` is an assumption about
  browsers, not about the code: what was sent is read in the end. The liveness
  properties of `HubFeed` need it; `HubWriteWait` shows what happens without.
* Server: the interval timer expires again and again, a pending signal is
  delivered, and the timer and main threads run when they can (`Fairness`); a
  thread in the middle of a walk or a dump goes on (`FairServer`). Nothing makes
  an event or a message arrive.
* Threads and queues: a thread that can run does. Senders are strongly fair
  because `mq_send` queues the blocked ones and wakes them in order. Commands
  are typed by a person and never forced.
* Page: a request is answered or fails, the five-second timer fires, handlers
  run, and the robot process keeps taking commands. The send of each command to
  the motor queue (`Sends(n)`) is strongly fair for the same reason as above.
  Connections break when they like.
* Processes: waits, the handler and the shell's loop go on when they can.
  Nothing makes a process end.
* Driver: a started timer expires again and again and the queue's worker runs.
* The store, the service and the commands have no liveness properties and no
  fairness.

## 5. Proofs

All theorems hold for any value of the constants under the assumptions named in
the modules: finite or infinite sets of connections, robots, names and lists,
any natural number as a bound, any positive capacity. The bounds on counters are
parameters of the theorems as well, so they are no restriction.

| Module | Theorems | Inductive invariant and why it is needed |
|---|---|---|
| `WebSocketHubProofs` | `TypeCorrect`, `ReadersAreFollowed`, `FeedCorrect`, `RefinesFeed`, `OneHoldsUpAll` | `HubShape` (target and todo fit the place the hub is at, and are registered), `EntryHasReader`, `NothingBeforeRegister` (no bytes for a connection never registered) and `FeedIsComplete`. None of the safety properties is inductive without `HubShape`. `RefinesFeed` maps published to `taken`, viewers to registered connections that take writes, and a viewer's position to what has been written; a failed write and an unregistration are both a drop. `OneHoldsUpAll` needs that the reader of what is written to has not ended. |
| `RobotServiceProofs` | `ServiceTypeCorrect`, `PageIsServed`, `ServiceKeepsHub`, `ServiceImplementsPage`, `FreshEndToEnd`, `ForwardEndToEnd` | The hub's invariant, which holds because every step of the composition is a step of the hub, with `PageLink` (a connection whose browser the backend has not lost is registering or being read, and no write to it failed), `SocketShape` (no browser has more than it was sent), `SentIsTaken` (none was sent more than the hub took) and `LastIsStored`. They give `WireFact`: what is on the page's wire are states that follow those it received, in order, and, until the connection is lost, all up to the last the hub took. With it every step is one of `RobotPage` or a stutter. The last two theorems carry `FreshPage` and `PageMovesForward` over: `RobotPageProofs` is instantiated with the refinement mapping. |
| `RobotStoreProofs` | `StoreTypeCorrect`, `OwnTelemetrySafe`, `StartupTableHolds`, `AnnouncedStored`, `MotorIsKept` | `Core`: while serving, the device's row is stored; while clearing, every row is doomed, robot 1's or gone; between `Get` and `Update` the held record agrees with the row unless a client wrote it. |
| `ProcessProofs` | `TimerTypeCorrect`, `TicksAreConserved`, `EveryAlarmTicks`, `ServerTypeCorrect`, `DumpsGiveBack`, `ExhaustedForGood`, `DumpIsBounded`, `ServerImplementsTimer`, `ServerTicks` | For the timer `TypeOK` and `TicksConserved` are inductive together. For the server `AwayFromQueue` joins them: while a dump goes on, an alarm cannot find its thread in `mq_receive`. `WorkLeft` counts what a dump has still to do, at most `DumpWork`; every step of the dump lowers it and nothing else touches it. Every step of the server is a step of the timer or leaves its variables alone. |
| `ProcessProofs` | `TreeTypeCorrect`, `MainReturnsLast`, `QuietMainEnds`, `LostForGood`, `EndedShellReturns` | `TreePlaces` (who lives while `main` or the input process is where), `OnlyHandlerSteals` (a shell is gone before its wait only if the handler took it) and `Accounted`: in `main`'s code a process has no more children than waits left. Without that count a handler that reaps could leave `main` with a child and no wait. |
| `ToyIpcProofs` | `IpcTypeCorrect`, `PrintedAreAnnounced`, `SensorGoesOnSampling`, `SendingReturns`, `OrphansStayStuck` | `AheadIsOutstanding`: each field is ahead of the monitor by exactly the messages about samples that are queued and the store that is not announced yet, so the bound on the queue bounds it. A full queue whose server is gone stays full. |
| `RobotPageProofs` | `PageTypeCorrect`, `CommandsStayInOrder`, `FreshPage`, `PageMovesForward`, `PageAlwaysComesBack`, `EveryCommandIsAnswered` | For order: at most one command of a session is under way, and it is later than all of the session that were handed on. For freshness: the last thing on the wire about a robot is its stored state, or it is missed. For moving forward: the wire rises per robot and lies above what was heard. For the answer: the command with the last number is of the loading that waits (`LastIsMine`), so its answer is not taken for another's. |
| `AdminCommandsProofs` | `TypeCorrect`, `ServicesAreSteady`, `DamageIsForGood` | `AnswerIsRight`: a service that found its user has it, one that did not has not, and no step of a service changes the users. `FirstKept` and `FirstDoomed`: user 1 is there as soon as any id was given, and is the first that an import has to delete; `SavedInOrder`: what the running command has saved so far; `HalfMade`: without server settings no command gets past its checks. |
| `SensorDriverProofs` | `DriverTypeCorrect`, `NothingIsLeft`, `NobodyUsesWhatIsGone`, `WholeDriverIsSafe`, `StoredIsMeasured` | `InOrder` (timer, queue, client and object are held only between the places that make and release them), `KobjThere` (the pointer and the object go together), `WorkInQueue` (no work without a queue, but for what the timer queued late), `FilesKeepModule`; all of it as long as the kernel is up. |

### Liveness

Eight liveness properties are theorems too:

| Property | Theorem | Hypothesis |
|---|---|---|
| `MainEnds` | `QuietMainEnds` | `[]HeldUpOnlyByChildren` |
| `ShellReturns` | `EndedShellReturns` | `[]HeldUpOnlyByChildren` |
| `SensorKeepsSampling` | `SensorGoesOnSampling` | `[]BlockedOnlyByQueues` |
| `CommandsReturn` | `SendingReturns` | `[]BlockedOnlyByQueues` |
| `AlarmsAreCounted` | `EveryAlarmTicks`, `ServerTicks` | `[]AlarmsHaveTheirThread` |
| `MeasuredAgain` | `StoredIsMeasured` | `[]MeasurementToCome` |
| `PageComesBack` | `PageAlwaysComesBack` | `[]RequestsAreServed` |
| `CommandsAreAnswered` | `EveryCommandIsAnswered` | `[]RequestsAreServed` |

The prover knows nothing of ENABLED, so which states enable a fair action is not
proved but a hypothesis. Three of the hypotheses equate ENABLED of an action
with its guards written out: `HeldUpOnlyByChildren`, `BlockedOnlyByQueues` and
`AlarmsHaveTheirThread` (the last together with `TicksConserved`, which is
proved). They hold by the definitions, say nothing of the code, and are no run's
property. The other two are properties of their own, which TLC checks: the
pending bit never stands without work and an armed timer fires
(`MeasurementToCome`), and the page waits for nobody who cannot go on
(`RequestsAreServed`). Given them, each proof is a chain of stages. A stage
lasts or leads to the next, the fair action leads on, and it is enabled while
the stage lasts (weak fairness), or again and again (strong fairness, where a
blocked sender needs the reader to come round). The actions are safety lemmas
proved from the inductive invariants, and temporal logic puts them together.
With weak fairness in place of strong for the senders the proofs of
`SensorGoesOnSampling`, `SendingReturns` and `EveryCommandIsAnswered` fail at
exactly the steps that wait for room.

The temporal prover does no induction. `AlarmsAreCounted` and `PageComesBack`
therefore say that the next alarm is counted and the next loading comes, for
every number of them; that all of them do, up to any number, follows by
counting, outside the prover. Fairness for each of many commands, and a property
of each, are operators with a parameter (`SendIsFair(n)`, `IsAnswered(n)`), so
that a proof can take one of them at a time.

The other liveness properties need an induction over how much is left to do (the
viewers of a broadcast, the files of a dump, the room in a queue) inside one of
their stages. The step behind three of the properties is proved: `DumpIsBounded`
for `DumpReturns`, `OrphansStayStuck` for `OrphanedSensorStops`, and
`OneHoldsUpAll` for the violation of `WriteIsBounded`.

Only model-checked: `StatesArrive`, `BrokenIsClosed`, `DumpReturns` and
`OrphanedSensorStops` (liveness); `MeasurementToCome` and `RequestsAreServed`
(ENABLED); and the three violated properties.

## 6. Findings

Three runs end in a violation; each is a disagreement of the code with its own
comments, help texts or assertions (`PROJECT.json`, `findings`).

1. `HubWriteWait`: `client.go:40` promises a "Time allowed to write a message to
   the peer". No deadline is ever set, and one browser that stops reading stops
   the hub, every other viewer and the telemetry goroutine. (`client.go:42` and
   `client.go:44` promise pings and a time to answer them in the same way.
   Nothing pings, and a silent browser stays in the map.)
2. `TimerAssert`: `assert(ret >= 0)` behind `mq_receive`. SIGALRM is handled
   without SA_RESTART and blocked nowhere, so an alarm in a queue thread makes
   the call fail with EINTR and aborts the system server.
3. `AdminImport`: a new user of a list is saved under the next free id, which
   can be the id of a later entry; with `--overwrite` that entry replaces it and
   the command reports success.

## 7. Observations without a run

Met while modelling. The first two disagree with the help texts of the commands;
that needs no run to see, as no second command or process is involved. Of the
rest no comment, test or document says otherwise.

* Users named by number: `users rm` has the usage `rm <id|username>` and the
  text "Delete a user by username or id" (`users_rm.go:14-16`), and `users
  update` the usage `update <id|username>` (`users_update.go:19`). Both parse an
  id into a `uint64`, where the user store knows only `uint` and names, so with
  an id they always fail; and a user whose name is made of digits is taken for
  an id and cannot be named.
* `users import --replace` promises to "replace the entire user base"
  (`users_import.go:17`). It has to delete user 1 for that, which the store
  refuses: it fails as soon as that user exists, which is always after the first
  was added, and by then it has put the new list into the backup file
  (`DeleteOld` in `AdminCommands`).
* C program: `create_*` return 0, so the four `waitpid` of `main` are each for
  any child of its process group. An input process that cannot set itself up
  goes on as a second `main` behind `create_input`. The web server is cloned
  with `CLONE_NEWIPC`, so the POSIX queues of a backend started there are not
  those of its parent. The `sleep(3)` of `create_gui` is cut short by a SIGCHLD.
  `signal_exit` has no caller: the system server ends only by dying.
  `get_directory_size` never closes a directory, so a busy `./fs` uses up the
  descriptors; from then on a dump prints failures only, and still comes to its
  end. `toy_elf` leaves the file it maps open. What the monitor prints can be
  put together from several samples, as the segment has no lock. A failed
  `shmat` is dereferenced. An alarm that makes the disk thread's `read` fail
  ends that thread; the alarm is counted all the same, so no property tells.
* Sensor driver: the timer is started before the queue exists and cancelled
  after it is destroyed; the error path leaves the cdev, the client and the i2c
  driver; a class that could not be made takes the kernel down at unloading;
  `"%d.%d"` drops a leading zero of the fraction. An expiry between
  `destroy_workqueue` and `hrtimer_cancel` queues work on a queue that is going
  or gone.
* Backend commands: `users update` takes the password lock off. `config init`
  and `config set` can leave half a database, which every later command refuses.
  An empty user name is noticed by quick setup after three saves. `withUser`
  looks for the user "admin": a service whose first user has another name
  answers every robot request but those to a motor with 500, and no property
  asks for better. GET and DELETE of one robot panic on `d.raw`, which nothing
  sets. A PUT and the telemetry goroutine read a whole record, change it and
  write it back, so each can undo the other's change, motor settings of another
  client included. A service that is killed, or ends in `log.Fatal` or a panic,
  leaves the file of its unix socket, and no later service can listen there.
* Page: a page whose connection only the backend has lost is not loaded anew and
  shows old states until its browser notices. A motor command that fails leaves
  the spinner on until the next loading; a GET that fails leaves the page empty.
  `setRightMotorSpeed` of `api/src/robot.js` sends the request for the left
  motor.

## 8. Not modelled, and why

* Login, sign-up, renewal and the three methods of authentication: no route
  leads to the handlers. Hook runner and importer of old databases: nothing
  calls them. Static files and the rendering of JSON: functions of one request.
* Camera HAL: it prints; `ToyIpc` keeps whether the library is there.
* Notifications and layout of the page, resources, webpack and build files:
  presentation. `UPDATE_ROBOT` and its answers have no caller in the page.
* Of the state dump, the text; of the walk through `./fs`, the sum it prints.
* The far ends of `/mq_sys_to_be` and `/mq_be_to_sys`: not in the repository.
* Time: periods and timeouts are orders of steps only. The two seconds between
  starting the driver's timer and its first expiry, and the sleep of
  `create_gui`, are therefore longer or shorter in the models than they are.

## 9. Plan

1. Restarts of the backend under a page: `RobotPage` supposes one backend; a
   restart closes the socket, which is there, and empties the table, which is
   not.
2. Bounds: a third connection and a third state in `ServiceEndToEnd`.
