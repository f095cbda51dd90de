# A model of Density

Density (`factorysh/density`, directory `src/` here) is a server that schedules
tasks on one machine. A task is a docker-compose project with a quantity of CPU
and RAM, a maximal execution time, a start date and perhaps a period. The server
admits the tasks, executes them when the machine has room, watches their
containers, and keeps what it knows in a bbolt file. This directory holds TLA+
modules of it, TLC configurations that check them, and TLAPS proofs.

## The system

| component | state | operations | hard because |
|---|---|---|---|
| `todo/todo.go` | mutex, flag `newMsg`, channel of one place | `Ping`, `Done`, receive | three synchronisation devices, and the receiver ignores the mutex |
| main loop, `scheduler.go` `oneLoop`, `execTask` | the task it executes, its timers | look, execute one task, sleep | everything it reads may change before it acts |
| watcher, `execTask` and `compose/run.go` `Wait` | the task of its run, which only `Load` may share | wait, kill, inspect, put, ping, clean up | a deadline races the container; five steps may fail |
| `scheduler/resources.go` | free CPU and RAM | `Check`, `IsDoable`, `Consume` and its release | check and take are separate, release is in another goroutine |
| requests, `scheduler.go` `Add`, `Cancel`, `Delete`, `Flush` | a copy of the task | get, docker-compose down, put or delete | read, modify and write without a lock |
| task, `task/task.go` | status, start, run | `HasCron`, `PrepareReschedule`, karma | what a finished run becomes |
| JSON store, `scheduler/store.go` over `store/` | the tasks by UUID | get, put, delete, iterate | the only state that survives |
| `Load`, `scheduler.go` and `server/server.go` | list of updates | compare the store with docker, adopt, update | a stop at any step; the watchers it attaches share its `*task` |
| runner and compose, `runner/`, `compose/` | containers of docker | `Up`, `Down`, `Status` | external, may fail half way |
| life cycle, `scheduler.go` `Load`, `Start`, `WaitStop` | `started`, wait group, context | load, start, cancel, wait | the flag and the wait group are set by different goroutines |
| store, `store/memory.go`, `store/bbolt.go` | a map and its lock; a file and its transactions | `Get`, `Put`, `Delete`, `ForEach` | callbacks run with the lock held, and some write |
| `pubsub/pubsub.go` | subscribers, their channels, wait group | `Subscribe`, `Publish`, `Wait` | `Publish` blocks on a full channel with the lock held |
| `network/network.go`, `compose/network.go` | networks of docker | `NextAvailableNetwork`, `New`, `Remove` | shared with other users of docker; a search with many boundary cases |
| documents, `compose/validator.go`, `recompose.go`, `input/compose/` | the stored action | validate, recompose | walks over a Go map that an error ends anywhere |
| `compose/graph.go` | none | depth of services | only tests call it |
| handlers, middlewares, owner, path, commands | none | requests | |

The parts interact as follows. An API goroutine calls `Add`, which puts the task
in the store and pings the todo list. The main loop wakes, lists the tasks that
are ready, executes the one with the least karma (it takes resources, starts the
containers, stores `Running`, starts a watcher) and pings itself, until nothing
is ready; then it arms a timer for the next start. The watcher waits for
the container, kills it at the deadline, stores the result, pings, and at last
cancels the context on which the goroutine of `Consume` gives the resources back.
`s.lock` only excludes `readyToGo`, `next` and `Filter` from `execTask`: it
orders neither the watchers nor the requests. After a restart `Load` compares
each stored task with its container before `Start`. `Runner.Up` asks `Networks`
for a network, recomposes the document that the validators let in, and calls
docker-compose; the loop does so with `s.lock` held, and publishes the event and
writes to the store with it too.

What makes it correct: no wake-up is lost; the machine is not overcommitted and
no capacity leaks; a container runs on accounted resources; a task runs once at a
time; each run ends and its end is stored; an end stays; each admitted task
comes to its turn; a restart loses none of this; a call on the store, on the
pubsub or on the networks comes back; a proposed subnet is free; what is started
is what the validators meant to allow. The hazards, each at its line,
with the properties that cover them, are under `hazards` in `PROJECT.json`.

## The modules

**Signal** is what the scheduler expects of its todo list: a coalescing wake-up.
**Todo** is `todo/todo.go` with its callers, cut at each access to the mutex, the
flag and the channel. `pc` says where each goroutine is; `dirty` is a ghost: work
was published (a `Put`, a release, a date that passed) that no look has seen.
`LookAll` is a turn of `oneLoop` that finds nothing ready, `LookOne` one that
executes a task. **TodoProofs** proves its types and invariants and that it
implements Signal.

**Scheduler** is the life of the process from `Start` on.

| variable | code |
|---|---|
| `store` | the JSON of each task: status, ticks until its start, whether it has a `Run` |
| `ct` | the state of the container of the project, known to docker |
| `cpu`, `ram` | `Resources.cpu`, `Resources.ram` |
| `newMsg` | the todo list, by the abstraction that Todo and Signal justify |
| `timers` | the pending `time.AfterFunc` of `oneLoop` |
| `loop`, `chosen` | program counter of the main loop; the pointer given to `execTask` |
| `slot` | the watchers: program counter, task, the `status` of `Wait` |
| `call` | the requests: program counter, task, the copy that `Get` returned |
| `added`, `canceled`, `deleted` | history |

The actions follow the code: `LoopWake`, `LoopPick`, `LoopNothing`, `LoopSleep`,
`LoopPing` (`oneLoop`); `ExecConsume`, `ExecUp`, `ExecUpFail`, `ExecPutError`,
`ExecPutRunning` (`execTask`); `WaitExit`, `WaitDeadline`, `WaitError`, `Kill`,
`KillFail`, `Inspect`, `InspectFail` (`Wait`); `WatchPut`, `WatchPing`, `Release`
(the end of the watcher); `Add`, `AddPing`, `CancelGet`, `DeleteGet`, `DownStop`,
`DownRemove`, `DownFail`, `CancelPut`, `DeleteStore`, `Flush` (requests);
`ContainerExit`, `Tick`, `TimerFire` (the world). A task is *touched* once a
`Cancel`, a `Delete` or a `Flush` was asked for it: most promises are for the
others.

**TaskBoard** is what the scheduler promises of untouched tasks: they start within
the capacity of the machine, run to an end, and stay ended or, when they may,
wait again. `Board`, at the end of Scheduler, maps the store to it: a touched task
is `Gone`, any other is what the store says. **Units** counts a resource unit by unit,
as the cardinality of a set, for both: a sum over the tasks or the watchers is then
something the prover can reason about. **MCScheduler** has the small machine (2 CPU,
2 RAM) and the tasks `slim` (1 CPU), `wide` (2), `big` (3, more than there is),
`cyclic` (periodic) and `broken` (a cron that does not parse).

**Recovery** extends Scheduler with a process that stops at any step and is
started again: `cmd/serve.go` returns on a signal without waiting for anybody,
and `containers[0]` in `compose.go` panics for a container that has already
ended. `Stop` resets what is in memory and keeps `store` and `ct`. `Load` unmarshals
a task of its own for each one it visits, gives that to `execTask` when its container
runs, and goes on with the same pointer beside the watcher that `execTask` has
started. So here, and only here, each line that the other goroutine may see is
a step, and a `Put` is two: it marshals the task, then writes what it has marshaled.
A marshal is one step, as is each assignment.

| variable | code |
|---|---|
| `phase`, `unseen`, `stops` | where `Load` is, the tasks `ForEach` has to visit, the stops so far |
| `object` | the `*task` that `ForEach` gave to `Load`, for each task |
| `visit` | the task that `Load` has adopted, its `old` status, the line that comes next |
| `update`, `putting` | the slice of that name; the task that `Load` puts, and its JSON |
| `line`, `draft` | the next line of a watcher that shares its task; the JSON it puts |
| `raced` | history: tasks that `Load` put, other than as Running, over a live watcher |

`LoadVisit` is a task whose container does not run, `LoadRunning` one that `Load` gives
to `execTask`; then come `LoadMismatch` (lines 140-143), `LoadCompare` (144),
`LoadWaiting` (145), `LoadReschedule` (146-147). `LoadVisited`, `LoadMarshal`, `LoadPut`
and `LoadTurn` are the rest of `Load`. `WatchStatus`, `WatchWaiting`, `WatchReschedule`,
`WatchMarshal` and `SharedPut` are lines 274 to 279 in such a watcher; any other has the
copy to itself and takes `WatchPut` of Scheduler. `TimePasses` is `Tick` on the dates in
all of these copies. **MCRecovery** is its instance.

**SchedulerProofs** proves the types and the capacity, and that runs do not overlap.
**RunProofs**, on top of it, is about what a run leaves behind (its status, its
container, a wake-up), **BoardProofs** about the account of the resources and the
refinement of TaskBoard, and **RecoveryProofs** about stops and restarts.

**Subnets** has the operators of `network/network.go`: `FirstLast`, `NetDistance`,
`nextNet` and the sort, over intervals of addresses, with the difference between
`net.IP` of 4 and of 16 bytes that `FirstLast` makes. **Networks** is
`compose/network.go`: `Call`, `Reuse`, `List` (`Networks.New`), `Propose`,
`WalkOverlap`, `WalkFound`, `WalkOn`, `WalkPanic` (`NextAvailableNetwork`, turn by
turn), `Create`, `CreateFail`, `Prune` (the creation and its second try), `Remove`,
and `OthersCreate`, `OthersRemove` for the other users of docker.

**Documents** has the operators of a compose document: which ones the validators may
accept or refuse, and what may be started instead. `WalkServices` visits a Go map in any
order and stops at the first error, which its callers drop; hence each operator returns
a set. `copyMap` says what a copy shares with its original (the lists and the maps of
strings), `Kept` what patching the copy makes of the stored document by that way, and
`Reread` what JSON makes of it until it is read again. **Deploy** composes both: `Post`
(the checks of `HandlePostTasks` for YAML and JSON), `UpBegin`, `UpNetwork`, `UpStart`,
`UpRefused`, `UpNoNetwork`, `UpPanic` (`Runner.Up` and what `execTask` stores), `End`,
`Stop`, `Restart`. **MCDeploy** is its instance, **DeployProofs** proves what the
allocator promises, **DocumentProofs** what is started instead of a document.

**RWMutex** is `sync.RWMutex` as a value, with writers that wait and keep readers
out. **PubSub** is `pubsub/pubsub.go`: `PublishBegin`, `PublishSend` for each
subscriber, `PublishEnd`, `SubscribeWant`, `Subscribe`, `CancelCtx`, `CloseWant`,
`Close`, `Receive`. **Store** is a `Put` and a `ForEach` with its callbacks, in the
memory store and in bbolt. **Service** composes them with the life of the scheduler:
`LoadBegin` to `LoadEnd`, `StartLoop`, `StartFlag`, `Cancel`, `WaitStop` (main),
`Select`, `LookBegin` to `LookEnd`, `LoopPing`, `LoopSync`, `LoopDone` (the loop),
`ExecLock` to `ExecError` (`execTask`, in the loop or in a callback of `Load`, cut at
each lock it takes), `WatchEnd`, `WatchEvent`, `WatchPing` (watchers) and `AddCheck`
to `AddReturn`. Where Scheduler has one step for a critical section, Service has the
lock; where Service has a task that runs once, Scheduler has all of its life.
**MCService** is its instance, **ServiceProofs** proves its safety: the life of the
scheduler, the store, the pubsub, and what their composition announces.

Each module has a section of *mistakes*: what a definition would be with one
line of the code wrong. No specification uses them; each is what one property
must catch, as `mutants` in `PROJECT.json` lists.

## The runs

| run | instance | checks |
|---|---|---|
| `Todo` | 3 pingers and the loop, fair | `PingNeverBlocks`, `NoLostPing`, `WorkIsLookedAt`, refinement of Signal with its fairness |
| `SchedulerRuns` | slim, wide; 1 client that deletes and flushes; failures of docker | `NoOvercommit`, `ResourcesConserved`, `StatusTellsTheEnd`, refinement of TaskBoard |
| `SchedulerPeriodic` | cyclic, broken; failures of docker; delays; fair | `NoLostWakeup`, `PeriodicTasksGoOn` |
| `SchedulerContention` | slim, wide, big; failures of docker; delays; fair | `EveryTaskEnds`, `RunsEnd` |
| `SchedulerRequests` | slim; 2 clients that cancel, delete, flush | `RunningIsWatched`, `ContainersAreAccounted`, `OneRunPerTask`, `FinalIsFinal` |
| `Recovery` | wide, cyclic; 2 stops; fair | `NoOvercommit`, `ResourcesConserved`, `OneRunUnlessRaced`, `NoWakeupLostByRestart`, `InterruptedRunsEnd` |
| `Deploy` | 2 tasks, 4 documents, 2 ranges of networks; failures of docker; a stop and panics; fair | `ProposedIsFree`, `FullMeansFull`, `OneNetworkPerProject`, `StartedIsConfined`, `RunsAreAlike`, `UpReturns` |
| `Service` | 2 tasks, 1 subscriber with 2 places, 2 stores; fair | `WaitStopMeansStopped`, `ScanIsASnapshot`, `EventsReachTheOpen`, `RunIsAnnouncedBeforeItsEnd`, `WaitMeansClosed`, `CallsReturn`, `SubscriptionsClose` |

The type invariants are in `Todo`, `SchedulerRuns`, `Deploy` and `Service`.
`CHECK_DEADLOCK FALSE` is in the configurations of all but Todo: when all tasks
ended and nobody asks for anything, the server waits for ever, or has stopped.
In Service, where a deadlock is a hazard, `CallsReturn` tells it from that rest. In `Todo` goroutines ping for ever
and deadlock is checked, with a mutex held across a channel send.

Bounds. `Slot` has `TotalCpu` watchers: a run takes one CPU at least, hence more cannot
be held at once, and `ExecConsume` never waits for a slot. Two tasks that do not fit
together make the loop choose and wait; two requests make a stale write over another
one; a third pinger brings a `Ping` that gives up while another is in the middle.
`MaxDelay` and `Every` bound the dates, which only matter by their order; `Tick`
saturates at 0. `MaxStops = 2` has a stop during the `Load` that follows a stop. In
Recovery containers exit with 0 by themselves, and otherwise when they are killed. A
task is posted once, since a UUID is. Watchers and clients are interchangeable, which
the runs without liveness use.

In Deploy the range has the two /24 at slots 4 and 5, with maxi at slot 6, and
others may have one of these, one beyond, or one twice as large: a gap before, after
and between, a full range, and an overlap all occur. One setting has addresses of
4 bytes, as the tests of `NextAvailableNetwork`, the other of 16, as
`NewNetworks` makes them. The documents are one that is confined, one with a `..`,
one that panics, and a pair of services where the order of the walk decides; two
tasks run one after another on the same network, and each may run again. In Service
the channel has two places instead of 100 for the five events there are, so that
`Publish` blocks; a watcher and an `Add` publish beside the loop. A second
subscriber would be served by the same sends, one after another.

Fairness. Goroutines are scheduled (weak fairness of the loop, of each watcher, of each
request) and time passes (`Tick`, `TimerFire`). A container has no fairness: a run ends
since its context has a deadline. A task is executed because the loop executes something
as long as something fits, not because `Add` is called. The steps on the mutex of Todo
have strong fairness: `sync.Mutex` gives itself to a waiter that starved for a
millisecond. In Recovery a process that stopped is started again, `Load` and the loop
have one fairness together, as one begins when the other ends, and a watcher goes on
line by line. In Deploy `Runner.Up` goes on once called (weak fairness of `UpStep`);
nobody needs to post, and no process is started again. In Service the goroutines and the
subscribers that read have one weak fairness together: each step uses up a part of a
finite work, no behaviour has a cycle, and a step that is enabled for ever is thus
taken. Nothing makes the context end. A subscriber that stops reading would block
`Publish`, `execTask` and `s.lock` for ever: that it reads on is an assumption on a
caller, which only the tests have.

Findings: four runs show a disagreement between the code and its comments or
tests, with a shortest behaviour.

- `SchedulerCancelFinding`: a task canceled while it waits is executed.
- `SchedulerDeleteFinding`: a task deleted while the main loop starts it is put back by
  the loop (line 255). The watcher's `Put` (279) does not look either; that is by
  reading, the trace does not reach it.
- `RecoveryStatusFinding`: `Load` makes a canceled task wait again.
- `DeployPanicFinding`: a volume without a colon is accepted, then takes the process
  down, and the next one.

Beyond these, TLC showed, in variants of the runs:

- what a comment says of `execTask` in `Load` ("attach a watcher to exesting task
  without relaunching the entire task", line 121) fails, since `Load` and that watcher
  share one `*task`. Stated as an action property, that the loop never chooses a task
  that has a watcher, it is violated: the container of a periodic task ends while `Load`
  adopts it, the watcher assigns the end (274), `Load` reads it (144), makes the task
  Waiting and puts it (165) before the watcher does, and the turn that ends `Load`
  executes the task under that watcher, whose `Put` is still to come.
  `OneRunUnlessRaced` leaves out the tasks that `Load` put so;
- that a task stored as Running has a watcher once `Load` is over is violated: when the
  process stops between `Up` and `Put` of a second run, the store says Waiting, `Load`
  assigns Running (142) to the task it shares, and stores that, or has the watcher store
  it, over the end of the run. `InterruptedRunsEnd` is about tasks that were stored as
  Running;
- a kill that fails leaves a container on resources that are given back, and a
  restart adopts it beyond the capacity; when `Up` fails in `Load`, the task is
  stored as `Running` and nobody watches it. `SchedulerRequests` and `Recovery` have
  no failures of docker for this reason;
- a failed container makes its task wait again, without bound, since `Retry` is not
  read: it may starve others, as a periodic task may starve one that needs the whole
  machine. The liveness runs have only exits with 0, and no such pair;
- a periodic task that is running when the process stops, and whose container exits
  before `Load`, is stored as `Done` and never runs again;
- `Load` never comes back when it adopts a container with the memory store, or with a
  bbolt file that grows meanwhile: `execTask` puts inside `ForEach`. `MCService` has an
  adopted container with a file that does not grow only;
- with networks larger than the mask `NextAvailableNetwork` proposes subnets that
  overlap, says that a range is full when it is not, and indexes out of range after an
  overlap with the last network; with 16-byte addresses it proposes the
  same subnet whatever there is. `ProposedIsFree` and `FullMeansFull` are about the
  case of its tests, and `Deploy` goes through the others up to the answer;
- a volume in the map syntax, or labels, end the walk of `Recompose`: the volumes of the
  services that follow are started as posted. `StartedIsConfined` is about documents
  whose walks go through.

## The proofs

The theorems hold for any set of tasks, watchers and clients, any machine, any
documents, networks, subscribers and channels, and any failures, under the assumptions
that the modules name: the types of the constants, and in `ServiceAssumption` that the
names of goroutines differ. Three have a hypothesis of their own: docker does not fail
(`DockerFails = FALSE`), or the subscribers are finitely many.

| module | theorem | states |
|---|---|---|
| TodoProofs | `Typing` | `TypeOK` of Todo |
| | `PingIsNonBlocking` | `PingNeverBlocks`: the send of `Ping` finds room |
| | `NoPingIsLost` | `NoLostPing`: published work is announced or about to be looked at |
| | `TodoImplementsSignal` | Todo implements Signal (its safety part) |
| SchedulerProofs | `TypeCorrectness` | `TypeOK` of Scheduler |
| | `NeverOvercommitted` | `NoOvercommit` |
| | `RunningTasksAreWatched` | `RunningIsWatched` |
| | `RunsDoNotOverlap` | `OneRunPerTask` |
| | `TheEndIsFinal` | `FinalIsFinal` |
| RunProofs | `NoWakeupIsLost` | `NoLostWakeup` |
| | `NoContainerIsForgotten` | `ContainersAreAccounted`, while docker does not fail |
| | `StatusIsTheEnd` | `StatusTellsTheEnd` |
| BoardProofs | `NothingLeaks` | `ResourcesConserved` |
| | `SchedulerImplementsTaskBoard` | `ImplementsTaskBoard`: the refinement |
| RecoveryProofs | `WokenAfterRestart` | `NoWakeupLostByRestart` |
| | `AdoptionIsAccounted` | `ResourcesConserved`, with restarts |
| | `OneRunAfterRestart` | `OneRunUnlessRaced` |
| | `AdoptionFits` | `NoOvercommit`, with restarts, while docker does not fail |
| DeployProofs | `ProposalsAreFree` | `ProposedIsFree`, for any range and any networks |
| | `FullIsFull` | `FullMeansFull`, the same |
| | `OneNetworkAlways` | `OneNetworkPerProject`, with failures, prunes, stops and other users of docker |
| DocumentProofs | `DeployTyping` | `TypeOK` of Deploy |
| | `TheSameEachTime` | `RunsAreAlike` |
| | `ConfinedWhenStarted` | `StartedIsConfined` |
| ServiceProofs | `TheLoopIsOver` | `WaitStopMeansStopped` |
| | `ForEachIsASnapshot` | `ScanIsASnapshot` |
| | `EventsReachAll` | `EventsReachTheOpen` |
| | `WaitingIsOver` | `WaitMeansClosed` |
| | `RunsAreAnnounced` | `RunIsAnnouncedBeforeItsEnd` |
| | `ServiceTyping` | `TypeOK` of Service, for finitely many subscribers |

**Todo.** The inductive invariant adds to the types that the mutex is held by who is in
a critical section (`MutexInv`), that an element of the channel is announced by the flag
(`ChannelAnnounced`), and that the flag means that a look is to come (`FlagMeansALook`).
The last is what makes it right for a `Ping` to give up, and the reason why the flush of
`Done` cannot lose one: the flag is down by then and the mutex held.

**Scheduler.** `IInv` is the conjunction of the types and of

- `Known`: whoever holds a task holds one that went through `Add`, hence `Check`; this
  gives integers to take and to give back, and tells when the loop has a choice in hand;
- `Capacity`: what `readyToGo` saw free is still free at `Consume`. Only the loop takes,
  and it takes between its look and its next one; watchers only give;
- `Starting`: there is one run being started and it is the loop's;
- `Watched`: a stored `Running` has a watcher. A stale write of `Cancel` is not
  `Running`, since `Cancel` changes the status of a copy that was;
- `Sole`: an untouched task has at most one watcher, is stored as `Running` as long as
  it has one, and waits as long as the loop holds it. No single part of this is
  inductive: the loop does not start a second run because the store says `Running`, and
  the store says so because no second run ended.

`TheEndIsFinal` then follows from `Sole`: neither the loop nor a watcher has an
untouched task that is not `Waiting` or `Running`. The other invariants are inductive
relative to `IInv`, as they are or with one addition:

- `NoLostWakeup` as it is: who changes the store to `Waiting` has a ping to give;
- `ContainersAreAccounted` as it is, but only when docker does not fail: `execTask`
  drops the run of an `Up` that fails, `Wait` the one whose `Kill` fails, and both leave
  a container behind that the theorem would have to allow;
- `StatusTellsTheEnd` needs `Told`: what each position of a watcher knows of the
  container, from the start to the status that it is about to store. With two watchers
  for a task it would fail, so it rests on `Sole`;
- `ResourcesConserved` needs `Accounted`, that the units held are finitely many: each
  step changes one watcher, and the units of the others are those of a smaller set;
- the refinement has two kinds of step: one shown task moves (`OneMoves`), or nothing
  does but that tasks go (`Moves`). A start on the board needs room beside *every* task
  that is shown running; by `Watched` each of them has a watcher, two of them never the
  same one, so what they run on is part of what `ResourcesConserved` counts, and
  `Capacity` leaves the room for one more.

**Recovery.** `RInv` keeps of `IInv` what a stop keeps, and has in the place of `Sole`
the weaker `Alone`: an untouched task that is not in `raced` has one watcher at most, is
stored as `Running` while it has one, and has none when it is about to be executed or
visited (a restart has runs in the store before it has watchers). `Visited` adds that
`ForEach` visits a task once. Without `raced` this is false, as TLC shows: a `Put` of
`Load` that says other than Running lets the loop take a task from under its watcher.
What the lemmas on `SharedStep` and on the steps of `Load` show is that it is the only
one: the lines of a watcher write to `object` and `draft`, of which `Memory` says that
they are records of a task, and reach the store with the `Put` that ends the watch;
`LoadMarshal` fixes what `Load` is to write, which may be older than that. `Loading`
says that the loop rests but for the `execTask` that `Load` calls itself, and `Woken`
that once the updates are put no untouched task waits without a wake-up to come: the
turn that follows looks at all. For `AdoptionFits`, `GInv` adds why `Load` does not need
to look for room: what it has still to adopt fits into what is free (`Fits`, over
`Pending`). When the process stops, each container that will be adopted was held by a
watcher, or was waiting to be adopted by a `Load` that was stopped too: hence a
container that runs is waited for (`Manned`), unless a stop came between `Up` and `Put`,
in which case no run of it is stored, nor on its way to the store in the copy of a
request, in the task of `Load` or in what it has marshaled (`Dormant`), and it will not
be adopted. `Blank` and `Adopted` say what `Load` and requests hold meanwhile. With a
failing `Kill` the theorem is false, as TLC shows: the container runs on without its
part of the machine, and takes it again at the restart.

**Deploy.** `NetInv` adds to the types that the listing is sorted (`Ordered`), that the
walk stands after networks that fill the range from `mini` without a gap (`Walking`: the
network at index `i` is the `i`th /24), and that from the lookup to the answer nobody
else makes a network of the project (`Alone`). `Walking` is what makes the walk right: a
gap is proposed at once, so that the signed distance is only ever read between a
candidate and a network not below it, and an end of the walk means that all of the range
was seen. `Alone` is not about docker but about the only caller: `Runner.Up` is called
by the loop, one task after another.

`DInv` says of each task what its phase says of its document (`Kind`) and that what ran
was recomposed from what is stored (`Origin`). `TheSameEachTime` rests on `CopyIsApart`:
what patching the copy does to the lists it shares, written to the store and read again,
is what was stored. It holds since a stored document is one that JSON has made
(`Decoded`), where no list is a `[]string` that `InjectCacheVolume` would write into,
and since `copyMap` copies the map of each service. Under them are lemmas about the
walks through the services of a document, as the sets of services that may have been
visited: a walk without a stop visits every service, and one service recomposed is
confined if the validator passed it. They are about any number of services and volumes.

**Service.** `LifeInv` says that `s.lock` is held by who is inside `execTask`
(`LockHeld`), that the wait group counts the loop from `StartLoop` to `LoopDone`
(`Counted`), and that the loop takes `started` back after `StartFlag` set it (`Ended`):
it ends because of the context, which is canceled by who has called `Start`. Without the
last, a loop that ends early would have `Start` set the flag for ever.

`StoreInv` has for each `ForEach` that what it has passed on and what is to come are one
moment's content (`Snapshot`): of the memory store since a writer waits for the read
lock, of bbolt since the transaction has its view. `PubInv` has the readers of the lock
of the pubsub as those that publish (`Talks`), and what a channel holds as a part of
what was due (`Hears`): `Publish` holds the lock while it sends, so that nobody joins or
leaves the list that it has still to serve. For `RunsAreAnnounced` there is `Once`, that
a task is executed by one executor, once, and `SaidInv`: the event that a goroutine is
publishing is its own (`Spoken`), and a subscriber that has not been told of a run is
still to be served by the `Publish` of its start, which ends before the watcher begins
(`Unsaid`). `FlowInv` is all of these; `LockInv` has the readers of `s.lock`, for the
types.

Only model-checked, because the prover has neither fairness nor `ENABLED` within its
reach: `WorkIsLookedAt`, `PeriodicTasksGoOn`, `EveryTaskEnds`, `RunsEnd`,
`InterruptedRunsEnd`, `UpReturns`, `CallsReturn`, `SubscriptionsClose`, and the fairness
of Signal that Todo implements.

## What is abstracted or left out

- A project has one container, as `guessMainContainer` demands one service.
  Containers that are paused or dead do not occur.
- `readyToGo` is one step, though a release may come during its scan: a task that
  it misses for this reason is seen at the next look, for which the watcher has
  pinged or will.
- `next` reads the clock before it reads the store; both are in one step.
- The deadline of a run may pass at any moment with respect to its container.
- A marshal of a task that two goroutines share reads it in one step, and an assignment
  writes one field in one step; Go promises neither, since this is a data race.
- A write of the store is atomic and does not fail; what it waits for is in Service.
  `Filter` and `List` hold the locks that `readyToGo` holds; `Delete` and `DeleteWithClause`
  are writes, in Scheduler only.
- In Service a task runs once; resources, timers, results and requests other than
  `Add` are in Scheduler. The channel `stop` is never written by the program.
- In Deploy the loop takes one task after another in any order, and the run of a task is
  a phase; the watcher and the resources are in Scheduler. A volume is a kind of
  source and a number of slugs. Files and `.env`, labels of the API and the durations
  of `x-batch` are left out.
- `compose/graph.go` is called by its tests only. Serialisation, registries of
  actions, authentication and owners, path of volumes, commands: no state that the
  properties see.

## Plan

1. Done: Signal, Todo, Scheduler, TaskBoard, Recovery; Networks, Documents, Deploy;
   PubSub, Store, Service; all safety invariants and refinements that the runs check,
   as theorems.
2. Store: the cursor of `DeleteWithClause` beside writes, and Scheduler's atomic `store`
   as the abstract specification of Store.
3. Graph: `serviceDepth` and `findLeader` against a longest path.
4. Proofs: the action by which `Recovery` maps to TaskBoard with a stop as one of its
   steps; the two facts of restarts that fail when docker does, with the failures of
   `Kill` and `Up` told apart.
