# Formal models of cliffhanger

cliffhanger is a Go framework for the edge applications that run on a Futurehome
hub. It gives an application persistent storage, an adapter that presents its
devices ("things") to the hub, a router for FIMP messages over MQTT, a root
application that starts and stops everything, a lifecycle with an event bus,
telemetry, the services of common devices, a virtual meter, and a client and
observer of the hub's own components ("prime"). This directory models the parts of it that carry state, checks them
with TLC on small instances, and proves the safety properties that the runs check
with TLAPS for all instances. `PROJECT.json` lists the components, runs, mutants, the map from
definitions to source lines, findings, hazards and theorems.

Line numbers refer to the files of the repository.

## 1. Inventory

| Component | State it keeps | Operations | What is hard about it |
|---|---|---|---|
| `storage` | data file, backup file, model in memory | Load, Save, Reset | crashes and failed writes between any two file operations |
| `adapter` (adapter, state, thing) | address index, address and checksum per thing, registered things, `initialized` | InitializeThings, EnsureThings, CreateThing, Destroy*, inclusion reports | an operation of several saves, factory calls and messages fails or dies half way; a request runs beside it |
| `router` (router, handler) | message channel, workers, lockers | Start, Stop, routeMessages, Handle | workers share lockers; handlers panic; a handler asks for Stop |
| `root` | which parts run, `running`, error channel | Start, Stop, Reset, Wait, authentication watcher | partial starts and stops; the waiter's signal |
| `lifecycle` | four states, the bus of subscriptions | setters, Subscribe, Unsubscribe, WaitFor | emission order, shared channels, dropped events, check-then-subscribe |
| `telemetry` | the validity window (memory and disk), a timer | Enable, SetValidity, SetSuppressed, New, Stop, timer callback | callbacks of replaced timers, restarts, clock changes, failed saves |
| `telemetry/config_poll` | poll timer, listener, registration | Start, Stop, report, poll | generations of Start/Stop, lost answers |
| `event` | subscriptions with bounded channels, listeners | Publish, Subscribe, WaitFor, Start, Stop | drops; Stop while handlers are at work |
| `task`, `app` | running tasks | Start, Stop, periodic runs | Stop while tasks run |
| `adapter/cache`, `backoff` | last report, last refresh, failures | ReportRequired, Refresh, Reset, Next | time windows, backoff stages |
| `adapter/service/*`, seventeen device services | per service a reporting cache and a lock; the device and what the hub was told are outside | commands (check, controller call, report), periodic report task | a command beside the task; a failed report that counts as sent; rounding against ranges |
| `adapter/service/virtualmeter` | per switch a device in the database: modes, level, energy, last update, activity; the services of the thing | add, remove, report, reset, level and connectivity events, polling, garbage cleaning | time charged once and at the right power across changes, lost events, failed saves and restarts |
| `prime` | observer's copy of the hub's components | Refresh, Update from notifications, client requests | notifications lost, overtaken, or racing a refresh |
| `database` | a buntdb file | recovery, Set, Get, Delete | a crash between two renames |
| `debug` | log level and its revert timer | SetLevel, resume | the same shape as telemetry |
| `config`, `hub`, `monitor`, `auth`, `security`, `notification`, `manifest`, `discovery`, `bootstrap`, `types`, `utils` | little or none | accessors, I/O, formatting | not a matter for a model checker |

Interaction: `root.Start` starts MQTT, the services (the adapter among them),
the router, the topic subscriptions, the tasks and the watcher. Router workers
call the adapter and the services; tasks call `InitializeThings`; the adapter
and the configuration store save through `storage`; the watcher subscribes to
the lifecycle; a factory reset, started by a message, calls `root.Reset` from a
goroutine of its own, which stops the router that delivered the message. A
level switch publishes its level on the event bus, where the virtual meter
listens; the meter service that the virtual meter adds to a thing is an ordinary
numeric meter. Notifications of prime reach the observer through the router.

## 2. Modules

| Module | Models | Run by |
|---|---|---|
| `Storage` | `storage/storage.go` | `MCStorage` |
| `DurableStore` | what a storage promises: memory, a durable value, atomic saves | refined by `Storage` |
| `StorageProofs` | theorems about `Storage` | |
| `Adapter` | `adapter/adapter.go`, `state.go`, `thing.go`, parts of `routing.go`, `tasks.go` | `MCAdapter` |
| `AdapterProofs` | theorems about `Adapter` | |
| `Router` | `router/router.go`, `handler.go`, the reset of `root/routing.go` | `MCRouter` |
| `RouterProofs` | theorems about `Router` | |
| `RootApp` | `root/app.go` without the watcher | itself |
| `Lifecycle` | `lifecycle/lifecycle.go` and the watcher of `root/app.go` | `MCLifecycle` |
| `RootProofs` | theorems about `Lifecycle` and `RootApp` | |
| `Telemetry` | the validity window of `telemetry/telemetry.go` | itself |
| `TelemetryProofs` | theorems about `Telemetry` | |
| `ServiceCalls` | the vocabulary of the device services: calls of a method, and `adapter/cache/reporter.go`'s strategies | |
| `OutBinSwitch`, `OutLvlSwitch`, `Thermostat`, `WaterHeater`, `MediaPlayer`, `ChargePoint`, `NumericMeter`, `NumericSensor`, `ColorCtrl`, `FanCtrl`, `SceneCtrl`, `Presence`, `Battery`, `Parameters`, `Diagnostic`, `Ota`, `DevSys` | the package of that name under `adapter/service`: `service.go`, `routing.go`, `tasks.go`, the parts of `specification.go` and `model.go` that checks read | instantiated by `DeviceServices` |
| `DeviceServices` | what all of them do with lock, device, reporting cache and hub | `MCDeviceServices`, itself (liveness) |
| `DeviceServicesProofs` | theorems about `DeviceServices` and the tables of the services | |
| `EventBus` | `event/manager.go`, `event/listener.go` | extended by `VirtualMeter` |
| `VirtualMeter` | `adapter/service/virtualmeter` | `MCVirtualMeter` |
| `VirtualMeterProofs` | theorems about `VirtualMeter` | |
| `PrimeObserver` | `prime/observer`, `client.GetComponents` of `prime` | itself |
| `PrimeObserverProofs` | theorems about `PrimeObserver` | |

Operators whose comment describes behaviour the code does not have (such as
"A Save that copies nothing to the backup") are plausible bugs; they occur in no
specification and serve to show that the properties notice them
(`mutants` in `PROJECT.json`).

### Storage and DurableStore

`writeFile` truncates before it writes, so the interesting states lie inside a
save: `Save` begins it (the backup is truncated), `BackupWritten`, `OpenData`
(the data file is truncated) and `DataWritten` follow; each has a failing
counterpart, and `Crash` may strike anywhere. A file is `Absent`, `Torn` (a
strict prefix of a JSON object, which `json.Unmarshal` rejects) or a body. `Load`
takes the data file, else the backup, over the defaults. A body is always the
complete object: fields that `omitempty` drops from a file are not modelled.

A save is *covered* if it began with a readable data file. `FaultsAnywhere =
FALSE` confines faults to steps that are not exposed, where a save that began
with a torn file has no copy to fall back to; `TRUE` lets them happen anywhere.

`DurableStore` is the abstract service: `Storage` implements it with `durable <-
saved` and `running <- pc # "down"`, where `saved` is the history variable that
changes exactly when a write or a removal takes effect.

### Adapter

All operations hold the adapter lock, so `op` is one record: the operation, its
stage and what it has left to do. Stages are separated where something can fail:
each `Save` of the state, each factory call, each message. `mem` and `disk` are
the state in memory and as saved; saving is atomic, as `DurableStore` promises,
and a failed save may or may not have reached the disk. The hub is external: it
remembers the last inclusion report of an address. A router worker that serves
`cmd.thing.get_inclusion_report` runs beside the operations, because it keeps
its thing after it released the lock. A thing instance records whether its
state proxy still points into the state. `wedged` is the deadlock of
`SetInclusionChecksum` (below).

Applications are assumed to keep the addresses they choose themselves apart from
those the adapter hands out (`AdapterAssumption`).

### Router

The message channel is a bounded sequence; workers take a message each and offer
it to the routings in order: vote, lock, process, unlock, respond. The outcomes of a
processor are a reply, nothing, an error and a panic. `Stop` is split at its
wait. A routing in `Resets` leaves a goroutine behind that calls `Stop`. Voters
are the table `Accepts`. Buffers of capacity 0 are excluded (the default
is 10). Deadlock is checked, so a handler that had to wait for its own router
would be found.

### RootApp

The parts are numbered in the order `doStart` starts them: MQTT, the services,
the router, the topics (the loop of subscriptions is one part), the tasks and
the watcher. `StartPart` and `StopPart` are one part each, with failing
counterparts. The router and the task manager refuse to be started or stopped
twice. `Wait` is split where it releases the lock. Names that `Lifecycle` has, too, start
with `App`, so that `RootProofs` can extend both modules.

### Lifecycle

A setter holds the state lock over assignment and emission, so reads of the
state wait for `LockFree`; the bus has its own lock, so a subscription may come
between `Set` and `Emit`. `WaitFor` is its four steps: read, subscribe, receive,
leave. Channels are bounded and drop. `told`, `reached`, `seen` and `dropped`
are histories.

### Telemetry

Every operation runs under one lock and is one step. A timer is its due time and
whether its callback has started; a callback whose timer was stopped too late is
counted in `late` and must find that it is no longer current. `Exit` ends the
process and lets the clock be anywhere at the next start. `SetTelemetry` changes
the memory before it saves, so a failed save leaves `cfg` changed, with the
timer as it was; `refused` remembers that. Changes of the wall clock while the
process runs are not modelled: Go's timers and differences are monotonic then.

### The device services

Every method of a service has one shape: take the lock of the service, check the
arguments against the specification, call the controller of the device; a report
then asks the reporting cache whether it is required, sends, and remembers what it
sent. A service module therefore says, in the names of its package, which calls
each command handler and the reporting task make: `Set` and `Change` for a
controller call with its effect on attributes (`Takes` is the effect on one), `Report` for a report with its
cache key, strategy and force, `Refused` for a failed check. Every check that the
code makes is there: supported modes, ranges (and the rounding to a step), the phase
modes and current limits of the charge point, the validation of parameters and of OTA
reports. Values are a few representatives on either side of each limit, also where the
code has no check: a level above `max_lvl` and a color component that is not in
`sup_components` reach the device. `None`, which is
nothing to report, is none of the values that a command may set (`NoneAssumption`).

`DeviceServices` chooses a service, a specification and one attribute in `Init`
and runs the calls: the device changes on its own between read and send, loses its
connection, calls fail, the interval of a strategy passes. `Cases` is how a name may be
spelled; the runs have the listed spelling only (see Findings).

`Limits` says, per service, which attributes it compares with its specification and
what that lets a command set; it is written from what the specification announces, and
not from the checks. `SpecificationRespected` is about these attributes only:

| Service | Attribute | Compared with |
|---|---|---|
| thermostat, fan | mode | supported modes |
| water heater | mode; setpoint, where it has a range | supported modes; range and step |
| media player | playback mode | supported modes |
| charge point | maximum current; current of a session that a command starts or offers, where there is a maximum; phase mode | 6 to the maximum; supported phase modes |
| scene controller | scene | supported scenes |
| parameters | the parameter | that it can be written; limits or options, where the widget fits the type |

Nothing is claimed of the level switch and the lamp, which announce limits and do not
look at them, nor of values that no specification limits.

### EventBus and VirtualMeter

A subscription is a bounded sequence; a publication to a full one is dropped.
`Stop` closes the channel of the listener and waits for the handler goroutines,
which choose at random between an event and the closed channel. `VirtualMeter`
extends it: one thing with one level switch. Every method of the manager holds its
lock and is one action, with a save, and an inclusion report, that may fail.
Energy is in watts times ticks. `drawn` is the reference: it charges each tick
at the power that the device had, and `watched` says when the code promises to
agree with it: recalculated within two periods, and no change of activity with
time uncharged. Every method of the manager reads the device before it changes anything,
so that a failed read is no step, except the registration (manager.go:493), which has
added the virtual service to the thing by then: that is a case of `RegisterThing`.

The powers of the modes are non-negative and the clock does not go back. The code checks neither
(`AddMeter` takes any numbers, `recalculateEnergy` any difference of times), and
`ReadingsKept` and `NoTimeTwice`, checked and proved, rest on both.

### PrimeObserver

Notifications are numbered and in flight; two workers take and apply them, so that
one may overtake the other; one may be lost or fail to parse. A refresh holds the
lock of the observer over its request, whose answer is the hub's set at the time
it answers. `disturbed` remembers a loss or an overtaking since the last refresh
that the hub answered with nothing in flight.

## 3. Runs

| Run | Result | What it shows |
|---|---|---|
| `storage` | pass | `CrashSafe`: a restart loads the value that last took effect, from one file or the other; `SaveAcknowledged`: nil from Save means durable; `ImplementsDurableStore` |
| `adapter_faults` | pass | `UniqueAddresses`, `AddressOwnership`: an address the hub was told of is never given to another thing; `EnsureSettles` |
| `adapter_live` | pass | `RegisteredIncluded`, `InitializeRegistersAll`, and under fairness `EventuallyInitialized`, `OperationsReturn` |
| `adapter_wedge` | violation | a failed save deadlocks the adapter (finding) |
| `router` | pass | `OneAtATime`, `NoStuckLocker`, `QuietWhenStopped`, and under fairness `StopReturns`, `Taken` |
| `root` | pass | `Layered`, `RunningIsUp`, `WokenWhenDown`, and under fairness `WaiterWoken`: a Wait that receives is woken by every shutdown, also a failed one |
| `lifecycle` | pass | `NoSendOnClosed`, `EventsFollowState`, `WaitNotEarly`, and under fairness `LossReported` |
| `telemetry` | pass | `WindowBounded`, `NotCutShort`, `ResumeKeepsEnd` |
| `services` | pass | `CacheIsHub`: nothing counts as reported that the hub was not told; `Agreement`: when all is quiet hub and device agree, whatever the order of handlers and task; `CommandConfirmed`; `EventFollowsHub`; `SpecificationRespected`: no command sets what the specification rules out, in the services that compare (below) |
| `services_live` | pass | `HubCatchesUp`: after failures and disconnections the reporting task brings the value of a stable device to the hub |
| `virtualmeter` | pass | `EnergyExact` against the reference sum, `NoTimeTwice`, `ReadingsKept`, `MeterMatchesStore`: a thing whose registration could read the device has a meter exactly when the device has modes, one whose registration could not has none; and under fairness `MeterFollowsSwitch` over lossy events |
| `observer` | pass | `CopyFaithful`: with nothing in flight and nothing lost the copy is the hub's; under fairness `CopyRecovers` in any case |

The runs list the properties that the code could get wrong. `TypeOK` of each module
states the types of its variables; it holds on the same instances (add it to the
`INVARIANTS` of a configuration), and is proved, as a part of the inductive
invariant, for every module with a proof module.

### Bounds

- Storage: two fields with two values, one of them set by the defaults, so a
  stale backup, the old and the new value can all differ. No bound on faults.
- Adapter: two things. Three acquired addresses let a destroyed thing be created
  again beside another one; `adapter_live` has one acquired and one chosen
  address and two different reports per thing, so a report changes between two
  starts. Two faults: one to leave something half done, one in the repair.
- Router: two workers to compete, three messages: two that compete for a locker
  and one that resets. Two panics would exhaust the workers if they were not
  recovered.
- RootApp: two services and two resetters, so that a failure has a part above, a
  part below and one of its kind on each side; two failures of each kind.
- Lifecycle: two setters (to emit out of order), three waiters of which two
  share an ID, channels of one event, so that drops happen, and two changes.
- Telemetry: windows of 1, 2 and 3 ticks within 6 ticks, so that windows follow
  each other; two late callbacks, two failed saves.
- DeviceServices: every service with each of its specifications and each of its
  attributes. Two commands and the task, one failing call, with the workers as a
  symmetry set (nothing tells them apart); parameters of every type with every widget,
  numbers with and without limits, and one that is read-only. For liveness one
  command, the task and two failing calls, so that a retry fails, too.
- VirtualMeter: two mode maps, levels 0 and 1, periods of 1 and 2 ticks within 3
  ticks, so that recalculations come early, in time, and after more than two
  periods, and a pause reaches the garbage period; channels of one event, so that
  every busy moment drops; one fault, which may be a failed save or report, a
  restart, or a stop of the listener. A registration may fail to read the device
  at no cost: there is one before and one after the restart.
- PrimeObserver: one component with two values, two workers (to overtake), four
  changes, two faults.

Deadlock is checked except in `adapter_faults` and `adapter_wedge`, where the
wedged adapter is one.

### Fairness

Weak fairness is assumed of goroutines that are running or hold a lock: the
steps of an adapter operation, of a router worker, of a setter between
assignment and emission, of the watcher, of the root operations, of a service
method that has its lock, and of periodic tasks. Strong fairness is assumed of who
waits for a Go mutex, which hands itself over to a waiter that has waited long
(`InitializeThings`, the methods the reporting task calls, `Update` and `Refresh` of
the observer), and of an event handler that finds the listener closed and an event
at the same time: Go's select chooses at random (`LeaveHandler`). The answer of a
request in `PrimeObserver` is fair because a request that gets none ends at its timeout.
No fairness is assumed of clients, the hub, or
faults; faults are bounded, so they stop eventually, which is when
`EventuallyInitialized` promises anything.

## 4. Findings

*Deadlock in an error path* (`adapter_wedge`, state.go:252, the same at 231). The
error message calls `s.ID()`, which takes the read lock of the state that the
function holds for writing.

Behaviours of the models that a reader should know of and that no run singles out:

- After a save that tore the data file, the next save copies the torn file over
  the good backup (storage.go:199), although `loadData` "performs fallback to a
  last backup if possible": one more fault and `Load` finds neither. `Exposed` is
  this save.
- `EnsureThings` skips IDs that the state knows, also when the creation of their
  thing failed (adapter.go:256), and returns nil without it.
- `Wait` unlocks before it receives, and `passErr` sends only to a receiver
  (app.go:113): a `Stop` between the two is lost and `Wait` blocks.
- Thermostat and water heater cache a setpoint under the mode as the command
  spells it (thermostat/service.go:206, waterheater/service.go:214), the task under
  the listed spelling. With `Cases = {"listed", "other"}` `HubCatchesUp` fails: a
  setpoint set under the other spelling leaves the old entry, and when the device
  returns to that value the task takes it for reported, forever. The water heater
  also looks up the range of a mode by that spelling and misses it
  (waterheater/service.go:343).
- `SetLevel` of a level switch passes any level to the controller, also one outside
  `min_lvl` and `max_lvl` (outlvlswitch/service.go:163), and `SetColor` any component,
  also one that is not in `sup_components` (colorctrl/service.go:89). No document of the
  repository says that they look at them.
- `ValidateParameter` compares `min` and `max` only with the input widget, and
  options only if the widget fits the type: a number that is selected may be outside
  the limits, and an array with the widget `select`, a number with `multiselect` or any value
  but a number with `input` is not checked (parameters/model.go:96-140).
- A registration of a virtual meter that fails to read its device leaves the thing
  with the virtual service, and without the meter its saved modes call for; later
  registrations see the service and return, and the meter cannot be added, until
  the process is started again (virtualmeter/manager.go:483-496).
- The comment of `recalculateEnergy` (virtualmeter/manager.go:325) says a late
  recalculation accounts "for only single recalculationPeriod"; the code, and its
  log line, account for two.
- A virtual meter whose inclusion report failed is not reported by a retry
  (virtualmeter/manager.go:121). Garbage cleaning deletes the entry of a
  configured meter after a long pause; adding and reporting then fail until the
  next start (281). A device that becomes active again is charged up to two
  periods of its pause (310). The power of the mode "off" is multiplied by level
  0 and never counts.
- `Reset` of a storage loads the defaults over the old model: fields that the
  defaults file does not set keep their values in memory (storage.go:249).
- An inclusion report requested before a delete may be published after the
  exclusion report (adapter/routing.go:49); an exclusion report that cannot be
  published is not sent again (adapter.go:427).
- After a `Start` that failed half way `Stop` returns nil and leaves the started
  parts running (app.go:82); `Reset` resets data under parts that failed to stop
  (app.go:95).
- The listener of a stopped configuration poll unregisters the channel by name, also
  one that a later `Start` registered (config_poll.go:112), and the fallback may
  be scheduled after the answer and replace its earlier update (274). Nothing in the
  framework starts the poll twice in a process.
- `WaitFor` reads the state and then subscribes (lifecycle.go:252): a change in
  between is missed, and it waits for the next. Two callers with one ID share a
  channel, and the first to leave ends the wait of the other
  (lifecycle.go:258); `WaitNotEarly` is therefore about IDs of one user.
- An `Enable(true)` that cannot be saved has enabled telemetry in memory with no
  timer to end it (telemetry.go:396); `WindowBounded` excludes that case.

## 5. Proofs

`StorageProofs`, for every set of fields and values, every defaults file:

- `TypeCorrect`, whatever faults occur.
- `StorageResetIsFinal`, whatever faults occur: what a `Reset` that returned nil
  removed is not loaded again until it is saved again. The invariant `Wiped` says
  that from then on neither file holds a body. (Without exposed faults `CrashSafe`
  implies it, so no run checks it on its own.)
- With `~FaultsAnywhere`: `StorageCrashSafe`, `StorageSaveAcknowledged` and
  `StorageImplementsDurableStore`. The inductive invariant `IInv` joins the
  types, `CrashSafe`, `SaveAcknowledged` and `SaveStages`. `CrashSafe` is not
  inductive alone: that opening the data file loses nothing rests on the backup
  being its copy, which `SaveStages` states. The refinement is shown step by step
  in `StepSimulation`: only `DataWritten`, `SyncFails` and `Reset` move the
  durable value.

`RouterProofs`, for any workers, routings, messages and lockers:

- `RouterOneAtATime`, `RouterNoStuckLocker`, `RouterQuietWhenStopped`, from an
  invariant that says a locker is locked if and only if exactly one worker is
  inside a handler that uses it, and that a stopped router has no workers. The
  lemmas `OutsideStep`, `EnterStep` and `LeaveStep` are the three ways a worker
  can affect it.

`TelemetryProofs`, for any validities and bounds:

- `TypeCorrect`, `WindowArmed`, `TelemetryWindowBounded`. The timer closes the window,
  so the invariant `Armed` says that an enabled window has a timer due exactly
  at its end, and that the clock never passes a timer; `WindowBounded` follows.
- `TelemetryNotCutShort` and `TelemetryResumeKeepsEnd`, action properties, case by
  case over the steps. The callback of the current timer is the only step that ends
  a window unasked; `CallbackIsDue` adds that it never starts before its time.

`RootProofs` about `Lifecycle`, for any setters, waiters, types, states and buffer:

- `LifecycleNoSendOnClosed`, from `OnBus`: what is on the bus is open, and under the
  ID of its owner, so that nobody closes it without taking it off the bus.
- `LifecycleEventsFollowState`, from `Pending` (one setter at a time has an event to
  emit, and it is about the current state) and `Follows`: per type, the property
  holds unless an event of that type is still to be emitted. The property says
  nothing while a setter holds the lock, so it is not inductive.
- `LifecycleWaitNotEarly`, from `Waits`: as long as nobody shares the ID of a
  waiter, its channel stays open until it has left, and an event it waits for is in
  it only after the state was reached.

`RootProofs` about `RootApp`, for any numbers of services and resetters and any failures:

- `RootAppLayered`, `RootAppRunningIsUp`, `RootAppWokenWhenDown`. The invariant ties
  the position of an operation to what is up: a start at part `i` has everything
  below `i` up, a stop at part `i` has nothing above it left (`Progress`);
  `RunningMeans` and `DownMeans` say what `running` stands for while no part failed
  to stop, or to start and stop.

`AdapterProofs`, for any finite set of things (a Go map is finite), any faults:

- `AdapterUniqueAddresses`, `AdapterAddressOwnership`. An address is claimed by
  a record in memory or on disk, by a creation about to add its record, by a
  registered instance or the one a worker holds, or by the hub's memory of it; `OwnOK` says
  that one thing at most claims an address, and that it is one the saved index has
  passed, or the one its application chose. That the index is saved before the address
  is used is what keeps it across a crash. `OpOK` and `AttachedOK` say what the stages
  of an operation and the instances know of the state.
- `AdapterEnsureSettles`, from `EnsureOK`: what the state has beyond the seeds is
  still to be removed, what it lacks still to be created.
- `AdapterRegisteredIncluded`, `AdapterInitializeRegistersAll`, with the assumption
  `"save" \notin Faults`, which the run `adapter_live` has too, from `HubOK` (a stored checksum means
  a report that arrived) and `InitOK`. Without it they do not hold: a removal that could not be saved leaves
  the record on disk with its checksum, the thing is excluded when it is destroyed
  again, and after a crash it is back, with a checksum that suppresses its report.

`PrimeObserverProofs`, for any components, values, workers and numbers of changes:

- `PrimeObserverCopyFaithful`. The property is about a quiet moment; the invariant
  is about all the others. `Numbers`: notifications in flight have different
  numbers, in order in the queue. `Consistent`, unless one was lost or overtaken: the newest notification about a
  component carries the hub's value (`NewestIsHub`); a component that nothing in
  flight is about is the same in the copy (`CopyIsNear`), where, during a refresh, the
  copy is the answer that will replace it; and between two notifications in flight
  that add a component there is one that deletes it (`AddedOnce`), so that adding one
  that the refresh had brought already does no harm.

`VirtualMeterProofs`, for any finite, nonempty sets of mode maps and levels, any
periods, buffers and faults:

- `VirtualMeterMatchesStore`, inductive with the types and with `Unregistered`: before the
  registration the manager has no meter service to add. That a failed read leaves no
  meter behind, and that no later step adds one, rests on it.
- `VirtualMeterEnergyExact`, `VirtualMeterNoTimeTwice`, `VirtualMeterReadingsKept`, from `Accounts`: the
  last update lies between the reset and now; the energy is at most the highest
  power times the time up to the last update (the property has the time up to now, and
  one more charge would break it); while the meter is watched, stored and uncharged
  energy add up to the reference, and uncharged time at a power is at most the two
  periods the code charges; a device that is off has level 0.
  The arithmetic is in the lemmas `SoundZero`, `SoundCharged`, `SoundUncharged` and `SoundTick`, one for each way a
  step can touch the account. `GreatestExists` shows, from the library's theorem on
  minimal elements, that a finite set of numbers has a greatest element, which `Max` needs.

`DeviceServicesProofs`, for all seventeen services with each of their
specifications, any workers, any number of failing calls, and any spelling of names
unless a theorem says otherwise:

- The proof has two halves. The first is about the tables. `CallOK` says what one
  call may do: set the attribute to one of its values and, with listed names, to one that the
  specification allows; report it under the right key, cached or not as the service
  does it, and announce it where the service announces. `Kept` says of a handler that
  every call that sets an attribute is followed by a forced report of that attribute,
  with no check in between that may refuse. One lemma per service (`OnOffTable` to
  `HeaterTable`) establishes `HandlerOK` for every command and for the reporting task,
  whatever the arguments; `TablesDisciplined` joins them. For the charge point, the fan,
  the scenes, the thermostat, the player, the water heater and the parameters this is where the checks of the
  arguments are shown to imply `Limits`.
- The second half knows the services only by these rules. The inductive invariant
  `IInv` says that the calls a process has left keep them, that a process that set the
  attribute still has the confirming report before it (`CallsOK`), that only the holder
  of the lock has a reading, which is the value of the device unless that changed on
  its own (`Readings`), that where hub and device differ somebody owes a report
  (`Told`), that the cache holds what the hub was told (`CacheOK`), and that the last
  event is what the hub has (`Announces`). None of the properties is
  inductive: `Agreement` is about quiet moments, and a handler that is half way is
  described by `CallsOK` and `Told`.
- `DeviceServicesCommandConfirmed` (with the types), `DeviceServicesAgreement` and
  `DeviceServicesEventFollowsHub`, whatever the spelling.
- `DeviceServicesCachePerKey`: `CacheIsHub` for every service but thermostat and water
  heater, whatever the spelling. `DeviceServicesCacheIsHub` and
  `DeviceServicesSpecificationRespected`: for all of them with `Cases = {"listed"}`, which
  is the instance of the run `services`. With the other spelling `CacheIsHub` fails for those two and
  `SpecificationRespected` for the water heater, for the reason in Findings: an entry under
  the other spelling keeps an old value, and the water heater misses the range of the mode.

The assumptions on constants are those of the modules, which TLC evaluates on
every run: that `None` is none of the values it is kept apart from, that bounds are
natural numbers, that sets which are finite in the code are finite.

Every inductive invariant was checked by TLC on the instances of the runs, or on
smaller ones, before it was proved.

Only model-checked, or not checked at all:

- Liveness (`StopReturns`, `Taken`, `WaiterWoken`, `LossReported`,
  `EventuallyInitialized`, `OperationsReturn`, `HubCatchesUp`, `MeterFollowsSwitch`,
  `CopyRecovers`): fairness and ENABLED are beyond the prover.
- That the values in the tables of the services stand for all values of the code:
  the theorems quantify over workers, faults and spellings, the tables have a few
  representatives on either side of each limit.

## 6. Not modelled

The components with status `not_modelled` in `PROJECT.json`, with the reasons
there: mostly code without state of its own, I/O, or a value under one lock. The
handlers of `app` hand messages to an application that is not in this
repository. Within the modelled ones: connectivity, ping and node reports,
`SetState` and `Update` of things; message contents and topics; statistics and
logging; telemetry emission, throttling and counters; `WaitFor` of the event
manager; the report of a virtual meter's modes; the set requests and the data
model of `prime`; the refresher (whose `Reset` does not end a failure backoff,
adapter/cache/refresher.go:165).

## 7. Plan

Every safety property that a run checks is stated by a theorem. What is left is
to model more:

1. The rest of `Adapter`: connectivity, state and thing updates.
2. The recovery of the database with a crash between its renames; the refresher
   with its backoff; the configuration poll, composed with `Telemetry`.
