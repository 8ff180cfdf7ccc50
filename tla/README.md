# Verification of LasecSimul

LasecSimul is a circuit simulator: a VS Code extension (`src/extension`, TypeScript) draws
schematics and controls a native process, the Core (`src/core`, C++), which solves the circuit,
keeps virtual time and co-simulates microcontrollers (QEMU), FPGAs (GHDL), PLC programs and
plugins. This directory holds TLA+ models of the concurrent part of the Core and of the asynchronous
part of the extension, their TLC configurations, and TLAPS proofs.

    tlc -workers 2 -config Scheduler.cfg MCScheduler     # one run; PROJECT.json lists them all
    tlapm SchedulerProofs.tla                            # one proof module

`PROJECT.json` maps every definition to the lines it models, lists runs, mutants, hazards,
findings and theorems.

## 1. The system

| part | state it keeps | operations | interacts with | hard because |
|---|---|---|---|---|
| Scheduler (`simulation/Scheduler.cpp`) | clock, event queue, multiset of hard events, two lock-free snapshots, two dirty sets, step size | `runUntil`, `step`, `scheduleAt`, `scheduleEvent`, `markDirty`, `pause`, `reset` | callbacks into the session, which solve, commit or roll back a step | the mutex is given up between settle iterations and around event callbacks; time steps can be rejected |
| Scheduler worker (same file) | run, pause and stop flags, generation counters, pacing anchor | `start`, `stop`, `resume`, the free-running loop | IPC thread, poll threads of MCUs | four kinds of waits, each woken in its own way; `stop` joins |
| Command queue (`session/SimulationSession.*`) | bounded list of commands | `enqueueCommand`, `runViaCommandQueue`, drain | IPC thread blocks on a future, worker drains at fixed points | everybody waits for the worker, which may sleep |
| Notification queue (`ipc/NotificationQueue.cpp`) | reliable and lossy lane, byte budget, counters | `pushControl`, `pushTelemetry`, `waitPop`, `stop` | worker and IPC thread produce, the notification thread writes to the socket | one condition variable for producers and consumer |
| Thread pool (`simulation/ThreadPool.hpp`) | published job, generation, pending count | `parallelFor`, workers, destructor | `MnaSolver` solves circuit groups in it | lazily created workers, exceptions, a function on the caller's stack |
| Session, IPC server, verbs | components, netlist, telemetry; socket | some 100 IPC verbs | everything | long, mostly sequential; edits go through the command queue |
| MCU co-simulation (`mcu/`) | shared-memory lanes, guest's proven instant, process | poll, dispatch, rearm, attach, restart | Scheduler by `scheduleAt` and the advance limit | two clocks, two processes, lock-free rings |
| FPGA co-simulation (`fpga/`) | arena, process | `ADVANCE_TO`, pins | the session's commit callback | cannot be rolled back |
| Plugin host (`plugins/`) | one guarded thread per instance, cache of libraries | guarded calls with time limits | components | calls that time out and finish late |
| Python, PLC, HART and other protocols | interpreter, scan image, device tables | step, scan, frames | stable step | mostly sequential |
| Core client and process (`extension/src/ipc`, `core/coreLifecycle.ts`) | pending requests, socket, process | requests with time limits, connect, exit | the Core by JSON lines over a socket | an answer, a time limit, a closed socket and an exit arrive in any order |
| Run, Pause, Stop, telemetry (`extension.ts`, `core/coreLifecycle.ts`) | status and its revision, polling timer and generation, frame in flight | the three buttons, pause conditions, polling, rebuild | client, mutation queue | every handler awaits the Core while the others go on |
| Mirror of the circuit in the Core (same files) | map of component ids to instances, mutation queue, snapshot queue, previews | add, paste, remove, property preview and commit, wire transaction, snapshot, rebuild | the Core refuses topology changes while it runs | two queues, refusals, lost answers |
| Topology of wires (`ui/webview/wireTopology.ts`) | nodes and conductors of the document | connect with splits, remove, clean up, star of electrical edges, differences | the Core gets differences only | incremental changes must add up to the drawn nets |
| Document, undo, nested levels (`extension.ts`, `ui/webview/main.ts`) | two copies of the document with a revision, a history per level, stack of levels | edits, undo, redo, requests, open and close a definition | messages both ways between host and webview | both sides change their copy |
| Solver, signal engine, components | matrices | stamp, solve | settle step | floating point |

What makes each concurrent part correct:

* Scheduler: no event is skipped; time goes back only to a committed instant and over nothing that
  was processed; what cannot be undone sees committed time only; the duplicates of the event queue
  stay exact; `runUntil` returns.
* Worker and commands: no sleep without a deadline while there is work; `stop` returns; every edit
  is answered; the clock does not pass a lockstep guest; shared data is touched under its mutex.
* Notification queue: the byte budget is kept and exact; control messages are delivered in order;
  telemetry is fresh and every loss is counted; blocked producers return.
* Thread pool: each index once, nothing after the return, exceptions reach their caller, calls and
  the destructor return.
* Plugin host: watched calls of a device never overlap, an outcome belongs to its call, the Core
  gets control back from a watched call that never returns.
* Run control: the status shown is what the Core does, but for pauses it tells nobody; a stopped simulation shows no values; one
  frame is in transit at most; the buttons come back; a running simulation is seen.
* Mirror: once quiet the Core has the document's components and wires, the committed values unless
  it refused them, and no instance nobody knows; the queues drain.
* Wires: the star has the nets that are drawn, edits change only the nets they are about, and the
  differences keep the Core's edges equal to the star.
* Document: the two copies agree once quiet, undo is a line through what is shown, circuits of
  different levels never mix, a wire is connected to the circuit it was drawn on.

## 2. Modules

**NotificationQueue** (`core/src/ipc/NotificationQueue.cpp`, consumer loop in `IpcServer.cpp`).
Each critical section is an action; `asleep` is the wait set of `m_wake`, whoever leaves it by a
notification or spuriously evaluates its predicate in an action of its own. A message is an id, a
key and a size. `accepted`, `delivered`, `latest`, `owed` and `nextId` are ghosts.

**Scheduler** (`core/src/simulation/Scheduler.cpp`, `runUntil` and what it calls; commit decision
in `SimulationSession.cpp:242-263`). `pc[t]` walks through `runUntil`; `holder` is `m_mutex`. The
solver is a nondeterministic choice: which components are dirty again, whether an event is
scheduled, whether the error estimate is good. New step sizes are chosen within the factors the
code clamps them to. `committed`, `fired` and the field `due` of an event are ghosts.

**SchedulerWorker** (`Scheduler::start`, `stop`, `signalWorkAvailable`, the waits, and the command
queue of `SimulationSession`). `runUntil` is coarse here. Time and generations are relative, so the
state space is finite without a bound on time. `signalWorkAvailable` is three steps (generation,
look at `m_workerTimedWait`, notify through `m_pacingMutex`), because the lost wake-ups would lie
between them. Wall-clock deadlines are the action `Timeout`.

**ThreadPool** (`core/src/simulation/ThreadPool.hpp`) and **ParallelFor**, the promise of
`parallelFor` without threads; `Abstract` in ThreadPool is the refinement mapping.

**PluginWatchdog** (`core/src/plugins/PluginWatchdog.hpp`, `NativeDeviceProxy.cpp`,
`NativeMcuAdapterProxy.cpp`). Each section under `State::mutex` is an action; a thread that `start()`
creates has an index and its own `State`, and `posted` and `finished` are the Boolean `busy`. `Proxy`
chooses between the device, which keeps one watchdog for `post_step` and makes its other calls on the
caller's thread (`Event`, `Stamp`), and the adapter, which takes a watchdog for each call. The plugin
is external: it returns, crashes (`CrashGuard` reports it), or never comes back. The device's
destructor ends in one more call of the plugin, `destroy(m_handle)`, on its own thread and without a
time limit: it is a step of its own (`Leave`, then `DestroyReturns`) and may stay inside. The adapter's
constructor is left out: the model begins with a constructed one. `posted`, `doing` and `did`, which
say whose call a thread executes and what became of it, are ghosts.

**WireTopology** (`extension/src/ui/webview/wireTopology.ts`, the wire handlers of `extension.ts`).
`doc` is the graph of ports, nodes and conductors in the order of the arrays, because the root of a
star is the first port the traversal pops; `core` is the bag of edges of the Core. An action is a
whole handler: split or resolve both ends, add or remove, clean up (`normalizeWireGeometry`), and the
difference of two stars that the Core is sent. Coordinates are abstracted to what a gesture hits.
`meant` (the nets the gestures ask for) and `drifted` (an edit the Core was told too little or too
much about) are ghosts.

**CoreSync** (`extension/src/core/coreLifecycle.ts`, `extension.ts`, `ipc/CoreClient.ts`). `queue` is
`coreMutationQueue`, `snaps` the queue of snapshots that feeds it; a request with the code up to the
next `await` is a step, and handlers run between any two. `inst`, `wires` and `on` are the Core:
topology changes are refused while it runs, an answer may be lost after the request was executed
(`stale`: the client's topology revision is then behind). A component has one property; `AffectsTopology`
and `AffectsPinCount` are the components whose property has that flag, and `of` in an instance is the
component it was made for. `Accepts` is the Core's side of
`setProperty`: a structural or pin-deciding property is refused while the scheduler runs, a value of
`Invalid` (wrong type or option, out of range) always; the extension reports a refusal and keeps the
document as it is. When the Core accepts another value of a property that decides the pins it takes
every wire off the instance (`Repinned`); the host drops the wire from the document only if its pin is
gone (`HasPin`, `Pinless`). The hydration of a new instance refuses nothing and may keep the default
for an invalid value (`AddInstance`). `runSimulation` and the resumption after a rebuild may fail,
whether the Core has started by then or not, and leave the status as it was. `tainted` and `leaked` record the histories
the properties except: structural edits that crossed each other or were refused, and instances that
were forgotten. The history `denied` of an instance is the last value committed to it if the Core
refused that, so `CommitWins` says exactly when document and Core may differ. `requestConnectEndpoints`, `requestRemoveWire` and `requestAddComponent` are verbs
that the host serves and comments still name (`main.ts:6568`, `coreLifecycle.ts:302`), although the
webview of this version edits its copy and posts a snapshot.

**DocumentSync** (`extension.ts`, `ui/webview/main.ts`). `host`, `last` and `stack` belong to the
extension host, `view`, `history` and `outer` to the webview, `toHost` and `toView` are the two
ordered channels. `awaiting` holds host functions that have changed the document and await the Core
before they publish the patch. A circuit is a pair of values tagged with the circuit it belongs to,
so a level that gets another's content is visible. `crossed` and `tangled` are ghosts.

**SimulationControl** (`extension.ts`, `core/coreLifecycle.ts`, `ipc/CoreClient.ts`,
`ipc/CoreProcess.ts`). `calls` are the requests of all connections, in order: executed by the Core
(`Execute`), answered (`Deliver`), refused, timed out or rejected by a closed socket; what the code
does after the `await` is part of the step that ends the request. Processes die at any time, and
`SocketClosed` and `ProcessExit` follow in either order. The Core pauses itself in two ways: a pause
condition, which it announces (`TriggerCondition`, `ReceiveCondition`), and a failing Python block,
which the extension only writes to its log (`PauseSilently`; `silent` holds the processes paused in
this way until the next command). `PollingThrows` is the throw of `startVoltageReadoutPolling` for a
`telemetryRateHz` that is no positive number, after a good answer; `runSimulation` then puts the
status of before back. Connecting is three steps between
which everything may happen: the handshake, which may fail while the process lives
(`connectCoreClient`), the client's publication, and the catalogue's refresh with the rebuild
(`RefreshCatalog`), which may fail. `jobs` is the mutation queue with stops and
rebuilds, `prep` the progress of `runSimulationWithFirmwareCheck`, `timer`, `gen`, `inFlight` and
`last` the polling. `overlapped`, `loose`, `lost` and `orphaned` are ghosts: they name the histories
in which the code applies an answer it should not, and the properties except exactly those (they are
listed below).

`MC*` modules instantiate them for TLC. The modules **NotificationQueueProofs**, **SchedulerProofs**,
**SchedulerWorkerProofs**, **ThreadPoolProofs**, **PluginWatchdogProofs**, **DocumentSyncProofs**,
**SimulationControlProofs** and **CoreSyncProofs** hold the theorems. In the modules, operators named `Mut...` are the
plausible bugs that `PROJECT.json` uses to show that each property can fail; no specification uses
them.

## 3. Runs

| run | instance | checks |
|---|---|---|
| `notification_queue` | 2 producers, 2 streams (one always too large for the budget), capacity 3, 4 offers | budget exact, control FIFO, freshness and accounting of telemetry, no lost wake-up, blocked producers return, accepted messages are delivered |
| `scheduler` | 1 running thread, time 0..3, 2 events, adaptive steps 1..2, iteration limit 1 | snapshots exact, no event skipped, published instants are committed, clean rollbacks, contiguous commits |
| `scheduler_live` | worker and a `step(0)` thread, time 0..2, no events | `RunUntilReturns` |
| `worker_lockstep` | exact guest, all calls, queue of 2, thread creation may fail | no lost wake-up, the clock never passes the guest |
| `worker_live` | slack guest, no iteration limit | `StopReturns`, `CommandAnswered` |
| `thread_pool` | 2 callers, 2 workers, jobs of 2 to 4 indices, serial and parallel, exceptions and creation failures | refinement of ParallelFor, calls and destructor return |
| `plugin_watchdog` | a device with 2 users, 3 timeouts to fault, at most 2 threads, thread creation may fail | watched calls never overlap, outcomes are their own, calls with a time limit return, the destructor reaches the plugin's `destroy` |
| `wire_topology` | 4 components, 6 projects (empty, chain, T, loop, two and three class transitions), 3 edits | star realises the nets, edits keep the nets, removals settle, the Core follows the document |
| `wire_topology_phantom` (violation) | the same, 1 edit | `CoreShowsTheScreen` |
| `core_sync` | 2 components, one with a property that decides its pins, 1 wire, 2 values, 3 edits, 1 press, lost answer or failed run, from stopped, running or paused | the Core mirrors the document, committed values win or were refused, no forgotten instance, the queues drain |
| `document_sync` | 2 nested definitions, 2 values, history of 2, 4 gestures | the copies agree, linear history, levels apart, `ConnectsWhatWasShown` |
| `simulation_control` | 2 processes, 3 gestures, 1 fault | status agrees, stopped screen is blank, one frame in transit, controls return, frames flow |

Bounds. The queue's capacity of 3 with sizes 1, 2 and 4 has messages that fit beside each other,
that fit alone, and that never fit; four offers let a producer block, be overtaken by telemetry and
return. In `scheduler`, time 0..3 with steps of at most 2 has targets that need several steps,
events before, on and between step ends and in the past, and a step that is rejected and retried at
the minimum; two events are enough for one that is processed while another is pending or is
scheduled by its callback. The iteration limit 1 lets a settle end without convergence.
`SchedulerWorker` needs `Horizon = 1` only: the code distinguishes an event that is due from one
that is ahead. Two workers and up to four indices in `thread_pool` include a job that needs fewer
workers than exist, one that needs more than exist yet, and a worker that sleeps through a job.
`plugin_watchdog` uses the code's own limit of 3 timeouts; the code creates one thread per device,
and the bound of 2 leaves room for the second one it must never create.
Three edits in `wire_topology` build a net and take a middle part of it away again; the loaded
projects have the shapes that need more. Three edits in `core_sync` are an edit, one that crosses it
and one after both; one event beside them is a press, or an answer lost between two requests of a
job. The component to be added has a property that decides its pins, and the second value takes
the pin of the wire away: the three edits add it, draw the wire and change the value, or change it
while the Core runs and refuses it. Values the Core refuses always (`Invalid`) were checked with a
third value, for the same three edits and one event (2.7 million states, too long to keep as a run);
a structural property that leaves the pins alone differs from the one here in keeping the wire. The
proofs cover all of them.
A history of two in `document_sync` is exceeded by three edits, and four gestures open a level,
edit it, leave it and undo. In `simulation_control` three gestures with one fault are a press that
meets two others in every phase; the invariants were also run without liveness with three processes,
for three gestures and two faults (3.06 million states) and four gestures and one fault (1.98
million).
Deadlock is not checked: each of these systems may rest when nobody calls it (the liveness
properties say when it may not).

### Fairness

* NotificationQueue: the consumer and a producer that was woken run; a spurious wake-up or a new
  call is never assumed. The mutex is held for straight-line code only.
* Scheduler and SchedulerWorker: a thread inside a call goes on, strongly fair where it waits for
  `m_mutex`: the code gives the mutex up between settle iterations and sleeps or yields there, so a
  waiter gets it if it is free again and again. `std::mutex` promises no order; this is the
  assumption under which the code is written (`m_externalLockWaiters`, which asks the worker to
  yield longer, is not modelled and is covered by it). `SF(Timeout)`: a deadline passes even if the
  wait is interrupted before it, because the real clock goes on.
* ThreadPool: threads run, `fn` returns or throws, `m_invocationMutex` is not withheld for ever.
* PluginWatchdog: the host and the reserved thread run and deadlines pass; a call inside the plugin,
  `destroy` included, is under no fairness, so it may stay there for ever. `CallReturns` therefore
  claims the calls with a time limit, and the destructor as far as `destroy`.
* CoreSync: the queue's job goes on, its requests are answered or time out.
* SimulationControl: the event loop serves what is queued, the polling timer fires, and the Core
  answers while it lives. `Prepare`, `StartJob` and `ProcessExit` are strongly fair: rejections of a
  closed socket run as microtasks before them, so they are disabled for a moment again and again.
  No gesture, crash or time limit is assumed to happen.
* Nothing is assumed of callers, of guests or of circuits: a circuit may never settle and a guest
  may stop for good.

Atomics are sequentially consistent in the models; the code's acquire/release pairs on the
generation counters are not examined.

### Disagreements with the source

One run shows the code doing what a comment excludes (`findings` has the quotation): after
`requestRemoveComponent` the Core is sent the difference between the wires that are left and their
clean-up, while its star may have connected them through the removed component, or may have left
ports connected that were wired only through it (`extension.ts:1683`; `wire_topology_phantom`).

Seven more were found, five in the Core and two between it and the extension. They have no run of
their own; change the instance as said and TLC shows each in seconds:

1. an oversized telemetry frame frees bytes without waking a blocked control producer, which then
   sleeps in front of an empty queue (`NotificationQueue.cpp:50`): `BlockedProducerReturns` fails
   with one stream whose frames may outgrow the budget;
2. `step(0)` from an IPC handler during an adaptive step of the worker may take a tentative clock
   as its target and commit an overlapping step (`Scheduler.cpp:363`): `CommitsAreContiguous` with
   two threads and steps 1..3;
3. an event already due is not processed while the advance limit leaves no room
   (`Scheduler.cpp:213`): `LateEventIsProcessed` with a slack guest and a fixed step;
4. the drain before the advance-limit wait applies commands without `m_mutex`
   (`Scheduler.cpp:568`): `DirtyUnraced` with a slack guest;
5. the MCU adapter's watched calls capture their caller's variables by reference, although a call
   may go on after its caller gave up (`NativeMcuAdapterProxy.cpp:70`, also lines 30, 44, 63, 101):
   `CapturesAlive` with `Proxy = "adapter"`;
6. of a property that decides the pins the host says that the Core does the same reconciliation by
   itself ("O Core faz a MESMA reconciliação", `extension.ts:1883`), but the Core drops every wire of
   the component, those of the pins that stay too (`Netlist.hpp:147`), and nothing connects them
   again before a rebuild: `SameReconciliation` in `core_sync` with `Pinless = {}`, where
   `CoreMirrorsDocument` fails as well;
7. when a Python block fails the Core pauses its scheduler (`SimulationSession.cpp:3055`, as
   `docs/python-programavel/README.md:17` promises), and the extension writes to its log that the
   simulation was paused, but goes on showing "running" (`extension.ts:446`): `PauseIsShown` in
   `simulation_control`.

Met while modelling the Core and not turned into a property: `pushControl` evicts telemetry once,
before its wait, and may afterwards sleep behind newer telemetry (`NotificationQueue.cpp:22-24`; it
still returns); `start()` leaves `m_running` set if the thread cannot be created
(`Scheduler.cpp:393`), after which a synchronous edit would wait for ever until `stop()` (with
`SpawnMayFail`, `CommandAnswered` fails, so `worker_live` sets it to FALSE); `stamp`, `on_event` and
the property calls enter a device while a timed-out `post_step` may still be inside it on the
reserved thread, since `m_deviceMutex` is released by then (`NativeDeviceProxy.cpp:143`); and a job
that the reserved thread has taken but not yet begun when `shutdown()` detaches it starts after
`destroy`, so the comment at `NativeDeviceProxy.cpp:120` holds only for a job still in `State::job`.

The ghosts of the extension's modules stand for histories in which the code goes wrong:

* SimulationControl, `overlapped`: `pauseSimulation` applies its answer unconditionally, so a pause
  answered after Stop or after an exit leaves "paused" (without a client Run then does nothing, only
  Stop recovers); a late `pauseConditionTriggered` does the same; of two pending resumptions, the
  refusal of the first leaves "paused" while the Core runs; Run pressed during Stop's rebuild, or
  Stop during a rebuild whose status is "stopped", leave the status and the Core apart; Stop over a
  pending resumption restarts polling after the screen was cleared; the late exit of an older process
  clears the client of the new one and sets "stopped" (`attachCoreProcessHandlers`, `extension.ts:418`),
  while the new Core, if it was started meanwhile, runs on.
* `loose`: the readouts a resumption asks for carry no generation and are shown after Stop.
* `lost`: a Stop whose answer fails leaves "running" without polling; a `telemetryRateHz` that is no
  positive number makes `startVoltageReadoutPolling` throw after the Core has started, and the `catch`
  leaves "stopped" (or "paused") while the Core runs (`coreLifecycle.ts:1209`).
* `silent` (no ghost, it is the Core's state): the seventh item above. `StatusAgrees`
  allows this difference, "running" over a Core that paused itself, and no other.
* Without a ghost, because the status stays "stopped": the activation assigns `state.coreClient`
  before it connects and a failed attempt does not clear it, and a reconnection may publish a client
  whose process has died; Run then does not reconnect, which the comment at `extension.ts:593-597`
  says it does.
* `orphaned`: an exit while running leaves the last values on the screen and the timer set, against
  the aim of the comment at `coreLifecycle.ts:729-730`; the next Run finds the timer, does not reset
  `lastTelemetryFrameGeneration`, and may ignore frames until the new Core's counter passes the old.
* CoreSync, `tainted`: a deletion that is refused while running is final on the screen; a rebuild
  while paused does not stop the Core, which refuses its requests; edits that cross a rebuild, a paste or a snapshot are
  applied to what it saw; a snapshot that changes wires and properties pushes only the wires, although
  the comment at `extension.ts:1457-1458` says it covers both; the two queues reorder; a lost answer
  to the stop ends the rebuild; a property that decides the pins and is refused has already cost the
  document its wire, while the Core keeps it. `leaked`: the instances such a history forgets.
* DocumentSync, `crossed`: a snapshot that crosses a patch leaves two contents under one revision
  (`main.ts:13537`); `syncState` does not update `lastSyncedProjectState`. `tangled`: two presses of
  "Voltar" during the wait jump two levels on the screen but pop one history (`main.ts:2708-2712`); a
  snapshot that crosses an opening or closing replaces the host's document by another level's; a
  refused connection meanwhile is recorded as an edit.
* WireTopology, `drifted`: the finding above, and `requestRemoveWire` of a redundant wire disconnects
  a pair the star still needs. Without `Forest`, removals next to a loop between two nodes may
  leave a conductor from a node to itself, which is reported but kept, and then every connection is
  refused until the next removal. Without `OneClass`, the bound of the clean-up shrinks with the
  nodes, so a chain of three class transitions is not settled ("Idempotente", `wireTopology.ts:518`).

## 4. Proofs

All theorems hold for every value of the constants allowed by the named assumptions.

**NotificationQueueProofs**
* `MemoryBound`: `Spec => [](TypeOK /\ BytesAccounted)`. Invariant `MemoryInv`: ids of queued
  messages are distinct and older than `nextId`, so that a lane's size, defined as the number of
  bytes its messages are made of, is additive, and each push, eviction and pop changes it by exactly
  one message.
* `WakeupsAreNotLost`: `Spec => []NoLostWakeup`, assuming that every frame fits in the budget
  (the first item under "Disagreements" is the counterexample otherwise). `WakeInv` adds that a blocked message fits in an empty
  queue: then a blocked producer proves that something is queued, so the consumer is awake, and the
  next pop notifies everybody.

* `ControlIsFifo`, `TelemetryIsFresh`, `DropsAreAccounted`: the other three invariants of the run, with
  no assumption on the frames. They are inductive over `MemoryInv`: what was delivered, what the
  consumer has in hand and the control lane are together what was accepted; a frame with the key of a
  new one leaves the lane before any refusal; each eviction moves one frame and its bytes from the
  lane to the counters, and by the distinct ids from no other place.

**SchedulerProofs**
* `QueueAndMutex`: `Spec => []TypeOK /\ []SnapshotsExact`. `TypeInv` holds the types, the mutex
  (`holder = t` exactly where `t` is inside the locked part of `runUntil`), and `QueueInv`: queued
  events have sequence numbers below the next one (a pushed event is new), the queue is finite, and `hardTimes` counts the hard events of each instant;
  cardinalities then move by one with each push and pop, and the minimum of the multiset's support is
  the first hard event.
* `EventsAreNotSkipped`: `Spec => []NoEventSkipped` for fixed steps with any number of threads in
  `runUntil`, or adaptive steps with one (`OneRunner`). `ClockInv` adds that no event is due before
  its own time and that an open step began no later than the clock, so a rejection cannot move the
  clock forward. `NextTimeBounds` is the arithmetic: a step ends no later than the first event ahead.
* `OnlyCommittedTimeIsPublished`, `RejectionsUndoNoEvent`, `CommitsLeaveNoGap`: the same three
  properties that run `scheduler` checks, for one thread. `StepInv`: inside a step the clock is at
  its end and it began at the committed instant; outside, the clock is the committed instant; a step
  of some duration that does not end on an event has processed none. Without `OneRunner` they are
  false with adaptive steps: the second item under "Disagreements".

**SchedulerWorkerProofs**
* `ClockStaysBehindGuest`: `Spec => []NeverAheadOfGuest` for any step and horizon. The property
  alone is not inductive: `Lockstep` adds that from the place where the advance limit caps the target
  to the end of `runUntil`, what is left to go is at most what the guest allows. The guest's limit
  only rises, and commands applied in between cannot raise the target.
* `WorkerWakeupsAreNotLost`: `Spec => []NoLostWakeup`. The two waits are protected in different ways,
  and `WakeInv` follows the worker through them: in the atomic wait (`Parked`) whoever brings work
  has moved the generation or is about to; in the wait on `m_pacingWake` work that came after the
  inspection makes the predicate true (`Announced`), and once the predicate was false its bringer
  still has the notification before it and sees that the wait was announced (`Covered`). `Reports`
  says that the guest's report of its limit starts with no signal under way.

**ThreadPoolProofs**
* `PoolImplementsParallelFor`: `Spec => RefinesParallelFor`, a refinement with the mapping of
  ThreadPool: initial states map to initial states and each step to a step of ParallelFor or a
  stutter. `PoolInv`: `Exclusion` (the mutex and the published task belong to the caller whose
  program counter says so), `Prepared`, `Counted` (`m_workersPending` is the cardinality of `Owing`,
  the workers woken or working: a caller that reads zero may return, as nobody is inside its
  function) and `Claimed` (those who run hold different indices, all handed out). Cardinalities move
  by one with each report.

**PluginWatchdogProofs**
* `OutcomesAreOwn`: `Spec => []OutcomeIsOwn` for both proxies. `OutcomeInv` names what the hand-over
  rests on: one host is inside at a time (`Exclusive`), a thread executes what was posted to it last
  (`Faithful`), a thread with the present call is the current one and its host waits (`NoStranger`),
  and what the host knows is what happened (`Known`).
* `DeviceIsNeverReentered`: `Spec => []NeverReentered` for `Proxy = "device"`. The property is about
  devices: an adapter replaces its thread after a time limit and may be entered again. `OneThread`
  says that a device that gave its thread up is faulted or being destroyed, so it starts no second
  one, and the thread it has runs one call at a time.

**DocumentSyncProofs**
* `UndoHistoryIsLinear`: `Spec => []HistoryIsLinear`. `HistoryInv` types the documents, the histories
  and both channels, and says of every saved outer history what the property says of the shown one,
  because a level that closes brings it back.
* `CopiesAgree`: `Spec => []ReplicasAgree`. The two copies differ almost always, so `Agreement`
  speaks of what is on its way: `WillBe(s, q, c, x)` says that cell `c` (components, wires, revision,
  level, table) of copy `s` is `x` once the messages `q` are applied. Either the host leads
  (`Following`: no snapshot is queued, the webview will be what was published last, and if the host's
  document is another a patch is still owed), or the webview does (`Leading(k)`: the messages up to
  the k-th are snapshots, the last of them is the screen, only revisions come the other way, and the
  revision is right or a snapshot that changes the content will bring a new one). `crossed` is set
  exactly where both would lead; a snapshot after that restores `Leading` when it is undisturbed.
* `LevelsStayApart`: `Spec => []LevelsApart`. The host may be several levels ahead of the webview, and
  the webview's saved histories follow the circuit shown, not the depth (a definition opened from
  itself saves nothing, a new panel starts with none). `LevelsInv` therefore speaks of paths, the
  circuits from the project down to a level. `Standing`: the documents of the host are of one circuit
  each and its sessions form one path, every place with a reference of its own. `Journey`: there is
  one path per message on its way, from the webview's to the one the host published last; each
  message `Carries` a copy from one to the next, which is the same or one level away, and a patch that
  changes the level holds components, topology and level together. `Fits`: the saved histories lie at
  the positions of the path where the circuit changes, without a gap from the first one on, so the
  one that comes back is of the circuit that is entered. TLC checked `LevelsInv` on the instance of
  the run and with one gesture more.

**SimulationControlProofs**
* `BackPressure`: `Spec => []OneFrameInTransit` for any number of processes, gestures and faults.
  The flag `telemetryPollInFlight` is set in one place and reset in the `finally` of the request, but
  a request ends in five ways (answer, refusal, time limit, socket closed, exit) and its continuation
  may belong to an older generation or process. The invariant `Tells` says that the flag is true
  exactly while a frame is awaited and that there is one such frame; `Types` gives the requests their
  shape. Lemmas say what appending, removing and forgetting a request does to the set of awaited
  frames (`AppendFrame`, `RemoveFrame`, `Forget`, ...), and `ContinueTells` that no continuation
  touches it.
* `StatusFollowsCore`: `Spec => []StatusAgrees`, and `StoppedScreenStaysBlank`:
  `Spec => []StoppedScreenIsBlank`. Both properties say something only when nothing is under way or
  no exception has happened, so the invariant has to say what holds meanwhile:
  `Sane == IInv /\ Silence /\ (Orderly => Control) /\ (Orderly /\ ~loose /\ ~orphaned => Screen)`.
  `Silence` (a scheduler that paused itself silently was running) is what narrows the difference that
  `StatusAgrees` allows: the proof gives "running" for the status in exactly those states.
  `Agree` is the heart of `Control`: while the client's process lives, the status is what it does, or
  the thing that will make it so is named (a condition on its way, an answered pause or run, a
  preparation that waits for its run, a job that stops or resumes the Core). The other parts are what
  each of these excuses rests on: only the client's process can run (`Processes`); a condition comes
  from it, and no job waits meanwhile (`Notes`); one job is in progress, one rebuild at most is behind
  it, and its phase fits `stopPending` and the status (`Queue`); a preparation finds a stopped
  simulation (`Preparing`); there is one run, one pause, one request of the queue (`Unique`); and for
  each kind of request what its answer will find (`CallOK`, `StartOK`, `JobOK`, `PauseOK`, `FrameOK`:
  a run whose revision is still the present one has seen no other status, frames of the present
  generation belong to the timer that runs). `Screen` says that values, a timer or awaited readouts
  exclude a stopped or stopping simulation. TLC checked `Sane` with up to three processes, four
  gestures and three faults before it was proved. That step refuted an earlier version of the model's
  ghost `overlapped`, which did not count the late exit of an older process.

**CoreSyncProofs**
* `NothingIsOrphaned`: `Spec => []NoOrphans` for every finite set of components, every set of values
  and every number of edits, presses and lost answers. `NoOrphans` speaks of empty queues; `Sound`
  says where an instance is while they are not. `Owned`: a living instance is in the map, once, or
  one queued removal is for it; during the removals of a rebuild, the living instances are exactly
  those it still has to remove. `Ordered` is what an add and a rebuild need for that to survive: what
  is to be added has no instance yet, and behind a rebuild nothing is removed or pasted and nothing is
  added that the rebuild will add itself. Both hold as long as `leaked` does not. The rest holds in
  every history: `OneAtATime` (only the first job has begun), `Awaits` (one job at most ends the wait
  of the snapshots, one rebuild at most waits its turn), `Births` (a component is born once, and one
  add or paste at most is for it). The lemmas about sequences say what `SetToSeq`, `Tail`, `Append` and
  a replaced head do to the set of queued removals.

* `CommittedValuesWin`: `Spec => []CommitWins`, and `NoComponentIsMissing`: once the queues are empty
  and the history is not tainted, every component of the document has an instance that lives (the
  first part of `CoreMirrorsDocument`). Both follow from `Faithful`. A job is read as what it will do
  to a component: it supplies an instance, gives a value, or spoils one (`Supplies`, `Gives`,
  `Spoils`; a rebuild that has not read the document yet gives every component its value, one that is
  adding gives what it still has on its list). `Holds(c)`: the instance has the value of the document,
  or was asked for it last and refused it (`Based`), and nothing queued spoils that, or some job gives
  it that value and no later one spoils it. The theorem holds for any flags of the properties and all sets of
  refused values: a refusal leaves the old value and is remembered, it never brings another value. In a
  history that is not tainted every component holds its value while no snapshot is due; when one is
  due (`Due`), those it did not change do, and what it changed is what its jobs will give. `Coming`
  is about an added component that is not in the document before the Core has answered. `Repairs`
  is why a taint may be lifted: behind an undisturbed rebuild, alone in the queue, every component
  holds its value whatever happened before. `Regular` holds in every history: entries of the map are
  living instances of their own (`Apart`), no removal is for one of them (`Removals`), a value on its
  way is for the instance of its component or for none (`Aimed`), and a component's values are queued
  behind its paste (`Sequenced`). The argument needs no induction over the queue: each step changes
  the head or adds at the end, and `KeptHolds` says what that does to `Holds`. TLC checked `Faithful`
  on some 900,000 states with plain properties before it was proved.

Only model-checked: all liveness (under fairness, out of the prover's reach), everything about
WireTopology, the rest of `CoreMirrorsDocument` of CoreSync, and `ConnectsWhatWasShown` of
DocumentSync. WireTopology's operators are folds over sequences (the
traversal, the clean-up): what they compute for every document needs induction over data.
`CoreMirrorsDocument` would need, on top of `Faithful`, how many copies of the wire the queued
transactions, pastes and rebuilds leave in the bag of the Core.
`ConnectsWhatWasShown` would need that a revision names one content over the whole history of the
channels.

## 5. What is not modelled

The numerical parts (MNA, signal engine, component stamps) are out of TLC's reach. Protocol encoders
(HART and others), the PLC compiler, file formats, devices built on the plugin interface, tools and
examples are sequential or external. `PROJECT.json` lists every part with its reason.

Of the extension's 100,000 lines most are drawing, catalogues of symbols and blocks, forms, library
tables, text translation and file conversion: they keep no state beyond one event, and their
correctness is about their wording and layout. What is modelled is the part with state that several
events share, some 2,800 lines (3%). Left out of that part: definitions in external files
(`.lssubcircuit`) and the dialogs that save them, HART configuration during a rebuild, overrides of
children of subcircuits, tunnels and buses, serial terminals, plots and recorded series.

## 6. Plan

Done: NotificationQueue, Scheduler, SchedulerWorker, ThreadPool and PluginWatchdog of the Core;
SimulationControl, CoreSync, DocumentSync and WireTopology of the extension; eight proof modules.

Next, each with an MC module and a run:
1. **VnextBPoll** (`mcu/McuComponent.cpp` poll and dispatch, `VnextBArbiter.hpp`): lanes, peek,
   acknowledge, rearm with generations. Properties: events leave in order of (time, lane), a head in
   the future keeps its callback, no published event is left without one. Composes with Scheduler
   through `scheduleAt`.
2. **SignalRecorder**, **SharedHostCapacity** and the netlist's union-find as small modules.
3. External definitions in DocumentSync: the file, its watcher and the save dialog.

Theorems: the number of wires in `CoreMirrorsDocument` of CoreSync; in SimulationControl, the safety
part of `ControlsReturn`; in DocumentSync, `ConnectsWhatWasShown`.
