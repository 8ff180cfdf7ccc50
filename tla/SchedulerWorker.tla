--------------------------- MODULE SchedulerWorker ---------------------------
(***************************************************************************)
(* The worker thread that Scheduler::start spawns, the ways it goes to sleep *)
(* and is woken, and the command queue that the IPC thread feeds             *)
(* (core/src/simulation/Scheduler.cpp, core/src/session/SimulationSession). *)
(*                                                                         *)
(* Three threads: the worker, the IPC thread (start, stop, pause, resume,   *)
(* commands, reads under m_mutex) and the poll thread of an emulated MCU,   *)
(* the guest (scheduleAt, markDirty, notifyAdvanceLimitChanged).  runUntil  *)
(* is coarse here; module Scheduler has its detail.                         *)
(*                                                                         *)
(* Time is relative to the clock, so that it needs no bound: `due' holds    *)
(* how far ahead the queued events lie (0: now or in the past), `lead' how  *)
(* far the guest's position lets the clock go.  Generations are relative    *)
(* too: cycleWork, observedWork and cycleAdvance say that the generation    *)
(* has changed since the worker captured it.  Atomics are sequentially      *)
(* consistent.                                                             *)
(***************************************************************************)
EXTENDS Integers, FiniteSets

CONSTANTS
    MaxStep,        \* m_maximumTimeStepNs, 0: advance from event to event
    Guest,          \* how the clock follows an MCU: "none", "slack", "exact"
    IterLimit,      \* m_maxNonLinearIterations is set
    Capacity,       \* capacity of the command queue
    SpawnMayFail,   \* std::thread's constructor may throw
    Horizon,        \* bound: how far ahead events and the guest may be
    Calls           \* bound: the calls the other threads make

ASSUME StepAssumption == MaxStep \in Nat /\ Horizon \in Nat \ {0}
ASSUME GuestAssumption == Guest \in {"none", "slack", "exact"}
ASSUME QueueAssumption == Capacity \in Nat \ {0}
ASSUME CallsAssumption ==
    Calls \subseteq {"pause", "read", "reset", "markDirty", "sync", "refresh",
                     "scheduleAt", "guest"}
ASSUME FlagsAssumption == IterLimit \in BOOLEAN /\ SpawnMayFail \in BOOLEAN

VARIABLES
    running,        \* m_running
    paused,         \* m_paused
    stopRequested,  \* m_stopRequested
    due,            \* distances of the events in m_events
    lead,           \* distance of the advance limit
    dirty,          \* m_dirty is not empty
    pendingDirty,   \* m_pendingDirty is not empty
    queue,          \* CommandQueue::m_commands
    batch,          \* commands taken and not yet applied
    holder,         \* who holds m_mutex: "none" or a thread
    cycleWork,      \* m_workGeneration # cycleWorkGen
    observedWork,   \* m_workGeneration # observedWork
    cycleAdvance,   \* m_advanceLimitGeneration # cycleAdvanceGen
    timedWait,      \* m_workerTimedWait
    pc,             \* where the worker is
    kind,           \* what it waits for
    toGo,           \* targetTimeNs - m_nowNs
    limited,        \* advanceLimited
    advanced,       \* nowNs() # cycleSimStartNs
    iterated,       \* the settle has reached its iteration limit
    op,             \* op[s]: what thread s is doing
    sig             \* sig[s]: how far s is in signalWorkAvailable

flagVars == <<running, paused, stopRequested>>
workVars == <<due, lead, dirty, pendingDirty>>
queueVars == <<queue, batch>>
genVars == <<cycleWork, observedWork, cycleAdvance>>
waitVars == <<timedWait, kind>>
cycleVars == <<toGo, limited, advanced, iterated>>
callVars == <<op, sig>>
vars == <<flagVars, workVars, queueVars, holder, genVars, waitVars, pc,
          cycleVars, callVars>>

Signallers == {"ipc", "poll"}
Commands == {"sync", "refresh"}

Init ==
    /\ running = FALSE /\ paused = FALSE /\ stopRequested = FALSE
    /\ due = {} /\ lead = 0 /\ dirty = FALSE /\ pendingDirty = FALSE
    /\ queue = {} /\ batch = {}
    /\ holder = "none"
    /\ cycleWork = FALSE /\ observedWork = FALSE /\ cycleAdvance = FALSE
    /\ timedWait = FALSE /\ kind = "idle"
    /\ pc = "none"
    /\ toGo = 0 /\ limited = FALSE /\ advanced = FALSE /\ iterated = FALSE
    /\ op = [s \in Signallers |-> "none"]
    /\ sig = [s \in Signallers |-> "idle"]

MinOf(a, b) == IF a <= b THEN a ELSE b
First(S) == CHOOSE x \in S : \A y \in S : x <= y

Interrupted == stopRequested \/ paused
PacingMutexFree == pc # "block"
Idle(s) == op[s] = "none" /\ sig[s] = "idle"

-----------------------------------------------------------------------------
\* signalWorkAvailable, in three steps.

\* The work generation moves on, which also ends an atomic wait on it.
BumpWork == cycleWork' = TRUE /\ observedWork' = TRUE

\* m_pacingWake.notify_all().
NotifyAll == pc' = IF pc = "asleep" THEN "pred" ELSE pc

Bump(s) ==
    /\ sig[s] = "bump"
    /\ BumpWork
    /\ sig' = [sig EXCEPT ![s] = "check"]
    /\ UNCHANGED <<flagVars, workVars, queueVars, holder, cycleAdvance,
                   waitVars, pc, cycleVars, op>>

Check(s) ==
    /\ sig[s] = "check"
    /\ sig' = [sig EXCEPT ![s] = IF timedWait THEN "notify" ELSE "idle"]
    /\ UNCHANGED <<flagVars, workVars, queueVars, holder, genVars, waitVars,
                   pc, cycleVars, op>>

\* Mutant: the notification does not pass through m_pacingMutex.
MutNotifyFree == TRUE

\* Passing through m_pacingMutex: not between the worker's predicate and its sleep.
CanNotify == PacingMutexFree

Notify(s) ==
    /\ sig[s] = "notify"
    /\ CanNotify
    /\ NotifyAll
    /\ sig' = [sig EXCEPT ![s] = "idle"]
    /\ UNCHANGED <<flagVars, workVars, queueVars, holder, genVars, waitVars,
                   cycleVars, op>>

\* What a call leaves to be done: the signal, then `next'.
Signal(s, next) ==
    /\ sig' = [sig EXCEPT ![s] = "bump"]
    /\ op' = [op EXCEPT ![s] = next]

-----------------------------------------------------------------------------
\* The poll thread.

\* The guest may ask for any instant; in lockstep never for one before its own
\* position.
ScheduleAt(d) ==
    /\ Idle("poll")
    /\ holder = "none"
    /\ Guest = "exact" => d >= lead
    /\ due' = due \cup {d}
    /\ Signal("poll", "none")
    /\ UNCHANGED <<flagVars, lead, dirty, pendingDirty, queueVars, holder,
                   genVars, waitVars, pc, cycleVars>>

\* markDirty: the insertion takes time while m_mutex is held.
MarkDirty ==
    /\ Idle("poll")
    /\ \/ /\ holder = "none"
          /\ holder' = "poll"
          /\ op' = [op EXCEPT !["poll"] = "insert"]
          /\ UNCHANGED <<pendingDirty, sig>>
       \/ /\ holder # "none"
          /\ pendingDirty' = TRUE
          /\ Signal("poll", "none")
          /\ UNCHANGED holder
    /\ UNCHANGED <<flagVars, due, lead, dirty, queueVars, genVars, waitVars,
                   pc, cycleVars>>

Inserted ==
    /\ op["poll"] = "insert"
    /\ dirty' = TRUE
    /\ holder' = "none"
    /\ Signal("poll", "none")
    /\ UNCHANGED <<flagVars, due, lead, pendingDirty, queueVars, genVars,
                   waitVars, pc, cycleVars>>

\* The guest gets on; then notifyAdvanceLimitChanged.
GuestAdvances(d) ==
    /\ Guest # "none"
    /\ Idle("poll")
    /\ d > lead
    /\ lead' = d
    /\ op' = [op EXCEPT !["poll"] = "limit"]
    /\ UNCHANGED <<flagVars, due, dirty, pendingDirty, queueVars, holder,
                   genVars, waitVars, pc, cycleVars, sig>>

NotifyAdvanceLimitChanged ==
    /\ op["poll"] = "limit"
    /\ cycleAdvance' = TRUE
    /\ op' = [op EXCEPT !["poll"] = "none"]
    /\ sig' = [sig EXCEPT !["poll"] = "notify"]
    /\ UNCHANGED <<flagVars, workVars, queueVars, holder, cycleWork,
                   observedWork, waitVars, pc, cycleVars>>

-----------------------------------------------------------------------------
\* The IPC thread.

Start ==
    /\ Idle("ipc")
    /\ ~running
    /\ running' = TRUE
    /\ stopRequested' = FALSE
    /\ \/ pc' = "top"
       \/ SpawnMayFail /\ pc' = "none"
    /\ UNCHANGED <<paused, workVars, queueVars, holder, genVars, waitVars,
                   cycleVars, callVars>>

Pause ==
    /\ Idle("ipc")
    /\ paused' = TRUE
    /\ Signal("ipc", "notifyAll")
    /\ UNCHANGED <<running, stopRequested, workVars, queueVars, holder, genVars,
                   waitVars, pc, cycleVars>>

Resume ==
    /\ Idle("ipc")
    /\ paused' = FALSE
    /\ Signal("ipc", "none")
    /\ UNCHANGED <<running, stopRequested, workVars, queueVars, holder, genVars,
                   waitVars, pc, cycleVars>>

\* The last notify_all of pause() and stop(), which does not take m_pacingMutex.
IpcNotifyAll ==
    /\ sig["ipc"] = "idle"
    /\ \/ /\ op["ipc"] = "notifyAll"
          /\ op' = [op EXCEPT !["ipc"] = "none"]
       \/ /\ op["ipc"] = "stopNotify"
          /\ op' = [op EXCEPT !["ipc"] = "join"]
    /\ NotifyAll
    /\ UNCHANGED <<flagVars, workVars, queueVars, holder, genVars, waitVars,
                   cycleVars, sig>>

Stop ==
    /\ Idle("ipc")
    /\ stopRequested' = TRUE
    /\ op' = [op EXCEPT !["ipc"] = "stop"]
    /\ UNCHANGED <<running, paused, workVars, queueVars, holder, genVars,
                   waitVars, pc, cycleVars, sig>>

\* Mutant: stop() lowers m_running without telling anybody.
MutStopRunningSilent ==
    /\ op["ipc"] = "stop"
    /\ holder = "none"
    /\ running' = FALSE
    /\ op' = [op EXCEPT !["ipc"] = "join"]
    /\ UNCHANGED <<paused, stopRequested, workVars, queueVars, holder, genVars,
                   waitVars, pc, cycleVars, sig>>

StopRunning ==
    /\ op["ipc"] = "stop"
    /\ holder = "none"
    /\ running' = FALSE
    /\ Signal("ipc", "stopNotify")
    /\ UNCHANGED <<paused, stopRequested, workVars, queueVars, holder, genVars,
                   waitVars, pc, cycleVars>>

\* join(), the last drain, and m_stopRequested is lowered.
StopJoins(d) ==
    /\ op["ipc"] = "join"
    /\ pc \in {"none", "ended"}
    /\ pc' = "none"
    /\ queue' = {}
    /\ d => "sync" \in queue
    /\ dirty' = (dirty \/ d)
    /\ stopRequested' = FALSE
    /\ op' = [op EXCEPT !["ipc"] = "none"]
    /\ UNCHANGED <<running, paused, due, lead, pendingDirty, batch, holder,
                   genVars, waitVars, cycleVars, sig>>

\* PushResult::First, the only one that wakes the worker.
WakesWorker == queue = {}

\* enqueueCommand, synchronous (runViaCommandQueue) or for a telemetry refresh,
\* of which one is queued at most.  A request that finds the queue full fails
\* and changes nothing.
Enqueue(c, d) ==
    /\ Idle("ipc")
    /\ c = "refresh" => c \notin queue \cup batch
    /\ \/ /\ ~running                                   \* applied here
          /\ dirty' = (dirty \/ (c = "sync" /\ d))
          /\ UNCHANGED <<queue, callVars>>
       \/ /\ running /\ Cardinality(queue) < Capacity
          /\ queue' = queue \cup {c}
          /\ op' = [op EXCEPT !["ipc"] = IF c = "sync" THEN "await" ELSE "none"]
          /\ sig' = [sig EXCEPT !["ipc"] = IF WakesWorker THEN "bump" ELSE "idle"]
          /\ UNCHANGED dirty
    /\ UNCHANGED <<flagVars, due, lead, pendingDirty, batch, holder, genVars,
                   waitVars, pc, cycleVars>>

\* future.get() returns.
Answered ==
    /\ op["ipc"] = "await" /\ sig["ipc"] = "idle"
    /\ "sync" \notin queue \cup batch
    /\ op' = [op EXCEPT !["ipc"] = "none"]
    /\ UNCHANGED <<flagVars, workVars, queueVars, holder, genVars, waitVars,
                   pc, cycleVars, sig>>

\* A read under m_mutex (synchronized, trySynchronized).
Read ==
    /\ Idle("ipc")
    /\ holder = "none"
    /\ holder' = "ipc"
    /\ op' = [op EXCEPT !["ipc"] = "read"]
    /\ UNCHANGED <<flagVars, workVars, queueVars, genVars, waitVars, pc,
                   cycleVars, sig>>

ReadDone ==
    /\ op["ipc"] = "read"
    /\ holder' = "none"
    /\ op' = [op EXCEPT !["ipc"] = "none"]
    /\ UNCHANGED <<flagVars, workVars, queueVars, genVars, waitVars, pc,
                   cycleVars, sig>>

\* reset() with the worker stopped.
Reset ==
    /\ Idle("ipc")
    /\ ~running
    /\ holder = "none"
    /\ due' = {} /\ dirty' = FALSE /\ pendingDirty' = FALSE
    /\ paused' = FALSE
    /\ UNCHANGED <<running, stopRequested, lead, queueVars, holder, genVars,
                   waitVars, pc, cycleVars, callVars>>

-----------------------------------------------------------------------------
\* The worker.  d says whether the commands it drains mark something dirty.

\* drainCommandQueue under m_mutex, with mergePendingDirtyLocked.
Drain(d) ==
    /\ queue' = {}
    /\ d => "sync" \in queue
    /\ dirty' = (dirty \/ pendingDirty \/ d)
    /\ pendingDirty' = FALSE

\* The top of the loop; the locals of a cycle start afresh.
Top ==
    /\ pc = "top"
    /\ pc' = IF ~running THEN "ended"
             ELSE IF paused THEN "pauseObserve" ELSE "capture"
    /\ limited' = FALSE
    /\ advanced' = FALSE
    /\ kind' = "idle"
    /\ UNCHANGED <<flagVars, workVars, queueVars, holder, genVars, timedWait,
                   toGo, iterated, callVars>>

PauseObserve ==
    /\ pc = "pauseObserve"
    /\ observedWork' = FALSE
    /\ pc' = "pauseInspect"
    /\ UNCHANGED <<flagVars, workVars, queueVars, holder, cycleWork,
                   cycleAdvance, waitVars, cycleVars, callVars>>

PauseInspect(d) ==
    /\ pc = "pauseInspect"
    /\ holder = "none"
    /\ queue' = {}
    /\ d => "sync" \in queue
    /\ dirty' = (dirty \/ d)
    /\ kind' = "paused"
    /\ pc' = IF running /\ paused THEN "parked" ELSE "top"
    /\ UNCHANGED <<flagVars, due, lead, pendingDirty, batch, holder, genVars,
                   timedWait, cycleVars, callVars>>

\* m_workGeneration.wait(observedWork) returns once the generation has changed.
Unpark ==
    /\ pc = "parked"
    /\ observedWork
    /\ pc' = "top"
    /\ UNCHANGED <<flagVars, workVars, queueVars, holder, genVars, waitVars,
                   cycleVars, callVars>>

\* The generations of this cycle are captured before anything is looked at.
Capture ==
    /\ pc = "capture"
    /\ cycleAdvance' = FALSE
    /\ cycleWork' = FALSE
    /\ pc' = "observe"
    /\ UNCHANGED <<flagVars, workVars, queueVars, holder, observedWork,
                   waitVars, cycleVars, callVars>>

Observe ==
    /\ pc = "observe"
    /\ observedWork' = FALSE
    /\ pc' = "inspect"
    /\ UNCHANGED <<flagVars, workVars, queueVars, holder, cycleWork,
                   cycleAdvance, waitVars, cycleVars, callVars>>

ExactWork == Guest = "exact" /\ lead > 0
NothingToDo == due = {} /\ ~dirty /\ ~pendingDirty /\ ~ExactWork

\* Without a configured step and with nothing to do: drain, then wait for work,
\* and in lockstep also for the guest.
GoIdle(d) ==
    /\ pc = "inspect"
    /\ holder = "none"
    /\ MaxStep = 0 /\ NothingToDo
    /\ Drain(d)
    /\ kind' = "idle"
    /\ pc' = IF d \/ ~running \/ paused THEN "top"
             ELSE IF Guest = "exact" THEN "announce" ELSE "parked"
    /\ UNCHANGED <<flagVars, due, lead, batch, holder, genVars, timedWait,
                   cycleVars, callVars>>

\* The target of the cycle, relative to the clock.
Target ==
    IF MaxStep > 0 THEN MaxStep
    ELSE IF due # {} THEN First(due) ELSE IF ExactWork THEN lead ELSE 0

Aim ==
    /\ pc = "inspect"
    /\ holder = "none"
    /\ MaxStep = 0 => ~NothingToDo
    /\ dirty' = (dirty \/ pendingDirty)
    /\ pendingDirty' = FALSE
    /\ toGo' = Target
    /\ pc' = "limits"
    /\ UNCHANGED <<flagVars, due, lead, queueVars, holder, genVars, waitVars,
                   limited, advanced, iterated, callVars>>

\* Mutant: the exact limit gets the slack of the other one.
MutCapped == IF lead + 1 < toGo THEN lead + 1 ELSE toGo

\* The advance limit, with its slack or exact.
Capped == IF Guest # "none" /\ lead < toGo THEN lead ELSE toGo

Limits ==
    /\ pc = "limits"
    /\ toGo' = Capped
    /\ limited' = (Guest # "none" /\ lead < toGo)
    /\ pc' = "enter"
    /\ UNCHANGED <<flagVars, workVars, queueVars, holder, genVars, waitVars,
                   advanced, iterated, callVars>>

-----------------------------------------------------------------------------
\* runUntil(targetTimeNs).

\* Taking m_mutex; the settle begins with a drain.
Enter(d) ==
    /\ pc = "enter"
    /\ holder = "none"
    /\ holder' = "worker"
    /\ Drain(d)
    /\ iterated' = FALSE
    /\ pc' = "settle"
    /\ UNCHANGED <<flagVars, due, lead, batch, genVars, waitVars, toGo, limited,
                   advanced, callVars>>

SettleEnds == ~dirty \/ Interrupted \/ (IterLimit /\ iterated)

\* Mutant: the settle loop does not drain the queue again.
MutSettleDrain(d) == ~d /\ UNCHANGED queue

\* m_commandDrain at each iteration.
SettleDrain(d) == queue' = {} /\ (d => "sync" \in queue)

\* One iteration: commands, then a solution that may leave components dirty, may
\* schedule an event and may pause the simulation (Probe::pauseOnChange).  The
\* mutex is given up if the loop goes on.
Settle(d, again, pauses, news) ==
    /\ pc = "settle"
    /\ ~SettleEnds
    /\ SettleDrain(d)
    /\ dirty' = (again \/ pendingDirty)
    /\ pendingDirty' = FALSE
    /\ due' = due \cup news
    /\ paused' = (paused \/ pauses)
    /\ IF pauses THEN BumpWork ELSE UNCHANGED <<cycleWork, observedWork>>
    /\ iterated' = TRUE
    /\ IF dirty' THEN holder' = "none" /\ pc' = "yield"
                 ELSE pc' = "loop" /\ UNCHANGED holder
    /\ UNCHANGED <<running, stopRequested, lead, batch, cycleAdvance, waitVars,
                   toGo, limited, advanced, callVars>>

SettleLeave ==
    /\ pc = "settle"
    /\ SettleEnds
    /\ dirty' = (dirty \/ pendingDirty)
    /\ pendingDirty' = FALSE
    /\ pc' = "loop"
    /\ UNCHANGED <<flagVars, due, lead, queueVars, holder, genVars, waitVars,
                   cycleVars, callVars>>

Relock ==
    /\ pc = "yield"
    /\ holder = "none"
    /\ holder' = "worker"
    /\ dirty' = (dirty \/ pendingDirty)
    /\ pendingDirty' = FALSE
    /\ pc' = "settle"
    /\ UNCHANGED <<flagVars, due, lead, queueVars, genVars, waitVars, cycleVars,
                   callVars>>

\* A time step to the target or to the next event, whose processing marks
\* components dirty (fire), then the next settle with its drain.
Advance(d, fire) ==
    /\ pc = "loop"
    /\ toGo > 0 /\ ~Interrupted
    /\ LET by == IF due = {} THEN toGo ELSE MinOf(toGo, First(due))
       IN  /\ due' = {t - by : t \in {u \in due : u > by}}
           /\ lead' = IF Guest = "none" THEN lead ELSE lead - by
           /\ toGo' = toGo - by
           /\ advanced' = (advanced \/ by > 0)
    /\ queue' = {}
    /\ d => "sync" \in queue
    /\ dirty' = (dirty \/ pendingDirty \/ fire \/ d)
    /\ pendingDirty' = FALSE
    /\ iterated' = FALSE
    /\ pc' = "settle"
    /\ UNCHANGED <<flagVars, batch, holder, genVars, waitVars, limited,
                   callVars>>

Return ==
    /\ pc = "loop"
    /\ toGo = 0 \/ Interrupted
    /\ holder' = "none"
    /\ pc' = "settled"
    /\ toGo' = 0
    /\ iterated' = FALSE
    /\ UNCHANGED <<flagVars, workVars, queueVars, genVars, waitVars, limited,
                   advanced, callVars>>

-----------------------------------------------------------------------------
\* After runUntil: the waits.

\* The limit left no room at all: drain once more, here without m_mutex.
LimitDrain ==
    /\ pc = "settled"
    /\ limited /\ ~advanced
    /\ batch' = queue
    /\ queue' = {}
    /\ kind' = "limit"
    /\ pc' = IF queue = {} THEN "announce" ELSE "applying"
    /\ UNCHANGED <<flagVars, workVars, holder, genVars, timedWait, cycleVars,
                   callVars>>

Apply(d) ==
    /\ pc = "applying"
    /\ d => "sync" \in batch
    /\ dirty' = (dirty \/ d)
    /\ batch' = {}
    /\ pc' = "announce"
    /\ UNCHANGED <<flagVars, due, lead, pendingDirty, queue, holder, genVars,
                   waitVars, cycleVars, callVars>>

\* Real-time pacing: wait if the clock is ahead of the wall; the first cycle
\* that advances calibrates instead and begins another cycle.
Pace(next) ==
    /\ pc = "settled"
    /\ ~(limited /\ ~advanced)
    /\ next \in {"announce", "top"} => advanced
    /\ kind' = "pace"
    /\ pc' = next
    /\ UNCHANGED <<flagVars, workVars, queueVars, holder, genVars, timedWait,
                   cycleVars, callVars>>

\* m_targetStepUs: a wait that is not announced.
LegacyDelay(next) ==
    /\ pc = "legacy"
    /\ kind' = "legacy"
    /\ pc' = next
    /\ UNCHANGED <<flagVars, workVars, queueVars, holder, genVars, timedWait,
                   cycleVars, callVars>>

Announce ==
    /\ pc = "announce"
    /\ timedWait' = TRUE
    /\ pc' = "pred"
    /\ UNCHANGED <<flagVars, workVars, queueVars, holder, genVars, kind,
                   cycleVars, callVars>>

\* The predicates of the waits on m_pacingWake.
WaitOver ==
    \/ ~running \/ paused
    \/ kind = "idle" /\ (observedWork \/ cycleAdvance)
    \/ kind = "limit" /\ (cycleAdvance \/ cycleWork)
    \/ kind = "pace" /\ cycleWork /\ 0 \in due

LeaveWait ==
    /\ timedWait' = FALSE
    /\ pc' = IF kind = "pace" THEN "legacy" ELSE "top"

\* Under m_pacingMutex: leave, or keep it until asleep.
Predicate ==
    /\ pc = "pred"
    /\ \/ WaitOver /\ LeaveWait
       \/ ~WaitOver /\ pc' = "block" /\ UNCHANGED timedWait
    /\ UNCHANGED <<flagVars, workVars, queueVars, holder, genVars, kind,
                   cycleVars, callVars>>

Block ==
    /\ pc = "block"
    /\ pc' = "asleep"
    /\ UNCHANGED <<flagVars, workVars, queueVars, holder, genVars, waitVars,
                   cycleVars, callVars>>

\* wait_for and wait_until: every wait but the idle one has a deadline.
Timeout ==
    /\ pc = "asleep"
    /\ kind # "idle"
    /\ LeaveWait
    /\ UNCHANGED <<flagVars, workVars, queueVars, holder, genVars, kind,
                   cycleVars, callVars>>

-----------------------------------------------------------------------------
NewEvents == IF "scheduleAt" \in Calls THEN 0..Horizon ELSE {}

WorkerStep ==
    \/ Top \/ PauseObserve \/ Unpark \/ Capture \/ Observe \/ Aim \/ Limits
    \/ SettleLeave \/ Relock \/ Return \/ LimitDrain \/ Announce \/ Predicate
    \/ Block \/ Timeout
    \/ \E d \in BOOLEAN :
          \/ PauseInspect(d) \/ GoIdle(d) \/ Enter(d) \/ Apply(d)
          \/ \E fire \in BOOLEAN : Advance(d, fire)
          \/ \E again \in BOOLEAN, pauses \in BOOLEAN,
                news \in {{}} \cup {{t} : t \in NewEvents} :
                Settle(d, again, pauses, news)
    \/ \E next \in {"announce", "top", "legacy"} : Pace(next)
    \/ \E next \in {"pred", "top"} : LegacyDelay(next)

\* What a signaller does once it has begun a call.
Continue(s) ==
    \/ Bump(s) \/ Check(s) \/ Notify(s)
    \/ s = "poll" /\ (Inserted \/ NotifyAdvanceLimitChanged)
    \/ s = "ipc" /\ (IpcNotifyAll \/ StopRunning \/ Answered \/ ReadDone)
    \/ s = "ipc" /\ \E d \in BOOLEAN : StopJoins(d)

Call ==
    \/ Start \/ Stop
    \/ "pause" \in Calls /\ (Pause \/ Resume)
    \/ "read" \in Calls /\ Read
    \/ "reset" \in Calls /\ Reset
    \/ "markDirty" \in Calls /\ MarkDirty
    \/ \E c \in Commands \cap Calls, d \in BOOLEAN : Enqueue(c, d)
    \/ \E t \in NewEvents : ScheduleAt(t)
    \/ "guest" \in Calls /\ \E t \in 1..Horizon : GuestAdvances(t)

Next == WorkerStep \/ (\E s \in Signallers : Continue(s)) \/ Call

Spec == Init /\ [][Next]_vars

\* A thread that is inside a call or a cycle gets on with it, and whoever waits
\* for a mutex that is free again and again gets it in the end.  A deadline
\* passes however often the wait is interrupted.  Nobody need make another call,
\* and the circuit may never settle.
FairSpec ==
    /\ Spec
    /\ SF_vars(WorkerStep)
    /\ SF_vars(Timeout)
    /\ \A s \in Signallers : SF_vars(Continue(s))

-----------------------------------------------------------------------------
\* What must end a wait that has no deadline.
HasToWake ==
    \/ ~running
    \/ kind = "paused" /\ (~paused \/ queue # {})
    \/ kind = "idle" /\ (paused \/ queue # {} \/ ~NothingToDo)

\* No wake-up is lost: if the worker sleeps without a deadline (idle, or paused)
\* although it has something to do, the generation it waits on has moved or
\* somebody is on the way to notify it ("nao existe a janela predicado falso ->
\* notify cedo demais -> espera eterna").
NoLostWakeup ==
    /\ pc = "parked" /\ HasToWake =>
          observedWork \/ \E s \in Signallers : sig[s] = "bump"
    /\ pc = "asleep" /\ kind = "idle" /\ HasToWake =>
          \E s \in Signallers : sig[s] # "idle" \/ op[s] = "limit"

\* In lockstep the clock never passes the position the guest has proved ("o Core
\* nunca passa do instante do guest"), so no write of the guest is in the past.
NeverAheadOfGuest == Guest = "exact" => lead >= 0

\* stop() returns, even if the circuit never settles.
StopReturns == op["ipc"] = "stop" ~> op["ipc"] = "none"

\* A request that edits the circuit is answered: running, idle, paused, held back
\* by the guest, or in a circuit that never settles.
CommandAnswered == op["ipc"] = "await" ~> op["ipc"] = "none"

\* An event for an instant that has been reached is processed, not left until
\* the clock moves ("e processado AGORA").  This does not hold under an advance
\* limit that leaves no room, whose target is the present instant.
LateEventIsProcessed == 0 \in due ~> (0 \notin due \/ ~running \/ paused)

\* m_dirty belongs to who holds m_mutex: the worker does not apply commands,
\* which insert into it directly, while markDirty inserts into it.  This does not
\* hold: the drain before the advance-limit wait does not take m_mutex.
DirtyUnraced == ~(pc = "applying" /\ "sync" \in batch /\ op["poll"] = "insert")
=============================================================================
