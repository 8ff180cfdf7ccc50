------------------------------ MODULE Scheduler ------------------------------
(***************************************************************************)
(* Virtual time in the Core: Scheduler::runUntil with its event queue, its  *)
(* settle loop and its accepted or rejected time steps                      *)
(* (core/src/simulation/Scheduler.cpp), together with the commit decision   *)
(* of SimulationSession's time-step callbacks.                              *)
(*                                                                         *)
(* `holder' is m_mutex.  A thread inside runUntil holds it except while an  *)
(* event callback runs ("callback") and between two settle iterations       *)
(* ("yield"); there the other threads schedule events.  markDirty and pause *)
(* never wait for the mutex, so they may act in every state.  Draining the  *)
(* command queue at the settle points only marks components dirty here      *)
(* (SchedulerWorker models the queue itself).                               *)
(***************************************************************************)
EXTENDS Integers, FiniteSets

CONSTANTS
    Threads,        \* threads that call runUntil
    Steppers,       \* those of them that only call step(0), from IPC handlers
    Components,     \* component indices
    Reactive,       \* components integrated in time (beginTransientStep)
    NoComponent,    \* kNoComponent: the event is a callback
    Free,           \* m_mutex is not held
    MaxTime,        \* bound: the last instant that is a target or an event
    MaxEvents,      \* bound: number of events scheduled between two resets
    MaxStep,        \* m_maximumTimeStepNs
    MinStep,        \* m_minimumTimeStepNs
    InitialStep,    \* m_currentTimeStepNs as configured
    Adaptive,       \* m_adaptiveTimeStep
    MaxIter         \* m_maxNonLinearIterations, 0 for no limit

ASSUME ThreadsAssumption == Free \notin Threads /\ Steppers \subseteq Threads
ASSUME ComponentsAssumption ==
    Reactive \subseteq Components /\ NoComponent \notin Components
ASSUME BoundsAssumption ==
    MaxTime \in Nat /\ MaxEvents \in Nat /\ MaxIter \in Nat
ASSUME StepAssumption ==
    /\ MaxStep \in Nat /\ MinStep \in Nat \ {0} /\ InitialStep \in Nat
    /\ Adaptive \in BOOLEAN
    /\ Adaptive => MinStep <= InitialStep /\ InitialStep <= MaxStep

VARIABLES
    now,            \* m_nowNs
    events,         \* m_events
    nextSequence,   \* m_nextSequence
    hardTimes,      \* m_hardEventTimes: hardTimes[t] events that are not soft at t
    nextEvent,      \* m_nextEventSnapshotNs
    nextHard,       \* m_nextHardEventSnapshotNs
    dirty,          \* m_dirty
    pendingDirty,   \* m_pendingDirty
    currentStep,    \* m_currentTimeStepNs
    converged,      \* m_lastSettleConverged
    paused,         \* m_paused
    stopRequested,  \* m_stopRequested
    holder,         \* who holds m_mutex
    pc,             \* pc[t]: where t is in runUntil, "out" if it is not in it
    target,         \* target[t]: targetTimeNs
    prev,           \* prev[t]: previousTime
    next,           \* next[t]: nextTime
    boundary,       \* boundary[t]: eventBoundary
    iter,           \* iter[t]: iterations of the current settle
    after,          \* after[t]: where t goes on once the circuit is settled
    \* Ghost state: it is never read by an action.
    committed,      \* the instant up to which time steps were committed
    fired           \* events were processed in the step being tried

queueVars == <<events, nextSequence, hardTimes, nextEvent, nextHard>>
dirtyVars == <<dirty, pendingDirty>>
flagVars == <<paused, stopRequested>>
stepVars == <<target, prev, next, boundary>>
settleVars == <<iter, after>>
ghostVars == <<committed, fired>>
vars == <<now, queueVars, dirtyVars, currentStep, converged, flagVars,
          holder, pc, stepVars, settleVars, ghostVars>>

Times == 0..MaxTime
Never == MaxTime + 1        \* UINT64_MAX in the snapshots

Event == [time : Times, sequence : Nat, component : Components \cup {NoComponent},
          soft : BOOLEAN, due : Times]  \* due is a ghost field

Init ==
    /\ now = 0
    /\ events = {}
    /\ nextSequence = 0
    /\ hardTimes = [t \in Times |-> 0]
    /\ nextEvent = Never
    /\ nextHard = Never
    /\ dirty = {}
    /\ pendingDirty = {}
    /\ currentStep = InitialStep
    /\ converged = TRUE
    /\ paused = FALSE
    /\ stopRequested = FALSE
    /\ holder = Free
    /\ pc = [t \in Threads |-> "out"]
    /\ target = [t \in Threads |-> 0]
    /\ prev = [t \in Threads |-> 0]
    /\ next = [t \in Threads |-> 0]
    /\ boundary = [t \in Threads |-> FALSE]
    /\ iter = [t \in Threads |-> 0]
    /\ after = [t \in Threads |-> "loop"]
    /\ committed = 0
    /\ fired = FALSE

-----------------------------------------------------------------------------
MinOf(a, b) == IF a <= b THEN a ELSE b
MaxOf(a, b) == IF a >= b THEN a ELSE b
Clamp(x, lo, hi) == MinOf(MaxOf(x, lo), hi)

Earliest(S) == CHOOSE t \in S : \A u \in S : t <= u
FirstOf(S) == IF S = {} THEN Never ELSE Earliest(S)

\* ScheduledEventOrder: by time, then by order of scheduling.
Before(a, b) ==
    a.time < b.time \/ (a.time = b.time /\ a.sequence < b.sequence)

IsTop(e, E) == e \in E /\ \A o \in E \ {e} : Before(e, o)

\* The time of m_events.top(), Never for an empty queue.
TopTime(E) == FirstOf({e.time : e \in E})

FirstHard(h) == FirstOf({t \in Times : h[t] > 0})

Interrupted == stopRequested \/ paused

\* pushEventLocked: enter the event and publish both snapshots.
PushEvent(t, c, soft) ==
    LET e == [time |-> t, sequence |-> nextSequence, component |-> c,
              soft |-> soft, due |-> MaxOf(t, now)]
    IN  /\ events' = events \cup {e}
        /\ nextSequence' = nextSequence + 1
        /\ hardTimes' = IF soft THEN hardTimes
                        ELSE [hardTimes EXCEPT ![t] = @ + 1]
        /\ nextEvent' = TopTime(events')
        /\ nextHard' = FirstHard(hardTimes')

\* scheduleAt and scheduleEvent, from any thread: they wait for m_mutex.
ScheduleAt(t, c, soft) ==
    /\ holder = Free
    /\ nextSequence < MaxEvents
    /\ PushEvent(t, c, soft)
    /\ UNCHANGED <<now, dirtyVars, currentStep, converged, flagVars, holder,
                   pc, stepVars, settleVars, ghostVars>>

\* markDirty: straight into m_dirty, or into m_pendingDirty if the mutex is taken.
MarkDirty(c) ==
    /\ IF holder = Free
       THEN dirty' = dirty \cup {c} /\ UNCHANGED pendingDirty
       ELSE pendingDirty' = pendingDirty \cup {c} /\ UNCHANGED dirty
    /\ UNCHANGED <<now, queueVars, currentStep, converged, flagVars, holder,
                   pc, stepVars, settleVars, ghostVars>>

Pause ==
    /\ paused' = TRUE
    /\ UNCHANGED <<now, queueVars, dirtyVars, currentStep, converged,
                   stopRequested, holder, pc, stepVars, settleVars,
                   ghostVars>>

Resume ==
    /\ paused' = FALSE
    /\ UNCHANGED <<now, queueVars, dirtyVars, currentStep, converged,
                   stopRequested, holder, pc, stepVars, settleVars,
                   ghostVars>>

\* stop() raises the flag, and lowers it once nobody is inside runUntil.
RequestStop ==
    /\ stopRequested' = TRUE
    /\ UNCHANGED <<now, queueVars, dirtyVars, currentStep, converged, paused,
                   holder, pc, stepVars, settleVars,
                   ghostVars>>

StopReturns ==
    /\ stopRequested
    /\ \A t \in Threads : pc[t] = "out"
    /\ stopRequested' = FALSE
    /\ UNCHANGED <<now, queueVars, dirtyVars, currentStep, converged, paused,
                   holder, pc, stepVars, settleVars,
                   ghostVars>>

\* reset(), after its stop(): the queue, the dirty sets and the clock start again.
Reset ==
    /\ \A t \in Threads : pc[t] = "out"
    /\ now' = 0
    /\ events' = {}
    /\ nextSequence' = 0
    /\ hardTimes' = [t \in Times |-> 0]
    /\ nextEvent' = Never
    /\ nextHard' = Never
    /\ dirty' = {}
    /\ pendingDirty' = {}
    /\ paused' = FALSE
    /\ stopRequested' = FALSE
    /\ committed' = 0
    /\ UNCHANGED <<currentStep, converged, holder, pc, stepVars, settleVars,
                   fired>>

-----------------------------------------------------------------------------
\* The settle loop.  Every operator below acts for the thread t that holds m_mutex.

\* mergePendingDirtyLocked, then on into the loop; the thread comes out at pc `to'.
EnterSettle(t, to, moreDirty) ==
    /\ dirty' = dirty \cup pendingDirty \cup moreDirty
    /\ pendingDirty' = {}
    /\ iter' = [iter EXCEPT ![t] = 0]
    /\ after' = [after EXCEPT ![t] = to]
    /\ pc' = [pc EXCEPT ![t] = "settle"]

\* The end of the loop: what was marked meanwhile still counts.
LeaveSettle(t, d) ==
    /\ dirty' = d \cup pendingDirty
    /\ pendingDirty' = {}
    /\ converged' = (dirty' = {})
    /\ pc' = [pc EXCEPT ![t] = after[t]]

SettleEnds(t) ==
    \/ dirty = {}
    \/ MaxIter > 0 /\ iter[t] >= MaxIter
    \/ Interrupted

\* The loop condition: go on with an iteration or leave.  The counter is read
\* only against 0 and MaxIter, so it need not count further.
Settle(t) ==
    /\ pc[t] = "settle"
    /\ \/ /\ SettleEnds(t)
          /\ LeaveSettle(t, dirty)
          /\ UNCHANGED iter
       \/ /\ ~SettleEnds(t)
          /\ iter' = [iter EXCEPT ![t] = MinOf(@ + 1, MaxOf(MaxIter, 1))]
          /\ pc' = [pc EXCEPT ![t] = "solve"]
          /\ UNCHANGED <<dirtyVars, converged>>
    /\ UNCHANGED <<now, queueVars, currentStep, flagVars, holder, stepVars,
                   after, ghostVars>>

\* One m_settleStep(): the circuit is stamped and solved, which leaves some
\* components dirty again and may schedule an event (scheduleEventUnlocked).
\* Unless that was the last iteration the mutex is given up for a moment.
Solve(t, again, more) ==
    /\ pc[t] = "solve"
    /\ more # {} => again
    /\ \/ UNCHANGED queueVars
       \/ /\ nextSequence < MaxEvents
          /\ \E e \in now..MaxTime : PushEvent(e, NoComponent, FALSE)
    /\ \/ /\ ~again /\ pendingDirty = {}
          /\ LeaveSettle(t, {})
          /\ UNCHANGED holder
       \/ /\ again \/ pendingDirty # {}
          /\ dirty' = more \cup pendingDirty
          /\ pendingDirty' = {}
          /\ holder' = Free
          /\ pc' = [pc EXCEPT ![t] = "yield"]
          /\ UNCHANGED converged
    /\ UNCHANGED <<now, currentStep, flagVars, stepVars, settleVars, ghostVars>>

Relock(t) ==
    /\ pc[t] = "yield"
    /\ holder = Free
    /\ holder' = t
    /\ dirty' = dirty \cup pendingDirty
    /\ pendingDirty' = {}
    /\ pc' = [pc EXCEPT ![t] = "settle"]
    /\ UNCHANGED <<now, queueVars, currentStep, converged, flagVars, stepVars,
                   settleVars, ghostVars>>

-----------------------------------------------------------------------------
CallRunUntil(t, to) ==
    /\ pc[t] = "out"
    /\ pc' = [pc EXCEPT ![t] = "enter"]
    /\ target' = [target EXCEPT ![t] = to]
    /\ UNCHANGED <<now, queueVars, dirtyVars, currentStep, converged, flagVars,
                   holder, prev, next, boundary, settleVars, ghostVars>>

\* runUntil(to), from the worker or from a synchronous caller.
RunUntil(t, to) == t \notin Steppers /\ CallRunUntil(t, to)

\* step(0), which the handlers of setPauseCondition and settleMcuDebug call
\* whether or not the worker runs: the target is the clock as it is read under
\* the mutex, which is then taken again in runUntil.
StepZero(t) == t \in Steppers /\ holder = Free /\ CallRunUntil(t, now)

\* The initial settle.
Enter(t) ==
    /\ pc[t] = "enter"
    /\ holder = Free
    /\ holder' = t
    /\ EnterSettle(t, "initial", {})
    /\ UNCHANGED <<now, queueVars, currentStep, converged, flagVars, stepVars,
                   ghostVars>>

\* The condition under which the stable-step callback (onStableStepUnlocked) is
\* given the instant `now': the circuit has settled, and after the initial settle
\* there was work at all.
Publishes(t) ==
    \/ pc[t] = "initial" /\ iter[t] > 0 /\ converged
    \/ pc[t] = "stable" /\ converged

Stable(t) ==
    /\ pc[t] \in {"initial", "stable"}
    /\ pc' = [pc EXCEPT ![t] = "loop"]
    /\ UNCHANGED <<now, queueVars, dirtyVars, currentStep, converged, flagVars,
                   holder, stepVars, settleVars, ghostVars>>

SelectedStep ==
    IF Adaptive /\ currentStep > 0 THEN MinOf(MaxStep, currentStep) ELSE MaxStep

\* Mutant: the step is not cut at the next event.
MutNextTimeSkipsEvent(to) ==
    IF SelectedStep > 0 /\ to - now > SelectedStep THEN now + SelectedStep ELSE to

\* How far this step tries to go: the target, one step, or the next event; an
\* event of the past makes a step of no duration.
NextTime(to) ==
    LET far == IF SelectedStep > 0 /\ to - now > SelectedStep
               THEN now + SelectedStep ELSE to
    IN  IF TopTime(events) < far THEN MaxOf(TopTime(events), now) ELSE far

\* The end of runUntil: its locals are gone.
Return(t) ==
    /\ holder' = Free
    /\ pc' = [pc EXCEPT ![t] = "out"]
    /\ target' = [target EXCEPT ![t] = 0]
    /\ prev' = [prev EXCEPT ![t] = 0]
    /\ next' = [next EXCEPT ![t] = 0]
    /\ boundary' = [boundary EXCEPT ![t] = FALSE]
    /\ iter' = [iter EXCEPT ![t] = 0]
    /\ after' = [after EXCEPT ![t] = "loop"]
    /\ fired' = FALSE

\* Leave runUntil, or begin a time step (TimeStepBeginFn marks the reactive
\* components dirty).
Loop(t) ==
    /\ pc[t] = "loop"
    /\ \/ /\ now >= target[t] \/ Interrupted
          /\ Return(t)
          /\ UNCHANGED <<now, dirty>>
       \/ /\ now < target[t] /\ ~Interrupted
          /\ LET n == NextTime(target[t])
             IN  /\ now' = n
                 /\ prev' = [prev EXCEPT ![t] = now]
                 /\ next' = [next EXCEPT ![t] = n]
                 /\ boundary' = [boundary EXCEPT ![t] = TopTime(events) = n]
                 /\ dirty' = IF n > now THEN dirty \cup Reactive ELSE dirty
          /\ fired' = FALSE
          /\ pc' = [pc EXCEPT ![t] = "events"]
          /\ UNCHANGED <<holder, target, settleVars>>
    /\ UNCHANGED <<queueVars, pendingDirty, currentStep, converged, flagVars,
                   committed>>

\* Mutant: the multiset of hard events keeps the instant of a processed event.
MutPopKeepsHard(e) ==
    /\ events' = events \ {e}
    /\ nextEvent' = TopTime(events')
    /\ UNCHANGED <<hardTimes, nextHard, nextSequence>>

PopEvent(e) ==
    /\ events' = events \ {e}
    /\ nextEvent' = TopTime(events')
    /\ hardTimes' = IF e.soft THEN hardTimes
                    ELSE [hardTimes EXCEPT ![e.time] = @ - 1]
    /\ nextHard' = FirstHard(hardTimes')
    /\ UNCHANGED nextSequence

\* processNextEventUntilLocked: the earliest event that is due.  A callback runs
\* without the mutex.
FireEvent(t, e) ==
    /\ pc[t] = "events"
    /\ ~Interrupted
    /\ IsTop(e, events)
    /\ e.time <= next[t]
    /\ PopEvent(e)
    /\ now' = MaxOf(now, e.time)
    /\ fired' = TRUE
    /\ \/ /\ e.component # NoComponent
          /\ dirty' = dirty \cup {e.component}
          /\ UNCHANGED <<holder, pc>>
       \/ /\ e.component = NoComponent
          /\ holder' = Free
          /\ pc' = [pc EXCEPT ![t] = "callback"]
          /\ UNCHANGED dirty
    /\ UNCHANGED <<pendingDirty, currentStep, converged, flagVars, stepVars,
                   settleVars, committed>>

CallbackReturns(t) ==
    /\ pc[t] = "callback"
    /\ holder = Free
    /\ holder' = t
    /\ pc' = [pc EXCEPT ![t] = "events"]
    /\ UNCHANGED <<now, queueVars, dirtyVars, currentStep, converged, flagVars,
                   stepVars, settleVars, ghostVars>>

\* No event is due any more, or stop or pause cut the step short.
EventsDone(t) ==
    /\ pc[t] = "events"
    /\ Interrupted \/ TopTime(events) > next[t]
    /\ EnterSettle(t, "commit", {})
    /\ UNCHANGED <<now, queueVars, currentStep, converged, flagVars, holder,
                   stepVars, ghostVars>>

Attempted(t) == next[t] - prev[t]

\* Mutant: a step that ends on an event may be rejected too.
MutAcceptsNoBoundary(t, good) == Attempted(t) <= MinStep \/ ~Adaptive \/ good

\* The decision of the session's TimeStepCommitFn: only an adaptive step that
\* ends between events and is longer than the minimum can be rejected, for its
\* error estimate or because the circuit did not settle.
Accepts(t, good) ==
    boundary[t] \/ Attempted(t) <= MinStep \/ ~Adaptive \/ good

\* Mutants of Rejected: the step does not shrink; the scheduler keeps the clock
\* although the session rolled its components back.
MutRejectedSameStep(t) ==
    /\ now' = prev[t]
    /\ currentStep' = Attempted(t)
    /\ pc' = [pc EXCEPT ![t] = "loop"]
    /\ UNCHANGED <<dirtyVars, settleVars, committed>>
MutRejectedKeepsClock(t) ==
    /\ currentStep' = MinStep
    /\ pc' = [pc EXCEPT ![t] = "loop"]
    /\ UNCHANGED <<now, dirtyVars, settleVars, committed>>

\* A rejected step: the clock goes back and a shorter step is tried.
Rejected(t) ==
    /\ now' = prev[t]
    /\ \E s \in (2 * Attempted(t)) \div 10 .. (8 * Attempted(t)) \div 10 :
          currentStep' = MaxOf(MinStep, s)
    /\ pc' = [pc EXCEPT ![t] = "loop"]
    /\ UNCHANGED <<dirtyVars, settleVars, committed>>

\* An accepted step: reactive components commit, the FPGA advances to next[t]
\* (and may mark outputs dirty), the step may grow, the circuit settles again.
Accepted(t, outputs) ==
    /\ committed' = next[t]
    /\ \/ /\ Adaptive
          /\ \E s \in Attempted(t) \div 2 .. 2 * Attempted(t) :
                currentStep' = Clamp(s, MinStep, MaxStep)
       \/ ~Adaptive /\ UNCHANGED currentStep
    /\ EnterSettle(t, "stable", outputs)
    /\ UNCHANGED now

\* The end of a step; a step of no duration has nothing to commit.
Commit(t, good, outputs) ==
    /\ pc[t] = "commit"
    /\ ~converged /\ Adaptive => ~good
    /\ \/ /\ Attempted(t) <= 0
          /\ EnterSettle(t, "stable", {})
          /\ UNCHANGED <<now, currentStep, committed>>
       \/ /\ Attempted(t) > 0 /\ Accepts(t, good)
          /\ Accepted(t, outputs)
       \/ /\ Attempted(t) > 0 /\ ~Accepts(t, good)
          /\ Rejected(t)
    /\ UNCHANGED <<queueVars, converged, flagVars, holder, stepVars, fired>>

\* What a thread inside runUntil does next.
Step(t) ==
    \/ Enter(t)
    \/ Settle(t)
    \/ \E again \in BOOLEAN, more \in SUBSET Components : Solve(t, again, more)
    \/ Relock(t)
    \/ Stable(t)
    \/ Loop(t)
    \/ \E e \in events : FireEvent(t, e)
    \/ CallbackReturns(t)
    \/ EventsDone(t)
    \/ \E good \in BOOLEAN, outputs \in SUBSET Components :
          Commit(t, good, outputs)

Next ==
    \/ \E t \in Threads : Step(t)
    \/ \E t \in Threads, to \in Times : RunUntil(t, to)
    \/ \E t \in Threads : StepZero(t)
    \/ \E t \in Times, soft \in BOOLEAN : ScheduleAt(t, NoComponent, soft)
    \/ \E t \in Times, c \in Components : ScheduleAt(t, c, FALSE)
    \/ \E c \in Components : MarkDirty(c)
    \/ Pause
    \/ Resume
    \/ RequestStop
    \/ StopReturns
    \/ Reset

Spec == Init /\ [][Next]_vars

\* A thread inside runUntil keeps running, and gets m_mutex in the end if it is
\* free again and again; nothing is assumed of its callers, of the other threads
\* or of the circuit, which may never settle.
FairSpec == Spec /\ \A t \in Threads : SF_vars(Step(t))

-----------------------------------------------------------------------------
Pcs == {"out", "enter", "settle", "solve", "yield", "initial", "loop", "events",
        "callback", "commit", "stable"}

\* The type invariant, with the mutex: it is held by exactly the thread that is
\* inside runUntil and neither in a callback nor between two iterations.
TypeOK ==
    /\ now \in Times
    /\ events \subseteq Event
    /\ nextSequence \in Nat
    /\ hardTimes \in [Times -> Nat]
    /\ nextEvent \in 0..Never
    /\ nextHard \in 0..Never
    /\ dirty \subseteq Components
    /\ pendingDirty \subseteq Components
    /\ currentStep \in Nat
    /\ converged \in BOOLEAN
    /\ paused \in BOOLEAN
    /\ stopRequested \in BOOLEAN
    /\ holder \in Threads \cup {Free}
    /\ pc \in [Threads -> Pcs]
    /\ \A t \in Threads :
          holder = t <=> pc[t] \notin {"out", "enter", "yield", "callback"}
    /\ target \in [Threads -> Times]
    /\ prev \in [Threads -> Times]
    /\ next \in [Threads -> Times]
    /\ boundary \in [Threads -> BOOLEAN]
    /\ iter \in [Threads -> Nat]
    /\ after \in [Threads -> {"initial", "commit", "stable", "loop"}]
    /\ committed \in Times
    /\ fired \in BOOLEAN

\* m_hardEventTimes is kept by hand beside the queue, and the lock-free
\* snapshots beside both: over every push, pop and reset the multiset counts
\* exactly the queued events that are not soft, and the snapshots that the
\* pacing wait and the lockstep guests read are the true minima.
SnapshotsExact ==
    /\ \A t \in Times :
          hardTimes[t] = Cardinality({e \in events : e.time = t /\ ~e.soft})
    /\ nextEvent = FirstOf({e.time : e \in events})
    /\ nextHard = FirstOf({e.time : e \in {f \in events : ~f.soft}})

\* The clock never runs past a queued event, whatever the step size, the target,
\* rejected steps, and pauses in the middle of a batch: an event waits only
\* until its own instant, or until the instant at which it was scheduled late.
NoEventSkipped ==
    \A e \in events : now <= e.due

\* A step in which an event was processed is never undone ("o relogio nunca
\* volta"): if the clock goes back, no event fired since it left the instant it
\* goes back to, and that instant is the last one committed.
RollbackIsClean ==
    [][now' < now =>
          /\ now' = committed'
          /\ ~fired \/ events' = {}]_vars

\* What cannot be undone advances without gap or overlap: every committed step
\* (the FPGA's ADVANCE_TO, "o Core continua sendo a autoridade do tempo") begins
\* where the previous one ended, over rejections and interrupted steps.
CommitsAreContiguous ==
    [][committed' # committed =>
          \/ now' = 0 /\ events' = {}
          \/ /\ committed' > committed
             /\ \E t \in Threads : prev[t] = committed]_vars

\* Telemetry, signals and scans are executed for accepted instants only: the
\* stable step is published for the committed time, never for a time that a
\* rejected step would take back.
PublishedIsCommitted ==
    \A t \in Threads : Publishes(t) => now = committed

\* runUntil returns although every settle may fail to converge and every
\* adaptive step may be rejected (with an iteration limit configured), unless
\* somebody pauses and resumes it for ever.
RunUntilReturns ==
    \A t \in Threads : pc[t] # "out" ~> (pc[t] = "out" \/ paused)
=============================================================================
