------------------------- MODULE SchedulerWorkerProofs -------------------------
(***************************************************************************)
(* Proofs about SchedulerWorker for any step, horizon, capacity and mix of  *)
(* calls.                                                                   *)
(***************************************************************************)
EXTENDS SchedulerWorker, FiniteSetTheorems, WellFoundedInduction, TLAPS

-----------------------------------------------------------------------------
(* Lockstep with the guest.                                                 *)

\* Between the place where the advance limit caps the target and the end of runUntil, what is
\* left to go never exceeds what the guest allows.
Lockstep ==
    /\ lead \in Nat /\ toGo \in Nat /\ due \subseteq Nat
    /\ Guest # "none" /\ pc \in {"enter", "settle", "yield", "loop"} => toGo <= lead

-----------------------------------------------------------------------------
(* Wake-ups.                                                                *)

SignalStates == {"idle", "bump", "check", "notify"}

\* The shape of the state that the waits look at.
WaitTypes ==
    /\ sig \in [Signallers -> SignalStates]
    /\ DOMAIN op = Signallers
    /\ running \in BOOLEAN /\ paused \in BOOLEAN
    /\ dirty \in BOOLEAN /\ pendingDirty \in BOOLEAN
    /\ observedWork \in BOOLEAN /\ cycleAdvance \in BOOLEAN /\ timedWait \in BOOLEAN

\* What a worker that waits without a deadline has to react to.
Work == ~running \/ paused \/ queue # {} \/ ~NothingToDo
PausedWork == ~running \/ ~paused \/ queue # {}

Bumping == sig["ipc"] = "bump" \/ sig["poll"] = "bump"
GuestReports == op["poll"] = "limit"
Signalling == sig["ipc"] # "idle" \/ sig["poll"] # "idle" \/ GuestReports

\* The report of the guest's position begins with no signal under way, and only the poll
\* thread makes it.
Reports == /\ GuestReports => sig["poll"] = "idle"
           /\ op["ipc"] # "limit"

\* The atomic wait: the change of the generation is to come or has come.
Parked ==
    pc = "parked" =>
        /\ kind = "paused" \/ (kind = "idle" /\ Guest # "exact")
        /\ (IF kind = "paused" THEN PausedWork ELSE Work) => observedWork \/ Bumping

\* The wait on m_pacingWake, from its announcement on: work that came after the inspection
\* makes the predicate true, or will.  (The wait after applying is the one with a deadline.)
Announced ==
    /\ pc = "applying" => kind = "limit"
    /\ pc \in {"announce", "pred", "block", "asleep"} /\ kind = "idle" =>
        (Work => ~running \/ paused \/ observedWork \/ cycleAdvance \/ Bumping \/ GuestReports)

\* Once the predicate was false under m_pacingMutex, whoever brings work still has its
\* notification before it, and sees that the wait was announced.
Covered ==
    /\ pc \in {"pred", "block", "asleep"} /\ kind = "idle" => timedWait
    /\ pc \in {"block", "asleep"} /\ kind = "idle" => (Work => Signalling)

WakeInv == WaitTypes /\ Reports /\ Parked /\ Announced /\ Covered

-----------------------------------------------------------------------------
(* The clock and the guest.                                                 *)

\* A set of natural numbers that is not empty has a least element, and First finds it.
LEMMA FirstIsLeast ==
    ASSUME NEW S, S \subseteq Nat, S # {}
    PROVE  First(S) \in S /\ First(S) \in Nat /\ \A u \in S : First(S) <= u
<1>1. PICK x \in S : \A y \in S : ~(<<y, x>> \in OpToRel(<, Nat))
  BY NatLessThanWellFounded, WFMin, Zenon
<1>2. \A y \in S : ~(y < x)
  BY <1>1 DEF OpToRel
<1>3. \E t \in S : \A u \in S : t <= u
  BY <1>2
<1>4. First(S) \in S /\ \A u \in S : First(S) <= u
  BY <1>3, Zenon DEF First
<1> QED
  BY <1>4

\* The clock starts at the position of the guest.
LEMMA LockstepInit == Init => Lockstep
BY DEF Init, Lockstep

\* The target of a cycle is not in the past.
LEMMA AimLockstep ==
    ASSUME Lockstep, Aim
    PROVE  Lockstep'
<1>1. Target \in Nat
  BY FirstIsLeast, StepAssumption DEF Lockstep, Target, ExactWork
<1> QED
  BY <1>1 DEF Lockstep, Aim

LEMMA AdvanceLockstep ==
    ASSUME Lockstep, NEW d \in BOOLEAN, NEW fire \in BOOLEAN, Advance(d, fire)
    PROVE  Lockstep'
<1> DEFINE by == IF due = {} THEN toGo ELSE MinOf(toGo, First(due))
<1>1. /\ pc = "loop" /\ toGo' = toGo - by
      /\ lead' = IF Guest = "none" THEN lead ELSE lead - by
      /\ due' = {t - by : t \in {u \in due : u > by}}
  BY DEF Advance
<1>2. by \in Nat /\ by <= toGo
  <2>1. toGo \in Nat /\ (due # {} => First(due) \in Nat)
    BY FirstIsLeast DEF Lockstep
  <2> QED
    BY <2>1 DEF MinOf
<1> HIDE DEF by
<1>3. lead \in Nat /\ toGo \in Nat /\ due \subseteq Nat /\ (Guest # "none" => toGo <= lead)
  BY <1>1 DEF Lockstep
<1>4. due' \subseteq Nat
  BY <1>1, <1>2, <1>3
<1>5. lead' \in Nat /\ toGo' \in Nat /\ (Guest # "none" => toGo' <= lead')
  BY <1>1, <1>2, <1>3
<1> QED
  BY <1>4, <1>5 DEF Lockstep

\* The clock never passes the position of the guest, however long the guest, the commands and
\* the solver take: every step of runUntil stays below the limit read before it, and that
\* limit only rises (Scheduler.cpp, the advance limit and the lockstep target).
THEOREM ClockStaysBehindGuest == Spec => []NeverAheadOfGuest
<1>1. Lockstep /\ [Next]_vars => Lockstep'
  <2> SUFFICES ASSUME Lockstep, [Next]_vars PROVE Lockstep'
    OBVIOUS
  <2> DEFINE Inside == {"enter", "settle", "yield", "loop"}
  <2>1. ASSUME UNCHANGED <<due, lead, toGo>>, pc' \in Inside => pc \in Inside
        PROVE  Lockstep'
    BY <2>1 DEF Lockstep
  <2>2. CASE Limits
    BY <2>2 DEF Lockstep, Limits, Capped, workVars
  <2>3. CASE Return
    BY <2>3 DEF Lockstep, Return, workVars
  <2>4. ASSUME NEW d \in BOOLEAN, NEW again \in BOOLEAN, NEW pauses \in BOOLEAN,
               NEW news \in {{}} \cup {{t} : t \in NewEvents}, Settle(d, again, pauses, news)
        PROVE  Lockstep'
    <3>1. news \subseteq Nat
      BY StepAssumption DEF NewEvents
    <3>2. /\ due' = due \cup news /\ UNCHANGED <<lead, toGo>>
          /\ pc \in Inside
      BY <2>4 DEF Settle
    <3> QED
      BY <3>1, <3>2 DEF Lockstep
  <2>5. CASE WorkerStep
    <3>1. CASE \/ Top \/ PauseObserve \/ Unpark \/ Capture \/ Observe \/ SettleLeave \/ Relock
               \/ LimitDrain \/ Announce \/ Predicate \/ Block \/ Timeout
      BY <2>1, <3>1 DEF Top, PauseObserve, Unpark, Capture, Observe, SettleLeave, Relock,
         LimitDrain, Announce, Predicate, Block, Timeout, LeaveWait, workVars, cycleVars
    <3>2. ASSUME NEW d \in BOOLEAN, PauseInspect(d) \/ GoIdle(d) \/ Apply(d) PROVE Lockstep'
      BY <2>1, <3>2 DEF PauseInspect, GoIdle, Apply, cycleVars
    <3>3. ASSUME NEW d \in BOOLEAN, Enter(d) PROVE Lockstep'
      BY <2>1, <3>3 DEF Enter
    <3>4. ASSUME NEW next \in {"announce", "top", "legacy"}, Pace(next) PROVE Lockstep'
      BY <2>1, <3>4 DEF Pace, workVars, cycleVars
    <3>5. ASSUME NEW next \in {"pred", "top"}, LegacyDelay(next) PROVE Lockstep'
      BY <2>1, <3>5 DEF LegacyDelay, workVars, cycleVars
    <3> QED
      BY <2>2, <2>3, <2>4, <2>5, <3>1, <3>2, <3>3, <3>4, <3>5, AimLockstep, AdvanceLockstep DEF
         WorkerStep
  <2>6. ASSUME NEW s \in Signallers, Continue(s) PROVE Lockstep'
    BY <2>1, <2>6 DEF Continue, Bump, Check, Notify, NotifyAll, Inserted,
       NotifyAdvanceLimitChanged, IpcNotifyAll, StopRunning, Answered, ReadDone, StopJoins,
       workVars, cycleVars
  <2>7. ASSUME NEW t \in NewEvents, ScheduleAt(t) PROVE Lockstep'
    <3>1. t \in Nat
      BY StepAssumption DEF NewEvents
    <3> QED
      BY <2>7, <3>1 DEF Lockstep, ScheduleAt, cycleVars
  <2>8. ASSUME NEW t \in 1..Horizon, GuestAdvances(t) PROVE Lockstep'
    BY <2>8 DEF Lockstep, GuestAdvances, cycleVars
  <2>9. CASE Reset
    BY <2>9 DEF Lockstep, Reset, cycleVars
  <2>10. CASE Start \/ Stop \/ Pause \/ Resume \/ Read \/ MarkDirty
    BY <2>1, <2>10 DEF Start, Stop, Pause, Resume, Read, MarkDirty, workVars, cycleVars
  <2>11. ASSUME NEW c \in Commands \cap Calls, NEW d \in BOOLEAN, Enqueue(c, d) PROVE Lockstep'
    BY <2>1, <2>11 DEF Enqueue, cycleVars
  <2>12. CASE UNCHANGED vars
    BY <2>1, <2>12 DEF vars, workVars, cycleVars
  <2> QED
    BY <2>5, <2>6, <2>7, <2>8, <2>9, <2>10, <2>11, <2>12 DEF Next, Call
<1>2. Lockstep => NeverAheadOfGuest
  BY DEF Lockstep, NeverAheadOfGuest
<1> QED
  BY <1>1, <1>2, LockstepInit, PTL DEF Spec

-----------------------------------------------------------------------------
(* Wake-ups: one lemma per kind of step.                                    *)

\* Nobody waits at first.
LEMMA WakeInit == Init => WakeInv
BY DEF Init, WakeInv, WaitTypes, Reports, Parked, Announced, Covered, Signallers, SignalStates

\* A worker that is busy cannot miss anything.
LEMMA Busy ==
    ASSUME WakeInv, WaitTypes', UNCHANGED <<op, sig>>,
           pc' \notin {"applying", "parked", "announce", "pred", "block", "asleep"}
    PROVE  WakeInv'
BY DEF WakeInv, Reports, GuestReports, Parked, Announced, Covered

\* Nor can one that sees nothing change.
LEMMA Quiet ==
    ASSUME WakeInv, WaitTypes', UNCHANGED <<running, paused, due, lead, dirty, pendingDirty, queue,
               observedWork, cycleAdvance, timedWait, kind, pc, sig>>,
           op'["poll"] = op["poll"], op'["ipc"] # "limit"
    PROVE  WakeInv'
BY DEF WakeInv, Reports, Parked, Announced, Covered, Work, PausedWork, Bumping, GuestReports,
   Signalling, NothingToDo, ExactWork

\* A call that ends with a signal: whatever it has brought, the generation is about to move.
LEMMA Signalled ==
    ASSUME WakeInv, WaitTypes', NEW s \in Signallers, NEW next, Signal(s, next), next # "limit",
           s = "poll" => op["poll"] # "limit",
           UNCHANGED <<observedWork, cycleAdvance, timedWait, kind, pc>>
    PROVE  WakeInv'
<1>1. /\ sig' = [sig EXCEPT ![s] = "bump"] /\ op' = [op EXCEPT ![s] = next]
      /\ sig \in [Signallers -> SignalStates] /\ DOMAIN op = Signallers
  BY DEF Signal, WakeInv, WaitTypes
<1>2. Bumping' /\ Signalling'
  BY <1>1 DEF Bumping, Signalling, GuestReports, Signallers
<1>3. Reports'
  BY <1>1 DEF WakeInv, Reports, GuestReports, Signallers
<1> QED
  BY <1>2, <1>3 DEF WakeInv, Parked, Announced, Covered

LEMMA WakeTop ==
    ASSUME WakeInv, Top
    PROVE  WakeInv'
<1>1. WaitTypes'
  BY DEF WakeInv, WaitTypes, Top, flagVars, workVars, genVars, callVars
<1>2. /\ UNCHANGED <<op, sig>>
      /\ pc' \notin {"applying", "parked", "announce", "pred", "block", "asleep"}
  BY DEF Top, callVars
<1> QED
  BY <1>1, <1>2, Busy

LEMMA WakePauseObserve ==
    ASSUME WakeInv, PauseObserve
    PROVE  WakeInv'
<1>1. WaitTypes'
  BY DEF WakeInv, WaitTypes, PauseObserve, flagVars, workVars, waitVars, callVars
<1>2. /\ UNCHANGED <<op, sig>>
      /\ pc' \notin {"applying", "parked", "announce", "pred", "block", "asleep"}
  BY DEF PauseObserve, callVars
<1> QED
  BY <1>1, <1>2, Busy

LEMMA WakeUnpark ==
    ASSUME WakeInv, Unpark
    PROVE  WakeInv'
<1>1. WaitTypes'
  BY DEF WakeInv, WaitTypes, Unpark, flagVars, workVars, genVars, waitVars, callVars
<1>2. /\ UNCHANGED <<op, sig>>
      /\ pc' \notin {"applying", "parked", "announce", "pred", "block", "asleep"}
  BY DEF Unpark, callVars
<1> QED
  BY <1>1, <1>2, Busy

LEMMA WakeCapture ==
    ASSUME WakeInv, Capture
    PROVE  WakeInv'
<1>1. WaitTypes'
  BY DEF WakeInv, WaitTypes, Capture, flagVars, workVars, waitVars, callVars
<1>2. /\ UNCHANGED <<op, sig>>
      /\ pc' \notin {"applying", "parked", "announce", "pred", "block", "asleep"}
  BY DEF Capture, callVars
<1> QED
  BY <1>1, <1>2, Busy

LEMMA WakeObserve ==
    ASSUME WakeInv, Observe
    PROVE  WakeInv'
<1>1. WaitTypes'
  BY DEF WakeInv, WaitTypes, Observe, flagVars, workVars, waitVars, callVars
<1>2. /\ UNCHANGED <<op, sig>>
      /\ pc' \notin {"applying", "parked", "announce", "pred", "block", "asleep"}
  BY DEF Observe, callVars
<1> QED
  BY <1>1, <1>2, Busy

LEMMA WakeAim ==
    ASSUME WakeInv, Aim
    PROVE  WakeInv'
<1>1. WaitTypes'
  BY DEF WakeInv, WaitTypes, Aim, flagVars, genVars, waitVars, callVars
<1>2. /\ UNCHANGED <<op, sig>>
      /\ pc' \notin {"applying", "parked", "announce", "pred", "block", "asleep"}
  BY DEF Aim, callVars
<1> QED
  BY <1>1, <1>2, Busy

LEMMA WakeLimits ==
    ASSUME WakeInv, Limits
    PROVE  WakeInv'
<1>1. WaitTypes'
  BY DEF WakeInv, WaitTypes, Limits, flagVars, workVars, genVars, waitVars, callVars
<1>2. /\ UNCHANGED <<op, sig>>
      /\ pc' \notin {"applying", "parked", "announce", "pred", "block", "asleep"}
  BY DEF Limits, callVars
<1> QED
  BY <1>1, <1>2, Busy

LEMMA WakeSettleLeave ==
    ASSUME WakeInv, SettleLeave
    PROVE  WakeInv'
<1>1. WaitTypes'
  BY DEF WakeInv, WaitTypes, SettleLeave, flagVars, genVars, waitVars, callVars
<1>2. /\ UNCHANGED <<op, sig>>
      /\ pc' \notin {"applying", "parked", "announce", "pred", "block", "asleep"}
  BY DEF SettleLeave, callVars
<1> QED
  BY <1>1, <1>2, Busy

LEMMA WakeRelock ==
    ASSUME WakeInv, Relock
    PROVE  WakeInv'
<1>1. WaitTypes'
  BY DEF WakeInv, WaitTypes, Relock, flagVars, genVars, waitVars, callVars
<1>2. /\ UNCHANGED <<op, sig>>
      /\ pc' \notin {"applying", "parked", "announce", "pred", "block", "asleep"}
  BY DEF Relock, callVars
<1> QED
  BY <1>1, <1>2, Busy

LEMMA WakeReturn ==
    ASSUME WakeInv, Return
    PROVE  WakeInv'
<1>1. WaitTypes'
  BY DEF WakeInv, WaitTypes, Return, flagVars, workVars, genVars, waitVars, callVars
<1>2. /\ UNCHANGED <<op, sig>>
      /\ pc' \notin {"applying", "parked", "announce", "pred", "block", "asleep"}
  BY DEF Return, callVars
<1> QED
  BY <1>1, <1>2, Busy

LEMMA WakeEnter ==
    ASSUME WakeInv, NEW d \in BOOLEAN, Enter(d)
    PROVE  WakeInv'
<1>1. WaitTypes'
  BY DEF WakeInv, WaitTypes, Enter, Drain, flagVars, genVars, waitVars, callVars
<1>2. /\ UNCHANGED <<op, sig>>
      /\ pc' \notin {"applying", "parked", "announce", "pred", "block", "asleep"}
  BY DEF Enter, Drain, callVars
<1> QED
  BY <1>1, <1>2, Busy

LEMMA WakeAdvance ==
    ASSUME WakeInv, NEW d \in BOOLEAN, NEW fire \in BOOLEAN, Advance(d, fire)
    PROVE  WakeInv'
<1>1. WaitTypes'
  BY DEF WakeInv, WaitTypes, Advance, flagVars, genVars, waitVars, callVars
<1>2. /\ UNCHANGED <<op, sig>>
      /\ pc' \notin {"applying", "parked", "announce", "pred", "block", "asleep"}
  BY DEF Advance, callVars
<1> QED
  BY <1>1, <1>2, Busy

LEMMA WakeSettle ==
    ASSUME WakeInv, NEW d \in BOOLEAN, NEW again \in BOOLEAN, NEW pauses \in BOOLEAN,
           NEW news, Settle(d, again, pauses, news)
    PROVE  WakeInv'
<1>1. WaitTypes'
  BY DEF WakeInv, WaitTypes, Settle, BumpWork, waitVars, callVars
<1>2. /\ UNCHANGED <<op, sig>>
      /\ pc' \notin {"applying", "parked", "announce", "pred", "block", "asleep"}
  BY DEF Settle, BumpWork, callVars
<1> QED
  BY <1>1, <1>2, Busy

LEMMA WakeStart ==
    ASSUME WakeInv, Start
    PROVE  WakeInv'
<1>1. WaitTypes'
  BY DEF WakeInv, WaitTypes, Start, workVars, genVars, waitVars, callVars
<1>2. /\ UNCHANGED <<op, sig>>
      /\ pc' \notin {"applying", "parked", "announce", "pred", "block", "asleep"}
  BY DEF Start, callVars
<1> QED
  BY <1>1, <1>2, Busy

LEMMA WakeTimeout ==
    ASSUME WakeInv, Timeout
    PROVE  WakeInv'
<1>1. WaitTypes'
  BY DEF WakeInv, WaitTypes, Timeout, LeaveWait, flagVars, workVars, genVars, callVars
<1>2. /\ UNCHANGED <<op, sig>>
      /\ pc' \notin {"applying", "parked", "announce", "pred", "block", "asleep"}
  BY DEF Timeout, LeaveWait, callVars
<1> QED
  BY <1>1, <1>2, Busy

LEMMA WakePauseInspect ==
    ASSUME WakeInv, NEW d \in BOOLEAN, PauseInspect(d)
    PROVE  WakeInv'
<1>1. WaitTypes'
  BY DEF WakeInv, WaitTypes, PauseInspect, flagVars, genVars, callVars
<1>2. UNCHANGED <<op, sig>>
  BY DEF PauseInspect, callVars
<1>3. Reports'
  BY <1>2 DEF WakeInv, Reports, GuestReports
<1>4. Parked'
  BY DEF Parked, PausedWork, PauseInspect, flagVars
<1>5. Announced'
  BY DEF Announced, PauseInspect
<1>6. Covered'
  BY DEF Covered, PauseInspect
<1> QED
  BY <1>1, <1>3, <1>4, <1>5, <1>6 DEF WakeInv

LEMMA WakeGoIdle ==
    ASSUME WakeInv, NEW d \in BOOLEAN, GoIdle(d)
    PROVE  WakeInv'
<1>1. WaitTypes'
  BY DEF WakeInv, WaitTypes, GoIdle, Drain, flagVars, genVars, callVars
<1>2. UNCHANGED <<op, sig>>
  BY DEF GoIdle, Drain, callVars
<1>3. Reports'
  BY <1>2 DEF WakeInv, Reports, GuestReports
<1>4. Parked'
  BY DEF Parked, Work, NothingToDo, ExactWork, GoIdle, Drain, flagVars
<1>5. Announced'
  BY DEF Announced, Work, NothingToDo, ExactWork, GoIdle, Drain
<1>6. Covered'
  BY DEF Covered, GoIdle
<1> QED
  BY <1>1, <1>3, <1>4, <1>5, <1>6 DEF WakeInv

LEMMA WakeLimitDrain ==
    ASSUME WakeInv, LimitDrain
    PROVE  WakeInv'
<1>1. WaitTypes'
  BY DEF WakeInv, WaitTypes, LimitDrain, flagVars, workVars, genVars, callVars
<1>2. UNCHANGED <<op, sig>>
  BY DEF LimitDrain, callVars
<1>3. Reports'
  BY <1>2 DEF WakeInv, Reports, GuestReports
<1>4. Parked'
  BY DEF Parked, LimitDrain
<1>5. Announced'
  BY DEF Announced, LimitDrain
<1>6. Covered'
  BY DEF Covered, LimitDrain
<1> QED
  BY <1>1, <1>3, <1>4, <1>5, <1>6 DEF WakeInv

LEMMA WakeApply ==
    ASSUME WakeInv, NEW d \in BOOLEAN, Apply(d)
    PROVE  WakeInv'
<1>1. WaitTypes'
  BY DEF WakeInv, WaitTypes, Apply, flagVars, genVars, waitVars, callVars
<1>2. UNCHANGED <<op, sig>>
  BY DEF Apply, callVars
<1>3. Reports'
  BY <1>2 DEF WakeInv, Reports, GuestReports
<1>4. Parked'
  BY DEF Parked, Apply
<1>5. Announced'
  BY DEF WakeInv, Announced, Apply, waitVars
<1>6. Covered'
  BY DEF Covered, Apply
<1> QED
  BY <1>1, <1>3, <1>4, <1>5, <1>6 DEF WakeInv

LEMMA WakePace ==
    ASSUME WakeInv, NEW next \in {"announce", "top", "legacy"}, Pace(next)
    PROVE  WakeInv'
<1>1. WaitTypes'
  BY DEF WakeInv, WaitTypes, Pace, flagVars, workVars, genVars, callVars
<1>2. UNCHANGED <<op, sig>>
  BY DEF Pace, callVars
<1>3. Reports'
  BY <1>2 DEF WakeInv, Reports, GuestReports
<1>4. Parked'
  BY DEF Parked, Pace
<1>5. Announced'
  BY DEF Announced, Pace
<1>6. Covered'
  BY DEF Covered, Pace
<1> QED
  BY <1>1, <1>3, <1>4, <1>5, <1>6 DEF WakeInv

LEMMA WakeLegacyDelay ==
    ASSUME WakeInv, NEW next \in {"pred", "top"}, LegacyDelay(next)
    PROVE  WakeInv'
<1>1. WaitTypes'
  BY DEF WakeInv, WaitTypes, LegacyDelay, flagVars, workVars, genVars, callVars
<1>2. UNCHANGED <<op, sig>>
  BY DEF LegacyDelay, callVars
<1>3. Reports'
  BY <1>2 DEF WakeInv, Reports, GuestReports
<1>4. Parked'
  BY DEF Parked, LegacyDelay
<1>5. Announced'
  BY DEF Announced, LegacyDelay
<1>6. Covered'
  BY DEF Covered, LegacyDelay
<1> QED
  BY <1>1, <1>3, <1>4, <1>5, <1>6 DEF WakeInv

LEMMA WakeAnnounce ==
    ASSUME WakeInv, Announce
    PROVE  WakeInv'
<1>1. WaitTypes'
  BY DEF WakeInv, WaitTypes, Announce, flagVars, workVars, genVars, callVars
<1>2. UNCHANGED <<op, sig>>
  BY DEF Announce, callVars
<1>3. Reports'
  BY <1>2 DEF WakeInv, Reports, GuestReports
<1>4. Parked'
  BY DEF Parked, Announce
<1>5. Announced'
  BY DEF WakeInv, Announced, Work, Bumping, GuestReports, NothingToDo, ExactWork, Announce,
     flagVars, workVars, queueVars, genVars, callVars
<1>6. Covered'
  BY DEF Covered, Announce
<1> QED
  BY <1>1, <1>3, <1>4, <1>5, <1>6 DEF WakeInv

LEMMA WakePredicate ==
    ASSUME WakeInv, Predicate
    PROVE  WakeInv'
<1>1. WaitTypes'
  BY DEF WakeInv, WaitTypes, Predicate, LeaveWait, flagVars, workVars, genVars, callVars
<1>2. UNCHANGED <<op, sig>>
  BY DEF Predicate, WaitOver, LeaveWait, callVars
<1>3. Reports'
  BY <1>2 DEF WakeInv, Reports, GuestReports
<1>4. Parked'
  BY DEF Parked, Predicate, LeaveWait
<1>5. Announced'
  BY DEF WakeInv, Announced, Work, Bumping, GuestReports, NothingToDo, ExactWork, Predicate,
     LeaveWait, flagVars, workVars, queueVars, genVars, callVars
<1>6. Covered'
  BY DEF WakeInv, Announced, Covered, Work, Bumping, GuestReports, Signalling, NothingToDo,
     ExactWork, Predicate, WaitOver, LeaveWait, flagVars, workVars, queueVars, callVars
<1> QED
  BY <1>1, <1>3, <1>4, <1>5, <1>6 DEF WakeInv

LEMMA WakeBlock ==
    ASSUME WakeInv, Block
    PROVE  WakeInv'
<1>1. WaitTypes'
  BY DEF WakeInv, WaitTypes, Block, flagVars, workVars, genVars, waitVars, callVars
<1>2. UNCHANGED <<op, sig>>
  BY DEF Block, callVars
<1>3. Reports'
  BY <1>2 DEF WakeInv, Reports, GuestReports
<1>4. Parked'
  BY DEF Parked, Block
<1>5. Announced'
  BY DEF WakeInv, Announced, Work, Bumping, GuestReports, NothingToDo, ExactWork, Block,
     flagVars, workVars, queueVars, genVars, waitVars, callVars
<1>6. Covered'
  BY DEF WakeInv, Covered, Work, GuestReports, Signalling, NothingToDo, ExactWork, Block,
     flagVars, workVars, queueVars, waitVars, callVars
<1> QED
  BY <1>1, <1>3, <1>4, <1>5, <1>6 DEF WakeInv

LEMMA WakeBump ==
    ASSUME WakeInv, NEW s \in Signallers, Bump(s)
    PROVE  WakeInv'
<1>1. WaitTypes'
  BY DEF WakeInv, WaitTypes, Bump, BumpWork, SignalStates, flagVars, workVars, waitVars
<1>2. Reports'
  BY DEF WakeInv, Reports, GuestReports, Bump
<1>3. Parked'
  BY DEF WakeInv, Parked, Bump, BumpWork, waitVars
<1>4. Announced'
  BY DEF WakeInv, Announced, Bump, BumpWork, waitVars
<1>5. Covered'
  BY DEF WakeInv, Covered, Work, GuestReports, Signalling, NothingToDo, ExactWork, Bump,
     flagVars, workVars, queueVars, waitVars
<1> QED
  BY <1>1, <1>2, <1>3, <1>4, <1>5 DEF WakeInv

LEMMA WakeCheck ==
    ASSUME WakeInv, NEW s \in Signallers, Check(s)
    PROVE  WakeInv'
<1>1. WaitTypes'
  BY DEF WakeInv, WaitTypes, Check, SignalStates, flagVars, workVars, genVars, waitVars
<1>2. Reports'
  BY DEF WakeInv, Reports, GuestReports, Check
<1>3. Parked'
  BY DEF WakeInv, Parked, Work, PausedWork, Bumping, NothingToDo, ExactWork, Check, flagVars,
     workVars, queueVars, genVars, waitVars
<1>4. Announced'
  BY DEF WakeInv, Announced, Work, Bumping, GuestReports, NothingToDo, ExactWork, Check,
     flagVars, workVars, queueVars, genVars, waitVars
<1>5. Covered'
  BY DEF WakeInv, Covered, Work, GuestReports, Signalling, NothingToDo, ExactWork, Check,
     flagVars, workVars, queueVars, waitVars
<1> QED
  BY <1>1, <1>2, <1>3, <1>4, <1>5 DEF WakeInv

LEMMA WakeNotify ==
    ASSUME WakeInv, NEW s \in Signallers, Notify(s)
    PROVE  WakeInv'
<1>1. WaitTypes'
  BY DEF WakeInv, WaitTypes, Notify, SignalStates, flagVars, workVars, genVars, waitVars
<1>2. Reports'
  BY DEF WakeInv, Reports, GuestReports, Notify
<1>3. Parked'
  BY DEF WakeInv, Parked, Work, PausedWork, Bumping, NothingToDo, ExactWork, Notify, NotifyAll,
     flagVars, workVars, queueVars, genVars, waitVars
<1>4. Announced'
  BY DEF WakeInv, Announced, Work, Bumping, GuestReports, NothingToDo, ExactWork, Notify,
     NotifyAll, flagVars, workVars, queueVars, genVars, waitVars
<1>5. Covered'
  BY DEF WakeInv, Covered, Notify, NotifyAll, CanNotify, PacingMutexFree, waitVars
<1> QED
  BY <1>1, <1>2, <1>3, <1>4, <1>5 DEF WakeInv

LEMMA WakeNotifyAdvanceLimitChanged ==
    ASSUME WakeInv, NotifyAdvanceLimitChanged
    PROVE  WakeInv'
<1>1. WaitTypes'
  BY DEF WakeInv, WaitTypes, NotifyAdvanceLimitChanged, SignalStates, flagVars, workVars,
     waitVars
<1>2. Reports'
  BY DEF WakeInv, WaitTypes, Reports, GuestReports, NotifyAdvanceLimitChanged
<1>3. Parked'
  BY DEF WakeInv, Parked, Reports, Work, PausedWork, Bumping, GuestReports, NothingToDo,
     ExactWork, NotifyAdvanceLimitChanged, flagVars, workVars, queueVars, waitVars
<1>4. Announced'
  BY DEF WakeInv, Announced, NotifyAdvanceLimitChanged, waitVars
<1>5. Covered'
  BY DEF WakeInv, WaitTypes, Covered, GuestReports, Signalling, NotifyAdvanceLimitChanged,
     waitVars
<1> QED
  BY <1>1, <1>2, <1>3, <1>4, <1>5 DEF WakeInv

LEMMA WakeIpcNotifyAll ==
    ASSUME WakeInv, IpcNotifyAll
    PROVE  WakeInv'
<1>1. WaitTypes'
  BY DEF WakeInv, WaitTypes, IpcNotifyAll, flagVars, workVars, genVars, waitVars
<1>2. Reports'
  BY DEF WakeInv, WaitTypes, Reports, GuestReports, Signallers, IpcNotifyAll
<1>3. Parked'
  BY DEF WakeInv, Parked, Work, PausedWork, Bumping, NothingToDo, ExactWork, IpcNotifyAll,
     NotifyAll, flagVars, workVars, queueVars, genVars, waitVars
<1>4. Announced'
  BY DEF WakeInv, WaitTypes, Announced, Signallers, Work, Bumping, GuestReports, NothingToDo,
     ExactWork, IpcNotifyAll, NotifyAll, flagVars, workVars, queueVars, genVars, waitVars
<1>5. Covered'
  BY DEF WakeInv, WaitTypes, Covered, Signallers, Work, GuestReports, Signalling, NothingToDo,
     ExactWork, IpcNotifyAll, NotifyAll, flagVars, workVars, queueVars, waitVars
<1> QED
  BY <1>1, <1>2, <1>3, <1>4, <1>5 DEF WakeInv

LEMMA WakeGuestAdvances ==
    ASSUME WakeInv, NEW t \in Nat, GuestAdvances(t)
    PROVE  WakeInv'
<1>1. WaitTypes'
  BY DEF WakeInv, WaitTypes, GuestAdvances, flagVars, genVars, waitVars
<1>2. Reports'
  BY DEF WakeInv, Reports, GuestAdvances, Idle
<1>3. Parked'
  BY DEF WakeInv, Parked, Work, PausedWork, Bumping, NothingToDo, ExactWork, GuestAdvances,
     flagVars, queueVars, genVars, waitVars
<1>4. Announced'
  BY DEF WakeInv, WaitTypes, Announced, Signallers, GuestReports, GuestAdvances, waitVars
<1>5. Covered'
  BY DEF WakeInv, WaitTypes, Covered, Signallers, GuestReports, Signalling, GuestAdvances,
     waitVars
<1> QED
  BY <1>1, <1>2, <1>3, <1>4, <1>5 DEF WakeInv

LEMMA WakeEnqueue ==
    ASSUME WakeInv, NEW c \in Commands, NEW d \in BOOLEAN, Enqueue(c, d)
    PROVE  WakeInv'
<1>1. WaitTypes'
  BY DEF WakeInv, WaitTypes, Enqueue, SignalStates, flagVars, genVars, waitVars, callVars
<1>2. Reports'
  BY DEF WakeInv, WaitTypes, Reports, GuestReports, Signallers, Enqueue, callVars
<1>3. Parked'
  BY DEF WakeInv, WaitTypes, Parked, Signallers, Work, PausedWork, Bumping, Enqueue,
     WakesWorker, Idle, genVars, waitVars, callVars
<1>4. Announced'
  BY DEF WakeInv, WaitTypes, Announced, Signallers, Work, Bumping, GuestReports, Enqueue,
     WakesWorker, Idle, flagVars, genVars, waitVars
<1>5. Covered'
  BY DEF WakeInv, WaitTypes, Covered, Signallers, Work, GuestReports, Signalling, Enqueue,
     WakesWorker, Idle, waitVars, callVars
<1> QED
  BY <1>1, <1>2, <1>3, <1>4, <1>5 DEF WakeInv

LEMMA WakeReset ==
    ASSUME WakeInv, Reset
    PROVE  WakeInv'
<1>1. WaitTypes'
  BY DEF WakeInv, WaitTypes, Reset, genVars, waitVars, callVars
<1>2. Reports'
  BY DEF WakeInv, Reports, GuestReports, Reset, callVars
<1>3. Parked'
  BY DEF WakeInv, Parked, Work, PausedWork, Bumping, Reset, genVars, waitVars, callVars
<1>4. Announced'
  BY DEF WakeInv, Announced, Reset, waitVars
<1>5. Covered'
  BY DEF WakeInv, Covered, Work, GuestReports, Signalling, Reset, waitVars, callVars
<1> QED
  BY <1>1, <1>2, <1>3, <1>4, <1>5 DEF WakeInv

LEMMA WakePause ==
    ASSUME WakeInv, Pause
    PROVE  WakeInv'
<1>1. WaitTypes'
  BY DEF WakeInv, WaitTypes, Pause, Signal, SignalStates, workVars, genVars, waitVars
<1>2. /\ Signal("ipc", "notifyAll")
      /\ UNCHANGED <<observedWork, cycleAdvance, timedWait, kind, pc>>
      /\ "ipc" # "poll"
  BY DEF Pause, genVars, waitVars
<1> QED
  BY <1>1, <1>2, Signalled DEF Signallers

LEMMA WakeResume ==
    ASSUME WakeInv, Resume
    PROVE  WakeInv'
<1>1. WaitTypes'
  BY DEF WakeInv, WaitTypes, Resume, Signal, SignalStates, workVars, genVars, waitVars
<1>2. /\ Signal("ipc", "none") /\ UNCHANGED <<observedWork, cycleAdvance, timedWait, kind, pc>>
      /\ "ipc" # "poll"
  BY DEF Resume, genVars, waitVars
<1> QED
  BY <1>1, <1>2, Signalled DEF Signallers

LEMMA WakeStopRunning ==
    ASSUME WakeInv, StopRunning
    PROVE  WakeInv'
<1>1. WaitTypes'
  BY DEF WakeInv, WaitTypes, StopRunning, Signal, SignalStates, workVars, genVars, waitVars
<1>2. /\ Signal("ipc", "stopNotify")
      /\ UNCHANGED <<observedWork, cycleAdvance, timedWait, kind, pc>>
      /\ "ipc" # "poll"
  BY DEF StopRunning, genVars, waitVars
<1> QED
  BY <1>1, <1>2, Signalled DEF Signallers

LEMMA WakeScheduleAt ==
    ASSUME WakeInv, NEW t, ScheduleAt(t)
    PROVE  WakeInv'
<1>1. WaitTypes'
  BY DEF WakeInv, WaitTypes, ScheduleAt, Signal, SignalStates, flagVars, genVars, waitVars
<1>2. /\ Signal("poll", "none") /\ UNCHANGED <<observedWork, cycleAdvance, timedWait, kind, pc>>
      /\ op["poll"] # "limit"
  BY DEF ScheduleAt, Idle, genVars, waitVars
<1> QED
  BY <1>1, <1>2, Signalled DEF Signallers

LEMMA WakeInserted ==
    ASSUME WakeInv, Inserted
    PROVE  WakeInv'
<1>1. WaitTypes'
  BY DEF WakeInv, WaitTypes, Inserted, Signal, SignalStates, flagVars, genVars, waitVars
<1>2. /\ Signal("poll", "none") /\ UNCHANGED <<observedWork, cycleAdvance, timedWait, kind, pc>>
      /\ op["poll"] # "limit"
  BY DEF Inserted, genVars, waitVars
<1> QED
  BY <1>1, <1>2, Signalled DEF Signallers

LEMMA WakeMarkDirty ==
    ASSUME WakeInv, MarkDirty
    PROVE  WakeInv'
<1>1. WaitTypes'
  BY DEF WakeInv, WaitTypes, MarkDirty, Signal, SignalStates, flagVars, genVars, waitVars
<1>2. CASE op' = [op EXCEPT !["poll"] = "insert"] /\ UNCHANGED <<pendingDirty, sig>>
  BY <1>2 DEF MarkDirty, Idle, WakeInv, WaitTypes, Reports, Parked, Announced, Covered, Work,
     PausedWork, Bumping, GuestReports, Signalling, NothingToDo, ExactWork, flagVars,
     queueVars, genVars, waitVars
<1>3. CASE Signal("poll", "none")
  <2>1. op["poll"] # "limit" /\ UNCHANGED <<observedWork, cycleAdvance, timedWait, kind, pc>>
    BY DEF MarkDirty, Idle, genVars, waitVars
  <2> QED
    BY <1>1, <1>3, <2>1, Signalled DEF Signallers
<1> QED
  BY <1>2, <1>3 DEF MarkDirty

LEMMA WakeStopJoins ==
    ASSUME WakeInv, NEW d \in BOOLEAN, StopJoins(d)
    PROVE  WakeInv'
<1>1. WaitTypes'
  BY DEF WakeInv, WaitTypes, StopJoins, genVars, waitVars
<1>2. pc' = "none" /\ sig' = sig /\ op' = [op EXCEPT !["ipc"] = "none"]
  BY DEF StopJoins
<1>3. Reports'
  BY <1>2 DEF WakeInv, WaitTypes, Reports, GuestReports, Signallers
<1> QED
  BY <1>1, <1>2, <1>3 DEF WakeInv, Parked, Announced, Covered

LEMMA WakeQuiet ==
    ASSUME WakeInv, Stop \/ Read \/ ReadDone \/ Answered \/ UNCHANGED vars
    PROVE  WakeInv'
<1>1. WaitTypes'
  BY DEF WakeInv, WaitTypes, Stop, Read, ReadDone, Answered, vars, flagVars, workVars, genVars,
     waitVars, callVars
<1>2. op'["poll"] = op["poll"] /\ op'["ipc"] # "limit"
  BY DEF WakeInv, WaitTypes, Reports, Stop, Read, ReadDone, Answered, vars, callVars, Signallers
<1>3. UNCHANGED <<running, paused, due, lead, dirty, pendingDirty, queue, observedWork,
                  cycleAdvance, timedWait, kind, pc, sig>>
  BY DEF Stop, Read, ReadDone, Answered, vars, flagVars, workVars, queueVars, genVars,
     waitVars, callVars
<1> QED
  BY <1>1, <1>2, <1>3, Quiet

LEMMA WakeWorker == WakeInv /\ WorkerStep => WakeInv'
<1> SUFFICES ASSUME WakeInv, WorkerStep
             PROVE  WakeInv'
  OBVIOUS
<1>1. CASE Top \/ PauseObserve \/ Unpark \/ Capture \/ Observe \/ Aim \/ Limits
  BY <1>1, WakeTop, WakePauseObserve, WakeUnpark, WakeCapture, WakeObserve, WakeAim, WakeLimits
<1>2. CASE \/ SettleLeave \/ Relock \/ Return \/ LimitDrain
           \/ Announce \/ Predicate \/ Block \/ Timeout
  BY <1>2, WakeSettleLeave, WakeRelock, WakeReturn, WakeLimitDrain, WakeAnnounce,
     WakePredicate, WakeBlock, WakeTimeout
<1>3. ASSUME NEW d \in BOOLEAN, PauseInspect(d) \/ GoIdle(d) \/ Enter(d) \/ Apply(d)
      PROVE  WakeInv'
  BY <1>3, WakePauseInspect, WakeGoIdle, WakeEnter, WakeApply
<1>4. ASSUME NEW d \in BOOLEAN, NEW fire \in BOOLEAN, Advance(d, fire)
      PROVE  WakeInv'
  BY <1>4, WakeAdvance
<1>5. ASSUME NEW d \in BOOLEAN, NEW again \in BOOLEAN, NEW pauses \in BOOLEAN,
             NEW news \in {{}} \cup {{t} : t \in NewEvents}, Settle(d, again, pauses, news)
      PROVE  WakeInv'
  BY <1>5, WakeSettle
<1>6. ASSUME NEW next \in {"announce", "top", "legacy"}, Pace(next)
      PROVE  WakeInv'
  BY <1>6, WakePace
<1>7. ASSUME NEW next \in {"pred", "top"}, LegacyDelay(next)
      PROVE  WakeInv'
  BY <1>7, WakeLegacyDelay
<1> QED
  BY <1>1, <1>2, <1>3, <1>4, <1>5, <1>6, <1>7 DEF WorkerStep

LEMMA WakeSignallers == WakeInv /\ (\E s \in Signallers : Continue(s)) => WakeInv'
<1> SUFFICES ASSUME WakeInv, NEW s \in Signallers, Continue(s)
             PROVE  WakeInv'
  OBVIOUS
<1>1. CASE Bump(s) \/ Check(s) \/ Notify(s)
  BY <1>1, WakeBump, WakeCheck, WakeNotify
<1>2. CASE Inserted \/ NotifyAdvanceLimitChanged
  BY <1>2, WakeInserted, WakeNotifyAdvanceLimitChanged
<1>3. CASE IpcNotifyAll \/ StopRunning \/ Answered \/ ReadDone
  BY <1>3, WakeIpcNotifyAll, WakeStopRunning, WakeQuiet
<1>4. CASE \E d \in BOOLEAN : StopJoins(d)
  BY <1>4, WakeStopJoins
<1> QED
  BY <1>1, <1>2, <1>3, <1>4 DEF Continue

LEMMA WakeCall == WakeInv /\ Call => WakeInv'
<1> SUFFICES ASSUME WakeInv, Call
             PROVE  WakeInv'
  OBVIOUS
<1>1. CASE Start \/ Stop \/ Pause \/ Resume \/ Read \/ Reset \/ MarkDirty
  BY <1>1, WakeStart, WakeQuiet, WakePause, WakeResume, WakeReset, WakeMarkDirty
<1>2. ASSUME NEW c \in Commands, NEW d \in BOOLEAN, Enqueue(c, d)
      PROVE  WakeInv'
  BY <1>2, WakeEnqueue
<1>3. ASSUME NEW t, ScheduleAt(t)
      PROVE  WakeInv'
  BY <1>3, WakeScheduleAt
<1>4. ASSUME NEW t \in 1..Horizon, GuestAdvances(t)
      PROVE  WakeInv'
  <2>1. t \in Nat
    BY StepAssumption
  <2> QED
    BY <1>4, <2>1, WakeGuestAdvances
<1> QED
  BY <1>1, <1>2, <1>3, <1>4 DEF Call

\* The invariant says more than the property.
LEMMA WakeImplies == WakeInv => NoLostWakeup
<1> SUFFICES ASSUME WakeInv
             PROVE  NoLostWakeup
  OBVIOUS
<1>1. pc = "parked" /\ HasToWake => observedWork \/ \E s \in Signallers : sig[s] = "bump"
  BY DEF WakeInv, Parked, HasToWake, Work, PausedWork, Bumping, Signallers
<1>2. pc = "asleep" /\ kind = "idle" /\ HasToWake =>
        \E s \in Signallers : sig[s] # "idle" \/ op[s] = "limit"
  BY DEF WakeInv, Covered, HasToWake, Work, Signalling, GuestReports, Signallers
<1> QED
  BY <1>1, <1>2 DEF NoLostWakeup

\* No wake-up is lost (Scheduler::signalWorkAvailable against the waits of the worker loop): a
\* worker that sleeps without a deadline although it has something to do finds that the
\* generation it waits on has moved, or somebody is still on the way to notify it.
THEOREM WorkerWakeupsAreNotLost == Spec => []NoLostWakeup
<1>1. WakeInv /\ [Next]_vars => WakeInv'
  BY WakeWorker, WakeSignallers, WakeCall, WakeQuiet DEF Next
<1> QED
  BY WakeInit, <1>1, WakeImplies, PTL DEF Spec

=============================================================================
