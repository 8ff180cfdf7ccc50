--------------------------- MODULE SchedulerProofs ---------------------------
(***************************************************************************)
(* Theorems about module Scheduler for every set of threads and components, *)
(* every time bound and every step configuration.                           *)
(*                                                                         *)
(* The first part is about the event queue and the data kept beside it, the *)
(* second about m_mutex and the types, the third about the clock.           *)
(***************************************************************************)
EXTENDS Scheduler, FiniteSetTheorems, TLAPS

-----------------------------------------------------------------------------
\* The event queue.

\* A set of natural numbers that is not empty has a least element.
LEMMA MinExists ==
    ASSUME NEW S, S \subseteq Nat, S # {}
    PROVE  \E t \in S : \A u \in S : t <= u
<1>1. PICK x \in S : \A y \in S : ~(<<y, x>> \in OpToRel(<, Nat))
  BY NatLessThanWellFounded, WFMin, Zenon
<1>2. \A y \in S : ~(y < x)
  BY <1>1 DEF OpToRel
<1> QED
  BY <1>2

\* What FirstOf returns for a set of instants.
LEMMA FirstOfTimes ==
    ASSUME NEW S, S \subseteq Times
    PROVE  /\ FirstOf(S) \in 0..Never
           /\ \A u \in S : FirstOf(S) <= u
           /\ S # {} => FirstOf(S) \in S
           /\ S = {} => FirstOf(S) = Never
<1>1. MaxTime \in Nat
  BY BoundsAssumption
<1>2. CASE S = {}
  BY <1>1, <1>2 DEF FirstOf, Never
<1>3. CASE S # {}
  <2>1. S \subseteq Nat
    BY <1>1 DEF Times
  <2>2. \E t \in S : \A u \in S : t <= u
    BY <1>3, <2>1, MinExists
  <2>3. Earliest(S) \in S /\ \A u \in S : Earliest(S) <= u
    BY <2>2 DEF Earliest
  <2>4. FirstOf(S) = Earliest(S)
    BY <1>3 DEF FirstOf
  <2>5. \A t \in Times : t \in 0..Never
    BY <1>1 DEF Times, Never
  <2> QED
    BY <1>3, <2>3, <2>4, <2>5
<1> QED
  BY <1>2, <1>3

\* The top of a queue: no event in it is earlier.
LEMMA TopTimeLeast ==
    ASSUME NEW E, E \subseteq Event
    PROVE  /\ TopTime(E) \in 0..Never
           /\ \A e \in E : TopTime(E) <= e.time
<1>1. {e.time : e \in E} \subseteq Times
  BY DEF Event
<1> QED
  BY <1>1, FirstOfTimes DEF TopTime

HardAt(E, t) == {e \in E : e.time = t /\ ~e.soft}

\* The multiset of hard instants determines the earliest hard event.
LEMMA HardFirst ==
    ASSUME NEW E, E \subseteq Event, IsFiniteSet(E),
           NEW h \in [Times -> Nat],
           \A t \in Times : h[t] = Cardinality(HardAt(E, t))
    PROVE  FirstHard(h) = FirstOf({e.time : e \in {f \in E : ~f.soft}})
<1> DEFINE L == {t \in Times : h[t] > 0}
           R == {e.time : e \in {f \in E : ~f.soft}}
<1>1. ASSUME NEW t \in Times PROVE IsFiniteSet(HardAt(E, t))
  <2>1. HardAt(E, t) \in SUBSET E
    BY DEF HardAt
  <2> QED
    BY <2>1, FS_Subset
<1>2. ASSUME NEW t \in L PROVE t \in R
  <2>1. HardAt(E, t) # {}
    BY <1>2, FS_EmptySet
  <2> QED
    BY <2>1 DEF HardAt
<1>3. ASSUME NEW t \in R PROVE t \in L
  <2>1. PICK e \in E : ~e.soft /\ t = e.time
    BY <1>3
  <2>2. t \in Times /\ e \in HardAt(E, t)
    BY <2>1 DEF Event, HardAt
  <2>3. Cardinality(HardAt(E, t)) # 0
    BY <1>1, <2>2, FS_EmptySet
  <2> QED
    BY <2>2, <2>3
<1>4. L = R
  BY <1>2, <1>3
<1> QED
  BY <1>4 DEF FirstHard

\* The queue and what is kept beside it by hand.
QueueOK(E, n, h, first, firstHard) ==
    /\ E \subseteq Event
    /\ IsFiniteSet(E)
    /\ n \in Nat
    /\ \A e \in E : e.sequence < n
    /\ h \in [Times -> Nat]
    /\ \A t \in Times : h[t] = Cardinality(HardAt(E, t))
    /\ first = TopTime(E)
    /\ firstHard = FirstHard(h)

QueueInv == QueueOK(events, nextSequence, hardTimes, nextEvent, nextHard)

\* Adding an event that is not soft, and taking one out, by instant.
LEMMA HardAdded ==
    ASSUME NEW E, IsFiniteSet(E), NEW e, e \notin E, NEW t
    PROVE  Cardinality(HardAt(E \cup {e}, t))
             = Cardinality(HardAt(E, t)) + (IF e.time = t /\ ~e.soft THEN 1 ELSE 0)
<1>1. HardAt(E, t) \in SUBSET E
  BY DEF HardAt
<1>2. IsFiniteSet(HardAt(E, t)) /\ Cardinality(HardAt(E, t)) \in Nat
  BY <1>1, FS_Subset, FS_CardinalityType
<1>3. CASE e.time = t /\ ~e.soft
  <2>1. HardAt(E \cup {e}, t) = HardAt(E, t) \cup {e} /\ e \notin HardAt(E, t)
    BY <1>3 DEF HardAt
  <2> QED
    BY <1>2, <1>3, <2>1, FS_AddElement
<1>4. CASE ~(e.time = t /\ ~e.soft)
  <2>1. HardAt(E \cup {e}, t) = HardAt(E, t)
    BY <1>4 DEF HardAt
  <2> QED
    BY <1>2, <1>4, <2>1
<1> QED
  BY <1>3, <1>4

LEMMA HardRemoved ==
    ASSUME NEW E, IsFiniteSet(E), NEW e \in E, NEW t
    PROVE  Cardinality(HardAt(E, t))
             = Cardinality(HardAt(E \ {e}, t)) + (IF e.time = t /\ ~e.soft THEN 1 ELSE 0)
<1>1. IsFiniteSet(E \ {e}) /\ e \notin E \ {e} /\ (E \ {e}) \cup {e} = E
  BY FS_RemoveElement
<1>2. Cardinality(HardAt((E \ {e}) \cup {e}, t))
        = Cardinality(HardAt(E \ {e}, t)) + (IF e.time = t /\ ~e.soft THEN 1 ELSE 0)
  BY <1>1, HardAdded
<1> QED
  BY <1>1, <1>2

\* pushEventLocked keeps the queue in order.
LEMMA PushKeepsQueue ==
    ASSUME QueueInv, now \in Times, NEW t \in Times,
           NEW c \in Components \cup {NoComponent}, NEW soft \in BOOLEAN,
           PushEvent(t, c, soft)
    PROVE  QueueInv'
<1> DEFINE e == [time |-> t, sequence |-> nextSequence, component |-> c,
                 soft |-> soft, due |-> MaxOf(t, now)]
<1>1. /\ events' = events \cup {e}
      /\ nextSequence' = nextSequence + 1
      /\ hardTimes' = IF soft THEN hardTimes ELSE [hardTimes EXCEPT ![t] = @ + 1]
      /\ nextEvent' = TopTime(events')
      /\ nextHard' = FirstHard(hardTimes')
  BY DEF PushEvent
<1>2. e \in Event
  BY BoundsAssumption DEF Event, MaxOf, Times, QueueInv, QueueOK
<1>3. e \notin events /\ events \subseteq Event /\ IsFiniteSet(events)
  BY DEF QueueInv, QueueOK
<1>4. events' \subseteq Event /\ IsFiniteSet(events')
  BY <1>1, <1>2, <1>3, FS_AddElement
<1>5. nextSequence' \in Nat /\ \A o \in events' : o.sequence < nextSequence'
  <2>1. \A o \in Event : o.sequence \in Nat
    BY DEF Event
  <2> QED
    BY <1>1, <1>3, <2>1 DEF QueueInv, QueueOK
<1>6. hardTimes' \in [Times -> Nat]
  BY <1>1 DEF QueueInv, QueueOK
<1>7. ASSUME NEW u \in Times
      PROVE  hardTimes'[u] = Cardinality(HardAt(events', u))
  <2>1. Cardinality(HardAt(events', u))
          = Cardinality(HardAt(events, u)) + (IF e.time = u /\ ~e.soft THEN 1 ELSE 0)
    BY <1>1, <1>3, HardAdded
  <2>2. hardTimes[u] = Cardinality(HardAt(events, u)) /\ hardTimes \in [Times -> Nat]
    BY DEF QueueInv, QueueOK
  <2>3. e.time = t /\ e.soft = soft
    OBVIOUS
  <2> HIDE DEF e
  <2>4. CASE soft
    BY <1>1, <2>1, <2>2, <2>3, <2>4
  <2>5. CASE ~soft
    BY <1>1, <2>1, <2>2, <2>3, <2>5
  <2> QED
    BY <2>4, <2>5
<1> QED
  BY <1>1, <1>4, <1>5, <1>6, <1>7 DEF QueueInv, QueueOK

\* So does taking out an event.
LEMMA PopKeepsQueue ==
    ASSUME QueueInv, NEW e \in events, PopEvent(e)
    PROVE  QueueInv'
<1>1. /\ events' = events \ {e}
      /\ nextEvent' = TopTime(events')
      /\ hardTimes' = IF e.soft THEN hardTimes
                      ELSE [hardTimes EXCEPT ![e.time] = @ - 1]
      /\ nextHard' = FirstHard(hardTimes')
      /\ nextSequence' = nextSequence
  BY DEF PopEvent
<1>2. events \subseteq Event /\ IsFiniteSet(events) /\ hardTimes \in [Times -> Nat]
  BY DEF QueueInv, QueueOK
<1>3. events' \subseteq Event /\ IsFiniteSet(events')
  BY <1>1, <1>2, FS_RemoveElement
<1>4. ASSUME NEW u \in Times
      PROVE  /\ hardTimes'[u] = Cardinality(HardAt(events', u))
             /\ hardTimes'[u] \in Nat
  <2>1. Cardinality(HardAt(events, u))
          = Cardinality(HardAt(events', u)) + (IF e.time = u /\ ~e.soft THEN 1 ELSE 0)
    BY <1>1, <1>2, HardRemoved
  <2>2. HardAt(events', u) \in SUBSET events'
    BY DEF HardAt
  <2>3. Cardinality(HardAt(events', u)) \in Nat
    BY <1>3, <2>2, FS_Subset, FS_CardinalityType
  <2>4. hardTimes[u] = Cardinality(HardAt(events, u))
    BY DEF QueueInv, QueueOK
  <2>5. CASE e.soft
    BY <1>1, <2>1, <2>3, <2>4, <2>5
  <2>6. CASE ~e.soft
    BY <1>1, <1>2, <2>1, <2>3, <2>4, <2>6
  <2> QED
    BY <2>5, <2>6
<1>5. hardTimes' \in [Times -> Nat]
  BY <1>1, <1>2, <1>4
<1> QED
  BY <1>1, <1>3, <1>4, <1>5 DEF QueueInv, QueueOK

\* The lock-free snapshots are the true minima.
LEMMA QueueIsExact ==
    ASSUME QueueInv
    PROVE  SnapshotsExact /\ nextEvent \in 0..Never /\ nextHard \in 0..Never
<1>1. /\ events \subseteq Event /\ IsFiniteSet(events) /\ hardTimes \in [Times -> Nat]
      /\ \A t \in Times : hardTimes[t] = Cardinality(HardAt(events, t))
      /\ nextEvent = TopTime(events) /\ nextHard = FirstHard(hardTimes)
  BY DEF QueueInv, QueueOK
<1>2. nextHard = FirstOf({e.time : e \in {f \in events : ~f.soft}})
  BY <1>1, HardFirst
<1>3. {e.time : e \in {f \in events : ~f.soft}} \subseteq Times
  BY <1>1 DEF Event
<1>4. nextHard \in 0..Never
  BY <1>2, <1>3, FirstOfTimes
<1>5. nextEvent \in 0..Never
  BY <1>1, TopTimeLeast
<1>6. SnapshotsExact
  BY <1>1, <1>2 DEF SnapshotsExact, HardAt, TopTime
<1> QED
  BY <1>4, <1>5, <1>6

-----------------------------------------------------------------------------
\* Types, and m_mutex.

DirtyType == dirty \subseteq Components /\ pendingDirty \subseteq Components

FlagType ==
    /\ converged \in BOOLEAN
    /\ paused \in BOOLEAN
    /\ stopRequested \in BOOLEAN
    /\ fired \in BOOLEAN

ClockType == now \in Times /\ committed \in Times /\ currentStep \in Nat

LocalType ==
    /\ target \in [Threads -> Times]
    /\ prev \in [Threads -> Times]
    /\ next \in [Threads -> Times]
    /\ boundary \in [Threads -> BOOLEAN]
    /\ iter \in [Threads -> Nat]
    /\ after \in [Threads -> {"initial", "commit", "stable", "loop"}]

Unlocked == {"out", "enter", "yield", "callback"}

MutexInv ==
    /\ holder \in Threads \cup {Free}
    /\ pc \in [Threads -> Pcs]
    /\ \A t \in Threads : holder = t <=> pc[t] \notin Unlocked

TypeInv ==
    QueueInv /\ DirtyType /\ FlagType /\ ClockType /\ LocalType /\ MutexInv

\* The invariant implies the type invariant of the specification.
LEMMA TypeInvIsTypeOK ==
    ASSUME TypeInv PROVE TypeOK /\ SnapshotsExact
<1>1. SnapshotsExact /\ nextEvent \in 0..Never /\ nextHard \in 0..Never
  BY QueueIsExact DEF TypeInv
<1>2. events \subseteq Event /\ nextSequence \in Nat /\ hardTimes \in [Times -> Nat]
  BY DEF TypeInv, QueueInv, QueueOK
<1>3. \A t \in Threads :
        holder = t <=> pc[t] \notin {"out", "enter", "yield", "callback"}
  BY DEF TypeInv, MutexInv, Unlocked
<1> QED
  BY <1>1, <1>2, <1>3 DEF TypeOK, TypeInv, DirtyType, FlagType, ClockType,
     LocalType, MutexInv

\* The initial state.
LEMMA TypeInit ==
    ASSUME Init PROVE TypeInv
<1>1. 0 \in Times /\ MaxTime \in Nat
  BY BoundsAssumption DEF Times
<1>2. QueueInv
  <2>1. \A t \in Times : HardAt({}, t) = {}
    BY DEF HardAt
  <2>2. Cardinality({}) = 0 /\ IsFiniteSet({})
    BY FS_EmptySet
  <2>3. TopTime({}) = Never
    BY DEF TopTime, FirstOf
  <2>4. FirstHard([t \in Times |-> 0]) = Never
    <3>1. {u \in Times : [t \in Times |-> 0][u] > 0} = {}
      OBVIOUS
    <3> QED
      BY <3>1 DEF FirstHard, FirstOf
  <2> QED
    BY <2>1, <2>2, <2>3, <2>4 DEF Init, QueueInv, QueueOK
<1>3. DirtyType /\ FlagType /\ ClockType
  BY <1>1, StepAssumption DEF Init, DirtyType, FlagType, ClockType
<1>4. LocalType
  BY <1>1 DEF Init, LocalType
<1>5. MutexInv
  BY ThreadsAssumption DEF Init, MutexInv, Pcs, Unlocked
<1> QED
  BY <1>2, <1>3, <1>4, <1>5 DEF TypeInv

\* scheduleAt and scheduleEvent.
LEMMA TypeScheduleAt ==
    ASSUME TypeInv, NEW u \in Times, NEW c \in Components \cup {NoComponent},
           NEW soft \in BOOLEAN, ScheduleAt(u, c, soft)
    PROVE  TypeInv'
<1>1. DirtyType' /\ FlagType' /\ ClockType' /\ LocalType' /\ MutexInv'
  BY DEF ScheduleAt, TypeInv, DirtyType, FlagType, ClockType, LocalType, MutexInv,
     queueVars, dirtyVars, flagVars, stepVars, settleVars, ghostVars
<1>2. QueueInv'
  BY PushKeepsQueue DEF ScheduleAt, TypeInv, ClockType
<1> QED
  BY <1>1, <1>2 DEF TypeInv

\* markDirty.
LEMMA TypeMarkDirty ==
    ASSUME TypeInv, NEW c \in Components, MarkDirty(c)
    PROVE  TypeInv'
<1>1. QueueInv' /\ FlagType' /\ ClockType' /\ LocalType' /\ MutexInv'
  BY DEF MarkDirty, TypeInv, QueueInv, FlagType, ClockType, LocalType, MutexInv,
     queueVars, dirtyVars, flagVars, stepVars, settleVars, ghostVars
<1>2. DirtyType'
  BY DEF MarkDirty, TypeInv, DirtyType
<1> QED
  BY <1>1, <1>2 DEF TypeInv

\* pause.
LEMMA TypePause ==
    ASSUME TypeInv, Pause
    PROVE  TypeInv'
<1>1. QueueInv' /\ DirtyType' /\ ClockType' /\ LocalType' /\ MutexInv'
  BY DEF Pause, TypeInv, QueueInv, DirtyType, ClockType, LocalType, MutexInv,
     queueVars, dirtyVars, flagVars, stepVars, settleVars, ghostVars
<1>2. FlagType'
  BY DEF Pause, TypeInv, FlagType, flagVars, ghostVars
<1> QED
  BY <1>1, <1>2 DEF TypeInv

\* resume.
LEMMA TypeResume ==
    ASSUME TypeInv, Resume
    PROVE  TypeInv'
<1>1. QueueInv' /\ DirtyType' /\ ClockType' /\ LocalType' /\ MutexInv'
  BY DEF Resume, TypeInv, QueueInv, DirtyType, ClockType, LocalType, MutexInv,
     queueVars, dirtyVars, flagVars, stepVars, settleVars, ghostVars
<1>2. FlagType'
  BY DEF Resume, TypeInv, FlagType, flagVars, ghostVars
<1> QED
  BY <1>1, <1>2 DEF TypeInv

\* stop, its first part.
LEMMA TypeRequestStop ==
    ASSUME TypeInv, RequestStop
    PROVE  TypeInv'
<1>1. QueueInv' /\ DirtyType' /\ ClockType' /\ LocalType' /\ MutexInv'
  BY DEF RequestStop, TypeInv, QueueInv, DirtyType, ClockType, LocalType, MutexInv,
     queueVars, dirtyVars, flagVars, stepVars, settleVars, ghostVars
<1>2. FlagType'
  BY DEF RequestStop, TypeInv, FlagType, flagVars, ghostVars
<1> QED
  BY <1>1, <1>2 DEF TypeInv

\* stop, its last part.
LEMMA TypeStopReturns ==
    ASSUME TypeInv, StopReturns
    PROVE  TypeInv'
<1>1. QueueInv' /\ DirtyType' /\ ClockType' /\ LocalType' /\ MutexInv'
  BY DEF StopReturns, TypeInv, QueueInv, DirtyType, ClockType, LocalType, MutexInv,
     queueVars, dirtyVars, flagVars, stepVars, settleVars, ghostVars
<1>2. FlagType'
  BY DEF StopReturns, TypeInv, FlagType, flagVars, ghostVars
<1> QED
  BY <1>1, <1>2 DEF TypeInv

\* reset.
LEMMA TypeReset ==
    ASSUME TypeInv, Reset
    PROVE  TypeInv'
<1>1. LocalType' /\ MutexInv'
  BY DEF Reset, TypeInv, LocalType, MutexInv,
     queueVars, dirtyVars, flagVars, stepVars, settleVars, ghostVars
<1>2. QueueInv'
  <2>1. \A t \in Times : HardAt({}, t) = {}
    BY DEF HardAt
  <2>2. Cardinality({}) = 0 /\ IsFiniteSet({})
    BY FS_EmptySet
  <2>3. TopTime({}) = Never
    BY DEF TopTime, FirstOf
  <2>4. FirstHard([t \in Times |-> 0]) = Never
    <3>1. {u \in Times : [t \in Times |-> 0][u] > 0} = {}
      OBVIOUS
    <3> QED
      BY <3>1 DEF FirstHard, FirstOf
  <2> QED
    BY <2>1, <2>2, <2>3, <2>4 DEF Reset, QueueInv, QueueOK
<1>3. DirtyType'
  BY DEF Reset, TypeInv, DirtyType
<1>4. FlagType'
  BY DEF Reset, TypeInv, FlagType
<1>5. ClockType'
  BY BoundsAssumption DEF Reset, TypeInv, ClockType, Times
<1> QED
  BY <1>1, <1>2, <1>3, <1>4, <1>5 DEF TypeInv

\* A call of runUntil.
LEMMA TypeCall ==
    ASSUME TypeInv, NEW t \in Threads, NEW to \in Times, CallRunUntil(t, to)
    PROVE  TypeInv'
<1>1. QueueInv' /\ DirtyType' /\ FlagType' /\ ClockType'
  BY DEF CallRunUntil, TypeInv, QueueInv, DirtyType, FlagType, ClockType,
     queueVars, dirtyVars, flagVars, stepVars, settleVars, ghostVars
<1>2. LocalType'
  BY DEF CallRunUntil, TypeInv, LocalType, settleVars
<1>3. MutexInv'
  BY ThreadsAssumption DEF CallRunUntil, TypeInv, MutexInv, LocalType, Pcs, Unlocked
<1> QED
  BY <1>1, <1>2, <1>3 DEF TypeInv

\* Taking the mutex and the initial settle.
LEMMA TypeEnter ==
    ASSUME TypeInv, NEW t \in Threads, Enter(t)
    PROVE  TypeInv'
<1>1. QueueInv' /\ FlagType' /\ ClockType'
  BY DEF Enter, TypeInv, QueueInv, FlagType, ClockType,
     queueVars, dirtyVars, flagVars, stepVars, settleVars, ghostVars
<1>2. DirtyType'
  BY DEF Enter, TypeInv, EnterSettle, DirtyType
<1>3. LocalType'
  BY DEF Enter, TypeInv, EnterSettle, LocalType, queueVars, dirtyVars, flagVars, stepVars, settleVars, ghostVars
<1>4. MutexInv'
  BY ThreadsAssumption DEF Enter, EnterSettle, TypeInv, MutexInv, LocalType, Pcs, Unlocked
<1> QED
  BY <1>1, <1>2, <1>3, <1>4 DEF TypeInv

\* The condition of the settle loop.
LEMMA TypeSettle ==
    ASSUME TypeInv, NEW t \in Threads, Settle(t)
    PROVE  TypeInv'
<1>1. QueueInv' /\ ClockType'
  BY DEF Settle, TypeInv, QueueInv, ClockType,
     queueVars, dirtyVars, flagVars, stepVars, settleVars, ghostVars
<1>2. DirtyType'
  BY DEF Settle, TypeInv, LeaveSettle, DirtyType, dirtyVars
<1>3. FlagType'
  BY DEF Settle, TypeInv, LeaveSettle, FlagType, flagVars, ghostVars
<1>4. LocalType'
  BY BoundsAssumption DEF Settle, LeaveSettle, TypeInv, LocalType, MinOf, MaxOf, stepVars
<1>5. MutexInv'
  BY ThreadsAssumption DEF Settle, LeaveSettle, TypeInv, MutexInv, LocalType, Pcs, Unlocked
<1> QED
  BY <1>1, <1>2, <1>3, <1>4, <1>5 DEF TypeInv

\* An iteration.
LEMMA TypeSolve ==
    ASSUME TypeInv, NEW t \in Threads, NEW again \in BOOLEAN,
           NEW more \in SUBSET Components, Solve(t, again, more)
    PROVE  TypeInv'
<1>1. ClockType' /\ LocalType'
  BY DEF Solve, TypeInv, ClockType, LocalType,
     queueVars, dirtyVars, flagVars, stepVars, settleVars, ghostVars
<1>2. QueueInv'
  <2>1. CASE UNCHANGED queueVars
    BY <2>1 DEF TypeInv, QueueInv, queueVars
  <2>2. ASSUME NEW e \in now..MaxTime, PushEvent(e, NoComponent, FALSE)
        PROVE  QueueInv'
    <3>1. now \in Times /\ e \in Times
      BY BoundsAssumption DEF TypeInv, ClockType, Times
    <3> QED
      BY <2>2, <3>1, PushKeepsQueue DEF TypeInv
  <2> QED
    BY <2>1, <2>2 DEF Solve
<1>3. DirtyType'
  BY DEF Solve, TypeInv, LeaveSettle, DirtyType
<1>4. FlagType'
  BY DEF Solve, TypeInv, LeaveSettle, FlagType, flagVars, ghostVars
<1>5. MutexInv'
  BY ThreadsAssumption DEF Solve, LeaveSettle, TypeInv, MutexInv, LocalType, Pcs, Unlocked
<1> QED
  BY <1>1, <1>2, <1>3, <1>4, <1>5 DEF TypeInv

\* Taking the mutex again.
LEMMA TypeRelock ==
    ASSUME TypeInv, NEW t \in Threads, Relock(t)
    PROVE  TypeInv'
<1>1. QueueInv' /\ FlagType' /\ ClockType' /\ LocalType'
  BY DEF Relock, TypeInv, QueueInv, FlagType, ClockType, LocalType,
     queueVars, dirtyVars, flagVars, stepVars, settleVars, ghostVars
<1>2. DirtyType'
  BY DEF Relock, TypeInv, DirtyType
<1>3. MutexInv'
  BY ThreadsAssumption DEF Relock, TypeInv, MutexInv, LocalType, Pcs, Unlocked
<1> QED
  BY <1>1, <1>2, <1>3 DEF TypeInv

\* After a settle.
LEMMA TypeStable ==
    ASSUME TypeInv, NEW t \in Threads, Stable(t)
    PROVE  TypeInv'
<1>1. QueueInv' /\ DirtyType' /\ FlagType' /\ ClockType' /\ LocalType'
  BY DEF Stable, TypeInv, QueueInv, DirtyType, FlagType, ClockType, LocalType,
     queueVars, dirtyVars, flagVars, stepVars, settleVars, ghostVars
<1>2. MutexInv'
  BY ThreadsAssumption DEF Stable, TypeInv, MutexInv, LocalType, Pcs, Unlocked
<1> QED
  BY <1>1, <1>2 DEF TypeInv

\* The end of a callback.
LEMMA TypeCallbackReturns ==
    ASSUME TypeInv, NEW t \in Threads, CallbackReturns(t)
    PROVE  TypeInv'
<1>1. QueueInv' /\ DirtyType' /\ FlagType' /\ ClockType' /\ LocalType'
  BY DEF CallbackReturns, TypeInv, QueueInv, DirtyType, FlagType, ClockType, LocalType,
     queueVars, dirtyVars, flagVars, stepVars, settleVars, ghostVars
<1>2. MutexInv'
  BY ThreadsAssumption DEF CallbackReturns, TypeInv, MutexInv, LocalType, Pcs, Unlocked
<1> QED
  BY <1>1, <1>2 DEF TypeInv

\* The end of the events of a step.
LEMMA TypeEventsDone ==
    ASSUME TypeInv, NEW t \in Threads, EventsDone(t)
    PROVE  TypeInv'
<1>1. QueueInv' /\ FlagType' /\ ClockType'
  BY DEF EventsDone, TypeInv, QueueInv, FlagType, ClockType,
     queueVars, dirtyVars, flagVars, stepVars, settleVars, ghostVars
<1>2. DirtyType'
  BY DEF EventsDone, TypeInv, EnterSettle, DirtyType
<1>3. LocalType'
  BY DEF EventsDone, TypeInv, EnterSettle, LocalType, queueVars, dirtyVars, flagVars, stepVars, settleVars, ghostVars
<1>4. MutexInv'
  BY ThreadsAssumption DEF EventsDone, EnterSettle, TypeInv, MutexInv, LocalType, Pcs, Unlocked
<1> QED
  BY <1>1, <1>2, <1>3, <1>4 DEF TypeInv

\* How far a step tries to go: not back, not past the target, and not past an
\* event that has not come yet.
LEMMA NextTimeBounds ==
    ASSUME TypeInv, NEW to \in Times, now < to
    PROVE  /\ NextTime(to) \in Times
           /\ now <= NextTime(to)
           /\ \A e \in events : NextTime(to) <= MaxOf(e.time, now)
           /\ now < NextTime(to) => NextTime(to) <= TopTime(events)
<1> DEFINE far == IF SelectedStep > 0 /\ to - now > SelectedStep
                  THEN now + SelectedStep ELSE to
           top == TopTime(events)
<1>1. MaxTime \in Nat /\ now \in Nat /\ to \in Nat /\ to <= MaxTime
  BY BoundsAssumption DEF TypeInv, ClockType, Times
<1>2. SelectedStep \in Nat
  BY StepAssumption DEF SelectedStep, TypeInv, ClockType, MinOf
<1>3. far \in Nat /\ now < far /\ far <= to
  BY <1>1, <1>2
<1>4. events \subseteq Event /\ \A e \in events : e.time \in Nat
  BY <1>1 DEF TypeInv, QueueInv, QueueOK, Event, Times
<1>5. top \in Nat /\ \A e \in events : top <= e.time
  BY <1>1, <1>4, TopTimeLeast DEF Never
<1>6. NextTime(to) = IF top < far THEN MaxOf(top, now) ELSE far
  BY DEF NextTime
<1> HIDE DEF far, top
<1>7. CASE top < far
  <2>1. NextTime(to) = IF top >= now THEN top ELSE now
    BY <1>6, <1>7 DEF MaxOf
  <2> QED
    BY <1>1, <1>3, <1>4, <1>5, <1>7, <2>1 DEF MaxOf, Times, top
<1>8. CASE ~(top < far)
  <2>1. NextTime(to) = far /\ far <= top
    BY <1>3, <1>5, <1>6, <1>8
  <2>2. \A e \in events : far <= e.time
    BY <1>3, <1>4, <1>5, <2>1
  <2> QED
    BY <1>1, <1>3, <1>4, <2>1, <2>2 DEF MaxOf, Times, top
<1> QED
  BY <1>7, <1>8

\* Leaving runUntil or beginning a time step.
LEMMA TypeLoop ==
    ASSUME TypeInv, NEW t \in Threads, Loop(t)
    PROVE  TypeInv'
<1>1. QueueInv'
  BY DEF Loop, TypeInv, QueueInv,
     queueVars, dirtyVars, flagVars, stepVars, settleVars, ghostVars
<1>2. DirtyType'
  BY ComponentsAssumption DEF Loop, TypeInv, DirtyType
<1>3. FlagType'
  BY DEF Loop, TypeInv, Return, FlagType, flagVars
<1>4. ClockType'
  <2>1. now < target[t] => NextTime(target[t]) \in Times
    BY NextTimeBounds DEF TypeInv, LocalType
  <2> QED
    BY <2>1 DEF Loop, TypeInv, ClockType
<1>5. LocalType'
  <2>1. CASE now < target[t] /\ ~Interrupted /\ pc' = [pc EXCEPT ![t] = "events"]
    <3>1. NextTime(target[t]) \in Times /\ now \in Times
      BY <2>1, NextTimeBounds DEF TypeInv, LocalType, ClockType
    <3>2. (TopTime(events) = NextTime(target[t])) \in BOOLEAN
      OBVIOUS
    <3>3. /\ target' = target /\ iter' = iter /\ after' = after
          /\ prev' = [prev EXCEPT ![t] = now]
          /\ next' = [next EXCEPT ![t] = NextTime(target[t])]
          /\ boundary' = [boundary EXCEPT ![t] = (TopTime(events) = NextTime(target[t]))]
      BY <2>1, BoundsAssumption DEF Loop, Return, settleVars, TypeInv, ClockType, LocalType, Times, MutexInv
    <3> QED
      BY <3>1, <3>2, <3>3 DEF TypeInv, LocalType
  <2>2. CASE Return(t)
    BY <2>2, BoundsAssumption DEF Return, TypeInv, LocalType, Times
  <2> QED
    BY <2>1, <2>2 DEF Loop
<1>6. MutexInv'
  BY ThreadsAssumption DEF Loop, Return, TypeInv, MutexInv, LocalType, Pcs, Unlocked
<1> QED
  BY <1>1, <1>2, <1>3, <1>4, <1>5, <1>6 DEF TypeInv

\* Processing an event.
LEMMA TypeFireEvent ==
    ASSUME TypeInv, NEW t \in Threads, NEW e \in events, FireEvent(t, e)
    PROVE  TypeInv'
<1>1. LocalType'
  BY DEF FireEvent, TypeInv, LocalType,
     queueVars, dirtyVars, flagVars, stepVars, settleVars, ghostVars
<1>2. QueueInv'
  BY PopKeepsQueue DEF FireEvent, TypeInv
<1>3. DirtyType'
  <2>1. e \in Event
    BY DEF TypeInv, QueueInv, QueueOK
  <2> QED
    BY <2>1 DEF FireEvent, TypeInv, DirtyType, Event
<1>4. FlagType'
  BY DEF FireEvent, TypeInv, FlagType, flagVars
<1>5. ClockType'
  <2>1. e \in Event
    BY DEF TypeInv, QueueInv, QueueOK
  <2> QED
    BY <2>1 DEF FireEvent, TypeInv, ClockType, MaxOf, Event
<1>6. MutexInv'
  BY ThreadsAssumption DEF FireEvent, TypeInv, MutexInv, LocalType, Pcs, Unlocked
<1> QED
  BY <1>1, <1>2, <1>3, <1>4, <1>5, <1>6 DEF TypeInv

\* The end of a step.
LEMMA TypeCommit ==
    ASSUME TypeInv, NEW t \in Threads, NEW good \in BOOLEAN,
           NEW outputs \in SUBSET Components, Commit(t, good, outputs)
    PROVE  TypeInv'
<1>1. QueueInv' /\ FlagType'
  BY DEF Commit, TypeInv, QueueInv, FlagType,
     queueVars, dirtyVars, flagVars, stepVars, settleVars, ghostVars
<1>2. DirtyType'
  BY DEF Commit, TypeInv, EnterSettle, Accepted, Rejected, DirtyType, dirtyVars
<1>3. ClockType'
  <2>1. MinStep \in Nat /\ MaxStep \in Nat
    BY StepAssumption
  <2>2. prev[t] \in Times /\ next[t] \in Times
    BY DEF TypeInv, LocalType
  <2>3. \A s \in Int : MaxOf(MinStep, s) \in Nat /\ Clamp(s, MinStep, MaxStep) \in Nat
    BY <2>1 DEF MaxOf, MinOf, Clamp
  <2>4. CASE Accepted(t, outputs)
    BY <2>2, <2>3, <2>4 DEF Accepted, TypeInv, ClockType
  <2>5. CASE Rejected(t)
    BY <2>2, <2>3, <2>5 DEF Rejected, TypeInv, ClockType
  <2> QED
    BY <2>4, <2>5 DEF Commit, TypeInv, ClockType
<1>4. LocalType'
  BY DEF Commit, TypeInv, EnterSettle, Accepted, Rejected, LocalType, stepVars, settleVars
<1>5. MutexInv'
  BY ThreadsAssumption DEF Commit, EnterSettle, Accepted, Rejected, TypeInv, MutexInv, LocalType, Pcs, Unlocked
<1> QED
  BY <1>1, <1>2, <1>3, <1>4, <1>5 DEF TypeInv

\* Every step of the specification keeps the invariant.
LEMMA TypeNext ==
    ASSUME TypeInv, [Next]_vars
    PROVE  TypeInv'
<1>1. ASSUME NEW t \in Threads, Step(t) PROVE TypeInv'
  BY <1>1, TypeEnter, TypeSettle, TypeSolve, TypeRelock, TypeStable, TypeLoop,
     TypeFireEvent, TypeCallbackReturns, TypeEventsDone, TypeCommit DEF Step
<1>2. ASSUME NEW t \in Threads, NEW to \in Times, RunUntil(t, to) PROVE TypeInv'
  BY <1>2, TypeCall DEF RunUntil
<1>3. ASSUME NEW t \in Threads, StepZero(t) PROVE TypeInv'
  BY <1>3, TypeCall DEF StepZero, TypeInv, ClockType
<1>4. ASSUME NEW t \in Times, NEW c \in Components \cup {NoComponent},
             NEW soft \in BOOLEAN, ScheduleAt(t, c, soft)
      PROVE  TypeInv'
  BY <1>4, TypeScheduleAt
<1>5. ASSUME NEW c \in Components, MarkDirty(c) PROVE TypeInv'
  BY <1>5, TypeMarkDirty
<1>6. CASE UNCHANGED vars
  BY <1>6 DEF vars, TypeInv, QueueInv, DirtyType, FlagType, ClockType, LocalType,
     MutexInv, queueVars, dirtyVars, flagVars, stepVars, settleVars, ghostVars
<1> QED
  BY <1>1, <1>2, <1>3, <1>4, <1>5, <1>6, TypePause, TypeResume, TypeRequestStop,
     TypeStopReturns, TypeReset DEF Next

\* The types are right and m_mutex is held by exactly the thread that is at work
\* inside runUntil; the multiset of hard events and the two lock-free snapshots
\* are exact after every push, pop and reset.
THEOREM QueueAndMutex == Spec => []TypeOK /\ []SnapshotsExact
<1>1. Init => TypeInv
  BY TypeInit
<1>2. TypeInv /\ [Next]_vars => TypeInv'
  BY TypeNext
<1>3. TypeInv => TypeOK /\ SnapshotsExact
  BY TypeInvIsTypeOK
<1> QED
  BY <1>1, <1>2, <1>3, PTL DEF Spec

-----------------------------------------------------------------------------
\* The clock.

\* Thread t tries a time step that it has neither committed nor rejected.
InStep(t) ==
    \/ pc[t] \in {"events", "callback", "commit"}
    \/ pc[t] \in {"settle", "solve", "yield"} /\ after[t] = "commit"

\* Only one thread runs the simulation.
OneRunner == \A t, u \in Threads : t = u

\* Events lie ahead, and a rejection would not move the clock forward.
ClockInv ==
    /\ TypeInv
    /\ \A e \in events : e.time <= e.due /\ now <= e.due
    /\ \A t \in Threads : InStep(t) => prev[t] <= now

\* The events that a push or a pop leaves in the queue still lie ahead.
LEMMA DuePush ==
    ASSUME ClockInv, NEW u \in Times, NEW c, NEW soft, PushEvent(u, c, soft)
    PROVE  \A e \in events' : e.time <= e.due /\ now <= e.due
<1> DEFINE e == [time |-> u, sequence |-> nextSequence, component |-> c,
                 soft |-> soft, due |-> MaxOf(u, now)]
<1>1. events' = events \cup {e}
  BY DEF PushEvent
<1>2. u \in Nat /\ now \in Nat
  BY BoundsAssumption DEF ClockInv, TypeInv, ClockType, Times
<1>3. e.time <= e.due /\ now <= e.due
  BY <1>2 DEF MaxOf
<1> QED
  BY <1>1, <1>3 DEF ClockInv

\* A step of one thread keeps the invariant.  Two threads may try steps at once
\* only if none of them can be rejected.
LEMMA ClockStep ==
    ASSUME ClockInv, ~Adaptive \/ OneRunner, NEW t \in Threads, Step(t)
    PROVE  ClockInv'
<1>1. TypeInv /\ TypeInv'
  BY TypeNext DEF ClockInv, Next
<1>2. now \in Nat /\ now' \in Nat /\ events \subseteq Event
  BY <1>1, BoundsAssumption DEF TypeInv, ClockType, Times, QueueInv, QueueOK
<1>3. \A e \in Event : e.time \in Nat /\ e.due \in Nat
  BY BoundsAssumption DEF Event, Times
<1>4. \A u \in Threads : prev[u] \in Nat /\ next[u] \in Nat
  BY <1>1, BoundsAssumption DEF TypeInv, LocalType, Times
<1>5. ASSUME now' = now, UNCHANGED prev,
             UNCHANGED events \/ \E u \in Times, c \in {NoComponent} : PushEvent(u, c, FALSE),
             \A u \in Threads : InStep(u)' => InStep(u)
      PROVE  ClockInv'
  <2>1. \A e \in events' : e.time <= e.due /\ now <= e.due
    BY <1>5, DuePush DEF ClockInv
  <2> QED
    BY <1>1, <1>5, <2>1 DEF ClockInv
<1>6. CASE Enter(t)
  <2>1. \A u \in Threads : InStep(u)' => InStep(u)
    BY <1>1, <1>6 DEF Enter, EnterSettle, InStep, TypeInv, MutexInv, LocalType
  <2> QED
    BY <1>5, <1>6, <2>1 DEF Enter, queueVars, stepVars
<1>7. CASE Settle(t)
  <2>1. \A u \in Threads : InStep(u)' => InStep(u)
    BY <1>1, <1>7 DEF Settle, LeaveSettle, InStep, TypeInv, MutexInv, LocalType
  <2> QED
    BY <1>5, <1>7, <2>1 DEF Settle, queueVars, stepVars
<1>8. ASSUME NEW again \in BOOLEAN, NEW more \in SUBSET Components, Solve(t, again, more)
      PROVE  ClockInv'
  <2>1. \A u \in Threads : InStep(u)' => InStep(u)
    BY <1>1, <1>8 DEF Solve, LeaveSettle, InStep, TypeInv, MutexInv, LocalType, settleVars
  <2>2. UNCHANGED events \/ \E u \in Times, c \in {NoComponent} : PushEvent(u, c, FALSE)
    <3>1. now..MaxTime \subseteq Times
      BY <1>2 DEF Times
    <3> QED
      BY <1>8, <3>1 DEF Solve, queueVars
  <2> QED
    BY <1>5, <1>8, <2>1, <2>2 DEF Solve, stepVars
<1>9. CASE Relock(t)
  <2>1. \A u \in Threads : InStep(u)' => InStep(u)
    BY <1>1, <1>9 DEF Relock, InStep, TypeInv, MutexInv, LocalType, settleVars
  <2> QED
    BY <1>5, <1>9, <2>1 DEF Relock, queueVars, stepVars
<1>10. CASE Stable(t)
  <2>1. \A u \in Threads : InStep(u)' => InStep(u)
    BY <1>1, <1>10 DEF Stable, InStep, TypeInv, MutexInv, LocalType, settleVars
  <2> QED
    BY <1>5, <1>10, <2>1 DEF Stable, queueVars, stepVars
<1>11. CASE CallbackReturns(t)
  <2>1. \A u \in Threads : InStep(u)' => InStep(u)
    BY <1>1, <1>11 DEF CallbackReturns, InStep, TypeInv, MutexInv, LocalType, settleVars
  <2> QED
    BY <1>5, <1>11, <2>1 DEF CallbackReturns, queueVars, stepVars
<1>12. CASE EventsDone(t)
  <2>1. \A u \in Threads : InStep(u)' => InStep(u)
    BY <1>1, <1>12 DEF EventsDone, EnterSettle, InStep, TypeInv, MutexInv, LocalType
  <2> QED
    BY <1>5, <1>12, <2>1 DEF EventsDone, queueVars, stepVars
<1>13. CASE Loop(t)
  <2>1. CASE now < target[t] /\ ~Interrupted
    <3> DEFINE n == NextTime(target[t])
    <3>1. /\ now <= n
          /\ \A e \in events : n <= MaxOf(e.time, now)
      BY <1>1, <2>1, NextTimeBounds DEF TypeInv, LocalType
    <3>2. now' = n /\ events' = events /\ prev' = [prev EXCEPT ![t] = now]
          /\ pc' = [pc EXCEPT ![t] = "events"] /\ after' = after
      BY <1>1, <1>13, <2>1, <1>2, BoundsAssumption
      DEF Loop, queueVars, settleVars, TypeInv, LocalType, Times
    <3>3. \A e \in events : n <= e.due
      BY <1>2, <1>3, <3>1, <3>2 DEF ClockInv, MaxOf
    <3>4. ASSUME NEW u \in Threads, InStep(u)' PROVE prev'[u] <= now'
      <4>1. CASE u = t
        BY <1>1, <3>1, <3>2, <4>1 DEF TypeInv, LocalType
      <4>2. CASE u # t
        <5>1. InStep(u)
          BY <1>1, <3>2, <3>4, <4>2 DEF InStep, TypeInv, MutexInv
        <5>2. prev'[u] = prev[u] /\ prev[u] <= now
          BY <1>1, <3>2, <4>2, <5>1 DEF ClockInv, TypeInv, LocalType
        <5> QED
          BY <1>2, <1>4, <3>1, <3>2, <5>2
      <4> QED
        BY <4>1, <4>2
    <3> QED
      BY <1>1, <3>2, <3>3, <3>4 DEF ClockInv
  <2>2. CASE ~(now < target[t] /\ ~Interrupted)
    <3>1. Return(t) /\ now' = now /\ events' = events
      BY <1>13, <2>2 DEF Loop, queueVars
    <3>2. ASSUME NEW u \in Threads, InStep(u)' PROVE prev'[u] <= now'
      <4>1. u # t /\ InStep(u)
        BY <1>1, <3>1, <3>2 DEF Return, InStep, TypeInv, MutexInv, LocalType
      <4> QED
        BY <1>1, <3>1, <4>1 DEF Return, ClockInv, TypeInv, LocalType
    <3> QED
      BY <1>1, <3>1, <3>2 DEF ClockInv
  <2> QED
    BY <2>1, <2>2
<1>14. ASSUME NEW e \in events, FireEvent(t, e) PROVE ClockInv'
  <2>1. now' = MaxOf(now, e.time) /\ events' = events \ {e} /\ prev' = prev
        /\ after' = after /\ IsTop(e, events)
    BY <1>14 DEF FireEvent, PopEvent, stepVars, settleVars
  <2>2. now <= now'
    BY <1>2, <1>3, <2>1 DEF MaxOf
  <2>3. ASSUME NEW o \in events' PROVE o.time <= o.due /\ now' <= o.due
    <3>1. o \in events /\ e.time <= o.time /\ o.time <= o.due /\ now <= o.due
      BY <1>2, <1>3, <2>1 DEF IsTop, Before, ClockInv
    <3> QED
      BY <1>2, <1>3, <2>1, <3>1 DEF MaxOf
  <2>4. \A u \in Threads : InStep(u)' => InStep(u)
    BY <1>1, <1>14, <2>1 DEF FireEvent, InStep, TypeInv, MutexInv
  <2> QED
    BY <1>1, <1>2, <1>4, <2>1, <2>2, <2>3, <2>4 DEF ClockInv
<1>15. ASSUME NEW good \in BOOLEAN, NEW outputs \in SUBSET Components,
              Commit(t, good, outputs)
       PROVE  ClockInv'
  <2>1. events' = events /\ prev' = prev /\ pc[t] = "commit"
    BY <1>15 DEF Commit, queueVars, stepVars
  <2>2. CASE Rejected(t)
    <3>1. now' = prev[t] /\ pc' = [pc EXCEPT ![t] = "loop"] /\ after' = after
      BY <2>2 DEF Rejected, settleVars
    <3>2. CASE ~Accepts(t, good)
      <4>1. OneRunner
        BY <3>2 DEF Accepts
      <4>2. now' <= now
        BY <2>1, <3>1 DEF ClockInv, InStep
      <4>3. ASSUME NEW u \in Threads, InStep(u)' PROVE FALSE
        BY <1>1, <3>1, <4>1, <4>3 DEF OneRunner, InStep, TypeInv, MutexInv
      <4> QED
        BY <1>1, <1>2, <1>3, <2>1, <4>2, <4>3 DEF ClockInv
    <3>3. CASE Accepts(t, good)
      <4>1. now' = now
        BY <1>15, <3>3 DEF Commit, Accepted
      <4>2. \A u \in Threads : InStep(u)' => InStep(u)
        BY <1>1, <3>1 DEF InStep, TypeInv, MutexInv
      <4> QED
        BY <1>5, <2>1, <4>1, <4>2
    <3> QED
      BY <3>2, <3>3
  <2>3. CASE now' = now /\ \E d \in SUBSET Components : EnterSettle(t, "stable", d)
    <3>1. \A u \in Threads : InStep(u)' => InStep(u)
      BY <1>1, <2>3 DEF EnterSettle, InStep, TypeInv, MutexInv, LocalType
    <3> QED
      BY <1>5, <2>1, <2>3, <3>1
  <2> QED
    BY <1>15, <2>2, <2>3 DEF Commit, Accepted
<1> QED
  BY <1>6, <1>7, <1>8, <1>9, <1>10, <1>11, <1>12, <1>13, <1>14, <1>15 DEF Step
\* What the other threads do keeps the invariant too.
LEMMA ClockNext ==
    ASSUME ClockInv, ~Adaptive \/ OneRunner, [Next]_vars
    PROVE  ClockInv'
<1>1. TypeInv /\ TypeInv'
  <2>1. CASE Next
    BY <2>1, TypeNext DEF ClockInv
  <2>2. CASE UNCHANGED vars
    BY <2>2, TypeNext DEF ClockInv
  <2> QED
    BY <2>1, <2>2
<1>2. ASSUME now' = now, UNCHANGED <<events, prev>>,
             \A t \in Threads : InStep(t)' => InStep(t)
      PROVE  ClockInv'
  BY <1>1, <1>2 DEF ClockInv
<1>3. ASSUME UNCHANGED <<now, events, prev, pc, after>> PROVE ClockInv'
  <2>1. \A t \in Threads : InStep(t)' => InStep(t)
    BY <1>3 DEF InStep
  <2> QED
    BY <1>2, <1>3, <2>1
<1>4. ASSUME NEW t \in Threads, Step(t) PROVE ClockInv'
  BY <1>4, ClockStep
<1>5. ASSUME NEW t \in Threads, NEW to, CallRunUntil(t, to) PROVE ClockInv'
  <2>1. \A u \in Threads : InStep(u)' => InStep(u)
    BY <1>1, <1>5 DEF CallRunUntil, InStep, settleVars, TypeInv, MutexInv
  <2> QED
    BY <1>2, <1>5, <2>1 DEF CallRunUntil, queueVars
<1>6. ASSUME NEW u \in Times, NEW c, NEW soft, ScheduleAt(u, c, soft)
      PROVE  ClockInv'
  <2>1. \A e \in events' : e.time <= e.due /\ now <= e.due
    BY <1>6, DuePush DEF ScheduleAt
  <2>2. UNCHANGED <<now, prev, pc, after>>
    BY <1>6 DEF ScheduleAt, stepVars, settleVars
  <2>3. \A t \in Threads : InStep(t)' => InStep(t)
    BY <2>2 DEF InStep
  <2> QED
    BY <1>1, <2>1, <2>2, <2>3 DEF ClockInv
<1>7. ASSUME NEW c \in Components, MarkDirty(c) PROVE ClockInv'
  BY <1>3, <1>7 DEF MarkDirty, queueVars, stepVars, settleVars
<1>8. CASE Pause \/ Resume \/ RequestStop \/ StopReturns
  BY <1>3, <1>8 DEF Pause, Resume, RequestStop, StopReturns, queueVars,
                    stepVars, settleVars
<1>9. CASE Reset
  <2>1. events' = {} /\ \A t \in Threads : ~InStep(t)'
    BY <1>9 DEF Reset, InStep
  <2> QED
    BY <1>1, <2>1 DEF ClockInv
<1>10. CASE UNCHANGED vars
  BY <1>3, <1>10 DEF vars, queueVars, stepVars, settleVars
<1>11. CASE Next
  <2>1. CASE \E t \in Threads : Step(t)
    BY <2>1, <1>4
  <2>2. CASE \E t \in Threads, to \in Times : RunUntil(t, to)
    BY <2>2, <1>5 DEF RunUntil
  <2>3. CASE \E t \in Threads : StepZero(t)
    BY <2>3, <1>5 DEF StepZero
  <2>4. CASE \E t \in Times, soft \in BOOLEAN : ScheduleAt(t, NoComponent, soft)
    BY <2>4, <1>6
  <2>5. CASE \E t \in Times, c \in Components : ScheduleAt(t, c, FALSE)
    BY <2>5, <1>6
  <2>6. CASE \E c \in Components : MarkDirty(c)
    BY <2>6, <1>7
  <2> QED
    BY <1>8, <1>9, <1>11, <2>1, <2>2, <2>3, <2>4, <2>5, <2>6 DEF Next
<1> QED
  BY <1>10, <1>11

\* The clock of Scheduler::runUntil never passes a queued event, for every step
\* size, target and number of events: with fixed steps whatever number of threads
\* calls runUntil, with adaptive steps if only one does.
THEOREM EventsAreNotSkipped ==
    ASSUME ~Adaptive \/ OneRunner
    PROVE  Spec => []NoEventSkipped
<1>1. Init => ClockInv
  <2>1. Init => TypeInv
    BY TypeInit
  <2>2. Init => \A t \in Threads : ~InStep(t)
    BY DEF Init, InStep
  <2> QED
    BY <2>1, <2>2 DEF Init, ClockInv
<1>2. ClockInv /\ [Next]_vars => ClockInv'
  BY ClockNext
<1>3. ClockInv => NoEventSkipped
  BY DEF ClockInv, NoEventSkipped
<1> QED
  BY <1>1, <1>2, <1>3, PTL DEF Spec
-----------------------------------------------------------------------------
\* What is committed, with one thread that runs the simulation.

\* A step begins at the committed instant, and the clock is at its end; outside a
\* step the clock is the committed instant.  A step of some duration that does not
\* end on an event has processed none.
StepInv ==
    /\ \A t \in Threads : InStep(t) =>
          prev[t] = committed /\ now = next[t] /\ prev[t] <= next[t]
    /\ \A t \in Threads : ~InStep(t) => now = committed
    /\ \A t \in Threads : pc[t] = "callback" => fired
    /\ \A t \in Threads : InStep(t) /\ prev[t] < next[t] /\ ~boundary[t] =>
          ~fired /\ (pc[t] = "events" => next[t] < TopTime(events))

\* The clock goes back to the committed instant, and over no event.
CleanStep == now' < now => now' = committed' /\ (~fired \/ events' = {})

\* A commit begins where the last one ended.
ContiguousStep ==
    committed' # committed =>
       \/ now' = 0 /\ events' = {}
       \/ committed' > committed /\ \E t \in Threads : prev[t] = committed

\* Every step of the thread that runs the simulation.
LEMMA CommitStep ==
    ASSUME TypeInv, TypeInv', OneRunner, StepInv, NEW t \in Threads, Step(t)
    PROVE  StepInv' /\ CleanStep /\ ContiguousStep
<1>1. \A u \in Threads : u = t
  BY DEF OneRunner
<1>2. now \in Nat /\ committed \in Nat /\ prev[t] \in Nat /\ next[t] \in Nat
  BY BoundsAssumption DEF TypeInv, ClockType, LocalType, Times
<1>3. events \subseteq Event /\ MaxTime \in Nat
  BY BoundsAssumption DEF TypeInv, QueueInv, QueueOK
<1>4. TopTime(events) \in Nat
  BY <1>3, TopTimeLeast DEF Never
<1>5. ASSUME UNCHANGED <<now, committed, fired, prev, next, boundary>>,
             InStep(t)' <=> InStep(t),
             pc'[t] = "callback" => pc[t] = "callback",
             pc'[t] = "events" => pc[t] = "callback"
      PROVE  StepInv' /\ CleanStep /\ ContiguousStep
  <2>1. StepInv'
    BY <1>1, <1>5 DEF StepInv, InStep
  <2> QED
    BY <1>2, <1>5, <2>1 DEF CleanStep, ContiguousStep
<1>6. CASE Enter(t)
  <2>1. InStep(t)' <=> InStep(t)
    BY <1>6 DEF Enter, EnterSettle, InStep, TypeInv, MutexInv, LocalType
  <2>2. pc'[t] = "settle"
    BY <1>6 DEF Enter, EnterSettle, TypeInv, MutexInv
  <2> QED
    BY <1>5, <1>6, <2>1, <2>2 DEF Enter, stepVars, ghostVars
<1>7. CASE Settle(t)
  <2>1. pc'[t] \in {"solve", after[t]} /\ after' = after /\ pc[t] = "settle"
    BY <1>7 DEF Settle, LeaveSettle, TypeInv, MutexInv
  <2>2. after[t] \in {"initial", "commit", "stable", "loop"}
    BY DEF TypeInv, LocalType
  <2>3. InStep(t)' <=> InStep(t)
    BY <2>1, <2>2 DEF InStep
  <2> QED
    BY <1>5, <1>7, <2>1, <2>2, <2>3 DEF Settle, stepVars, ghostVars
<1>8. ASSUME NEW again \in BOOLEAN, NEW more \in SUBSET Components, Solve(t, again, more)
      PROVE  StepInv' /\ CleanStep /\ ContiguousStep
  <2>1. pc'[t] \in {"yield", after[t]} /\ after' = after /\ pc[t] = "solve"
    BY <1>8 DEF Solve, LeaveSettle, TypeInv, MutexInv, settleVars
  <2>2. after[t] \in {"initial", "commit", "stable", "loop"}
    BY DEF TypeInv, LocalType
  <2>3. InStep(t)' <=> InStep(t)
    BY <2>1, <2>2 DEF InStep
  <2> QED
    BY <1>5, <1>8, <2>1, <2>2, <2>3 DEF Solve, stepVars, ghostVars
<1>9. CASE Relock(t) \/ Stable(t) \/ CallbackReturns(t)
  <2>1. after' = after /\ \/ pc[t] = "yield" /\ pc'[t] = "settle"
                          \/ pc[t] \in {"initial", "stable"} /\ pc'[t] = "loop"
                          \/ pc[t] = "callback" /\ pc'[t] = "events"
    BY <1>9 DEF Relock, Stable, CallbackReturns, TypeInv, MutexInv, settleVars
  <2>2. InStep(t)' <=> InStep(t)
    BY <2>1 DEF InStep
  <2> QED
    BY <1>5, <1>9, <2>1, <2>2 DEF Relock, Stable, CallbackReturns, stepVars, ghostVars
<1>10. CASE EventsDone(t)
  <2>1. pc[t] = "events" /\ pc'[t] = "settle" /\ after'[t] = "commit"
    BY <1>10 DEF EventsDone, EnterSettle, TypeInv, MutexInv, LocalType
  <2>2. InStep(t)' <=> InStep(t)
    BY <2>1 DEF InStep
  <2> QED
    BY <1>5, <1>10, <2>1, <2>2 DEF EventsDone, stepVars, ghostVars
<1>11. CASE Loop(t)
  <2>1. ~InStep(t) /\ now = committed /\ committed' = committed
    BY <1>11 DEF Loop, InStep, StepInv
  <2>2. CASE now < target[t] /\ ~Interrupted
    <3> DEFINE n == NextTime(target[t])
    <3>1. now <= n /\ n \in Nat /\ (now < n => n <= TopTime(events))
      BY <2>2, NextTimeBounds, <1>3 DEF TypeInv, LocalType, Times
    <3>2. /\ now' = n /\ events' = events /\ fired' = FALSE
          /\ prev' = [prev EXCEPT ![t] = now] /\ next' = [next EXCEPT ![t] = n]
          /\ boundary' = [boundary EXCEPT ![t] = (TopTime(events) = n)]
          /\ pc' = [pc EXCEPT ![t] = "events"]
      BY <1>2, <1>3, <1>11, <2>2 DEF Loop, queueVars, TypeInv, LocalType, Times
    <3>3. /\ prev'[t] = now /\ next'[t] = n /\ pc'[t] = "events"
          /\ boundary'[t] = (TopTime(events) = n)
      BY <3>2 DEF TypeInv, LocalType, MutexInv
    <3>4. InStep(t)'
      BY <3>3 DEF InStep
    <3> HIDE DEF n
    <3>5. now < n /\ TopTime(events) # n => n < TopTime(events)
      BY <1>2, <1>4, <3>1
    <3>6. StepInv'
      BY <1>1, <2>1, <3>1, <3>2, <3>3, <3>4, <3>5 DEF StepInv
    <3> QED
      BY <1>2, <2>1, <3>1, <3>2, <3>6 DEF CleanStep, ContiguousStep
  <2>3. CASE ~(now < target[t] /\ ~Interrupted)
    <3>1. Return(t) /\ now' = now
      BY <1>11, <2>3 DEF Loop
    <3>2. pc'[t] = "out"
      BY <3>1 DEF Return, TypeInv, MutexInv
    <3>3. ~InStep(t)'
      BY <3>2 DEF InStep
    <3> QED
      BY <1>1, <1>2, <2>1, <3>1, <3>2, <3>3 DEF StepInv, CleanStep, ContiguousStep
  <2> QED
    BY <2>2, <2>3
<1>12. ASSUME NEW e \in events, FireEvent(t, e)
       PROVE  StepInv' /\ CleanStep /\ ContiguousStep
  <2>1. /\ UNCHANGED <<committed, prev, next, boundary>> /\ fired' = TRUE
        /\ pc[t] = "events" /\ pc'[t] \in {"events", "callback"}
        /\ now' = MaxOf(now, e.time) /\ e.time <= next[t]
    BY <1>12 DEF FireEvent, stepVars, TypeInv, MutexInv
  <2>2. InStep(t) /\ InStep(t)'
    BY <2>1 DEF InStep
  <2>3. e.time \in Nat /\ TopTime(events) <= e.time
    BY <1>3, TopTimeLeast DEF Event, Times
  <2>4. now = next[t] /\ prev[t] = committed /\ prev[t] <= next[t]
    BY <2>2 DEF StepInv
  <2>5. now' = now
    BY <1>2, <2>1, <2>3, <2>4 DEF MaxOf
  <2>6. ~(next[t] < TopTime(events))
    BY <1>2, <1>4, <2>1, <2>3
  <2>7. ~(prev[t] < next[t] /\ ~boundary[t])
    BY <2>1, <2>2, <2>6 DEF StepInv
  <2>8. StepInv'
    BY <1>1, <2>1, <2>2, <2>4, <2>5, <2>7 DEF StepInv
  <2> QED
    BY <1>2, <2>1, <2>5, <2>8 DEF CleanStep, ContiguousStep
<1>13. ASSUME NEW good \in BOOLEAN, NEW outputs \in SUBSET Components,
              Commit(t, good, outputs)
       PROVE  StepInv' /\ CleanStep /\ ContiguousStep
  <2>1. UNCHANGED <<events, prev, next, boundary, fired>> /\ pc[t] = "commit"
    BY <1>13 DEF Commit, queueVars, stepVars
  <2>2. InStep(t) /\ prev[t] = committed /\ now = next[t] /\ prev[t] <= next[t]
    BY <2>1 DEF InStep, StepInv
  <2>3. ASSUME NEW d, EnterSettle(t, "stable", d) PROVE ~InStep(t)' /\ pc'[t] = "settle"
    BY <2>3 DEF EnterSettle, InStep, TypeInv, MutexInv, LocalType
  <2>4. CASE Attempted(t) <= 0
    <3>1. now' = now /\ committed' = committed /\ EnterSettle(t, "stable", {})
      BY <1>13, <1>2, <2>4 DEF Commit, Attempted
    <3>2. now = committed
      BY <1>2, <2>2, <2>4 DEF Attempted
    <3> QED
      BY <1>1, <1>2, <2>3, <3>1, <3>2 DEF StepInv, CleanStep, ContiguousStep
  <2>5. CASE Attempted(t) > 0 /\ Accepts(t, good)
    <3>1. now' = now /\ committed' = next[t] /\ EnterSettle(t, "stable", outputs)
      BY <1>13, <1>2, <2>5 DEF Commit, Accepted, Attempted
    <3>2. committed' > committed
      BY <1>2, <2>2, <2>5, <3>1 DEF Attempted
    <3> QED
      BY <1>1, <1>2, <2>2, <2>3, <3>1, <3>2 DEF StepInv, CleanStep, ContiguousStep
  <2>6. CASE Attempted(t) > 0 /\ ~Accepts(t, good)
    <3>1. now' = prev[t] /\ committed' = committed /\ pc'[t] = "loop"
      BY <1>13, <1>2, <2>6 DEF Commit, Rejected, Attempted, TypeInv, MutexInv
    <3>2. ~InStep(t)'
      BY <3>1 DEF InStep
    <3>3. prev[t] < next[t] /\ ~boundary[t]
      BY <1>2, <2>6 DEF Attempted, Accepts
    <3>4. ~fired
      BY <2>2, <3>3 DEF StepInv
    <3> QED
      BY <1>1, <1>2, <2>2, <3>1, <3>2, <3>4 DEF StepInv, CleanStep, ContiguousStep
  <2>7. Attempted(t) \in Int
    BY <1>2 DEF Attempted
  <2> QED
    BY <2>4, <2>5, <2>6, <2>7
<1> QED
  BY <1>6, <1>7, <1>8, <1>9, <1>10, <1>11, <1>12, <1>13 DEF Step

\* Every step of the system.
LEMMA CommitNext ==
    ASSUME TypeInv, TypeInv', OneRunner, StepInv, [Next]_vars
    PROVE  StepInv' /\ CleanStep /\ ContiguousStep
<1>1. now \in Nat /\ committed \in Nat
  BY BoundsAssumption DEF TypeInv, ClockType, Times
<1>2. ASSUME NEW t \in Threads, Step(t)
      PROVE  StepInv' /\ CleanStep /\ ContiguousStep
  BY <1>2, CommitStep
<1>3. ASSUME UNCHANGED <<now, committed, fired, prev, next, boundary, after>>,
             \A t \in Threads : InStep(t)' <=> InStep(t),
             \A t \in Threads : pc'[t] = "callback" => pc[t] = "callback",
             \A t \in Threads : pc'[t] = "events" => pc[t] = "events" /\ UNCHANGED events
      PROVE  StepInv' /\ CleanStep /\ ContiguousStep
  <2>1. StepInv'
    BY <1>3 DEF StepInv
  <2> QED
    BY <1>1, <1>3, <2>1 DEF CleanStep, ContiguousStep
<1>4. ASSUME UNCHANGED <<now, committed, fired, prev, next, boundary, after, pc, events>>
      PROVE  StepInv' /\ CleanStep /\ ContiguousStep
  <2>1. \A t \in Threads : InStep(t)' <=> InStep(t)
    BY <1>4 DEF InStep
  <2> QED
    BY <1>3, <1>4, <2>1
<1>5. ASSUME NEW t \in Threads, NEW to, CallRunUntil(t, to)
      PROVE  StepInv' /\ CleanStep /\ ContiguousStep
  <2>1. \A u \in Threads : InStep(u)' <=> InStep(u)
    BY <1>5 DEF CallRunUntil, InStep, settleVars, TypeInv, MutexInv
  <2>2. \A u \in Threads : pc'[u] \in {"callback", "events"} => pc'[u] = pc[u]
    BY <1>5 DEF CallRunUntil, TypeInv, MutexInv
  <2> QED
    BY <1>3, <1>5, <2>1, <2>2 DEF CallRunUntil, queueVars, settleVars, ghostVars
<1>6. ASSUME NEW u, NEW c, NEW soft, ScheduleAt(u, c, soft)
      PROVE  StepInv' /\ CleanStep /\ ContiguousStep
  <2>1. UNCHANGED <<now, committed, fired, prev, next, boundary, after, pc>>
    BY <1>6 DEF ScheduleAt, stepVars, settleVars, ghostVars
  <2>2. \A t \in Threads : InStep(t)' <=> InStep(t)
    BY <2>1 DEF InStep
  <2>3. \A t \in Threads : pc[t] # "events"
    BY <1>6, ThreadsAssumption DEF ScheduleAt, TypeInv, MutexInv, Unlocked
  <2> QED
    BY <1>3, <2>1, <2>2, <2>3
<1>7. ASSUME NEW c, MarkDirty(c)
      PROVE  StepInv' /\ CleanStep /\ ContiguousStep
  BY <1>4, <1>7 DEF MarkDirty, queueVars, stepVars, settleVars, ghostVars
<1>8. CASE Pause \/ Resume \/ RequestStop \/ StopReturns
  BY <1>4, <1>8 DEF Pause, Resume, RequestStop, StopReturns, queueVars,
                    stepVars, settleVars, ghostVars
<1>9. CASE Reset
  <2>1. /\ now' = 0 /\ committed' = 0 /\ events' = {}
        /\ \A t \in Threads : pc'[t] = "out" /\ ~InStep(t)'
    BY <1>9 DEF Reset, InStep
  <2> QED
    BY <2>1 DEF StepInv, CleanStep, ContiguousStep
<1>10. CASE UNCHANGED vars
  BY <1>4, <1>10 DEF vars, queueVars, stepVars, settleVars, ghostVars
<1>11. CASE Next
  <2>1. CASE \E t \in Threads : Step(t)
    BY <2>1, <1>2
  <2>2. CASE \E t \in Threads, to \in Times : RunUntil(t, to)
    BY <2>2, <1>5 DEF RunUntil
  <2>3. CASE \E t \in Threads : StepZero(t)
    BY <2>3, <1>5 DEF StepZero
  <2>4. CASE \E t \in Times, soft \in BOOLEAN : ScheduleAt(t, NoComponent, soft)
    BY <2>4, <1>6
  <2>5. CASE \E t \in Times, c \in Components : ScheduleAt(t, c, FALSE)
    BY <2>5, <1>6
  <2>6. CASE \E c \in Components : MarkDirty(c)
    BY <2>6, <1>7
  <2> QED
    BY <1>8, <1>9, <1>11, <2>1, <2>2, <2>3, <2>4, <2>5, <2>6 DEF Next
<1> QED
  BY <1>10, <1>11

\* With one thread that runs the simulation both invariants hold throughout.
LEMMA CommitInvariant ==
    ASSUME OneRunner
    PROVE  Spec => [](TypeInv /\ StepInv)
<1>1. Init => TypeInv /\ StepInv
  <2>1. Init => TypeInv
    BY TypeInit
  <2>2. Init => \A t \in Threads : ~InStep(t) /\ pc[t] = "out"
    BY DEF Init, InStep
  <2> QED
    BY <2>1, <2>2 DEF Init, StepInv
<1>2. TypeInv /\ [Next]_vars => TypeInv'
  BY TypeNext
<1>3. TypeInv /\ TypeInv' /\ StepInv /\ [Next]_vars => StepInv'
  BY CommitNext
<1> QED
  BY <1>1, <1>2, <1>3, PTL DEF Spec

\* With one thread that runs the simulation, fixed or adaptive steps, runUntil
\* publishes the stable step for committed instants only.
THEOREM OnlyCommittedTimeIsPublished ==
    ASSUME OneRunner
    PROVE  Spec => []PublishedIsCommitted
<1>1. StepInv => PublishedIsCommitted
  BY DEF StepInv, InStep, PublishedIsCommitted, Publishes
<1> QED
  BY <1>1, CommitInvariant, PTL

\* With one thread that runs the simulation, a rejected step of runUntil takes the
\* clock back to the committed instant and over no processed event.
THEOREM RejectionsUndoNoEvent ==
    ASSUME OneRunner
    PROVE  Spec => RollbackIsClean
<1>1. TypeInv /\ TypeInv' /\ StepInv /\ [Next]_vars =>
        [now' < now => /\ now' = committed'
                       /\ ~fired \/ events' = {}]_vars
  BY CommitNext DEF CleanStep
<1> QED
  BY <1>1, CommitInvariant, PTL DEF Spec, RollbackIsClean

\* With one thread that runs the simulation, the committed steps that runUntil
\* reports (an FPGA's ADVANCE_TO) follow each other without gap or overlap.
THEOREM CommitsLeaveNoGap ==
    ASSUME OneRunner
    PROVE  Spec => CommitsAreContiguous
<1>1. TypeInv /\ TypeInv' /\ StepInv /\ [Next]_vars =>
        [committed' # committed =>
            \/ now' = 0 /\ events' = {}
            \/ /\ committed' > committed
               /\ \E t \in Threads : prev[t] = committed]_vars
  BY CommitNext DEF ContiguousStep
<1> QED
  BY <1>1, CommitInvariant, PTL DEF Spec, CommitsAreContiguous
=============================================================================
