------------------------- MODULE NotificationQueue -------------------------
(***************************************************************************)
(* The bounded outgoing queue of the Core's IPC server                      *)
(* (core/src/ipc/NotificationQueue.cpp).                                    *)
(*                                                                         *)
(* Two lanes share one byte budget: reliable control messages (FIFO, never  *)
(* discarded) and lossy telemetry (one frame per stream key, the oldest     *)
(* frames evicted first).  One mutex guards all of it, so every critical    *)
(* section is one action.  One condition variable, m_wake, serves blocked   *)
(* producers and the consumer alike: `asleep' is its wait set, a thread is  *)
(* taken out of it by notify_one, notify_all or a spurious wake-up and then *)
(* re-evaluates its predicate in an action of its own.                      *)
(***************************************************************************)
EXTENDS Integers, Sequences, FiniteSets

CONSTANTS
    Producers,      \* threads that call pushControl
    Consumer,       \* the thread that calls waitPop
    Keys,           \* telemetry stream keys
    None,           \* no message
    ControlSizes,   \* serialized sizes offered to pushControl, in bytes
    FrameSizes,     \* FrameSizes[k]: sizes of the frames of key k, in bytes
    Capacity,       \* m_capacityBytes
    MaxOffers       \* bound: number of messages offered in a behaviour

ASSUME CapacityAssumption == Capacity \in Nat \ {0}
ASSUME SizesAssumption ==
    /\ ControlSizes \subseteq Nat \ {0}
    /\ \A k \in Keys : FrameSizes[k] \subseteq Nat \ {0}
ASSUME MaxOffersAssumption == MaxOffers \in Nat
ASSUME ThreadsAssumption == Consumer \notin Producers
ASSUME KeysAssumption == None \notin Keys

VARIABLES
    control,        \* m_control
    telemetry,      \* m_telemetry
    bytes,          \* m_bytes
    stopped,        \* m_stopped
    stats,          \* the counters of NotificationQueue::Metrics
    asleep,         \* threads waiting on m_wake
    pending,        \* pending[p]: the message p is blocked on in pushControl
    consumer,       \* where the consumer is
    hand,           \* the message waitPop returned and the consumer holds
    \* Ghost state: it is never read by an action.
    nextId,         \* number of messages offered so far
    accepted,       \* control messages in the order pushControl accepted them
    delivered,      \* control messages the consumer has finished with
    latest,         \* latest[k]: id of the last frame offered for key k
    owed            \* telemetry the counters must account for

queueVars == <<control, telemetry, bytes, stopped, stats>>
threadVars == <<asleep, pending, consumer, hand>>
ghostVars == <<nextId, accepted, delivered, latest, owed>>
vars == <<queueVars, threadVars, ghostVars>>

Message == [id : Nat, key : Keys \cup {None}, size : Nat \ {0}]

ASSUME NoneAssumption == None \notin Message

Elements(s) == {s[i] : i \in 1..Len(s)}

\* The size of a set of messages: the number of bytes they are made of.
SizeOf(M) == Cardinality(UNION {{m} \X (1..m.size) : m \in M})

Counters == [maxDepth : Nat, coalesced : Nat, coalescedBytes : Nat,
             dropped : Nat, droppedBytes : Nat, rejected : Nat]

Depth(c, t) == Len(c) + Len(t)

MaxOf(a, b) == IF a >= b THEN a ELSE b

Init ==
    /\ control = <<>>
    /\ telemetry = <<>>
    /\ bytes = 0
    /\ stopped = FALSE
    /\ stats = [maxDepth |-> 0, coalesced |-> 0, coalescedBytes |-> 0,
                dropped |-> 0, droppedBytes |-> 0, rejected |-> 0]
    /\ asleep = {}
    /\ pending = [p \in Producers |-> None]
    /\ consumer = "loop"
    /\ hand = None
    /\ nextId = 0
    /\ accepted = <<>>
    /\ delivered = <<>>
    /\ latest = [k \in Keys |-> -1]
    /\ owed = [frames |-> 0, bytes |-> 0]

-----------------------------------------------------------------------------
\* Mutants: what the operators below would say if the code had a bug.  The
\* specification never uses them.
MutNoNotify == UNCHANGED asleep
MutNotifyOneOnPop ==
    \/ asleep = {} /\ asleep' = {}
    \/ \E t \in asleep : asleep' = asleep \ {t}
MutFitsOneMore(b, n) == b + n <= Capacity + 1
MutNeverExisting(i, key) == i = 0

\* m_wake.notify_one() and m_wake.notify_all().
NotifyOne ==
    \/ asleep = {} /\ asleep' = {}
    \/ \E t \in asleep : asleep' = asleep \ {t}

NotifyAll == asleep' = {}

\* The notifications the code sends: after a push, after a pop, after stop.
WakeAfterPush == NotifyOne
WakeAfterPop == NotifyAll
WakeAfterStop == NotifyAll

Fits(b, n) == b + n <= Capacity

\* The k oldest frames of a telemetry lane, and what is left without them.
Oldest(t, k) == SubSeq(t, 1, k)
Newest(t, k) == SubSeq(t, k + 1, Len(t))
Freed(t, k) == SizeOf(Elements(Oldest(t, k)))

\* The eviction loop: frames leave one by one, oldest first, until n more
\* bytes fit or the lane is empty.  k is the number of frames that leave.
Evicts(t, b, n, k) ==
    /\ k = Len(t) \/ Fits(b - Freed(t, k), n)
    /\ \A j \in 0..(k - 1) : ~Fits(b - Freed(t, j), n)

\* The counters after the k oldest frames of t were dropped.
DropCounted(st, t, k) ==
    [st EXCEPT !.dropped = @ + k, !.droppedBytes = @ + Freed(t, k)]

DepthCounted(st, c, t) ==
    [st EXCEPT !.maxDepth = MaxOf(@, Depth(c, t))]

\* Mutant: the message goes to the front of the lane.
MutAcceptAtFront(m, b, t, st) ==
    /\ bytes' = b + m.size
    /\ control' = <<m>> \o control
    /\ telemetry' = t
    /\ stats' = DepthCounted(st, control', t)
    /\ accepted' = Append(accepted, m)
    /\ WakeAfterPush

\* The end of a pushControl whose message fits: m joins the control lane.
AcceptControl(m, b, t, st) ==
    /\ bytes' = b + m.size
    /\ control' = Append(control, m)
    /\ telemetry' = t
    /\ stats' = DepthCounted(st, control', t)
    /\ accepted' = Append(accepted, m)
    /\ WakeAfterPush

\* A message larger than the whole budget is rejected at once.
RejectControl(p) ==
    /\ pending[p] = None
    /\ ~stopped
    /\ \E n \in ControlSizes : n > Capacity
    /\ nextId < MaxOffers
    /\ nextId' = nextId + 1
    /\ stats' = [stats EXCEPT !.rejected = @ + 1]
    /\ UNCHANGED <<control, telemetry, bytes, stopped, threadVars,
                   accepted, delivered, latest, owed>>

\* pushControl up to its return or to its first sleep: evict telemetry, then
\* enqueue if the message fits, else wait on m_wake.
PushControl(p, n) ==
    /\ pending[p] = None
    /\ ~stopped
    /\ n <= Capacity
    /\ nextId < MaxOffers
    /\ nextId' = nextId + 1
    /\ \E k \in 0..Len(telemetry) :
          LET m    == [id |-> nextId, key |-> None, size |-> n]
              b    == bytes - Freed(telemetry, k)
              left == Newest(telemetry, k)
              st   == DropCounted(stats, telemetry, k)
          IN  /\ Evicts(telemetry, bytes, n, k)
              /\ \/ /\ Fits(b, n)
                    /\ AcceptControl(m, b, left, st)
                    /\ UNCHANGED pending
                 \/ /\ ~Fits(b, n)
                    /\ bytes' = b
                    /\ telemetry' = left
                    /\ stats' = st
                    /\ pending' = [pending EXCEPT ![p] = m]
                    /\ asleep' = asleep \cup {p}
                    /\ UNCHANGED <<control, accepted>>
    /\ UNCHANGED <<stopped, consumer, hand, delivered, latest, owed>>

\* A woken producer re-evaluates the predicate of its wait: it returns false
\* after stop, enqueues if the message fits now, or goes back to sleep.  The
\* eviction loop is not run again.
ResumeControl(p) ==
    /\ pending[p] # None
    /\ p \notin asleep
    /\ \/ /\ stopped
          /\ pending' = [pending EXCEPT ![p] = None]
          /\ UNCHANGED <<control, telemetry, bytes, stats, asleep, accepted>>
       \/ /\ ~stopped
          /\ Fits(bytes, pending[p].size)
          /\ AcceptControl(pending[p], bytes, telemetry, stats)
          /\ pending' = [pending EXCEPT ![p] = None]
       \/ /\ ~stopped
          /\ ~Fits(bytes, pending[p].size)
          /\ asleep' = asleep \cup {p}
          /\ UNCHANGED <<control, telemetry, bytes, stats, pending, accepted>>
    /\ UNCHANGED <<stopped, consumer, hand, nextId, delivered, latest, owed>>

\* i is the place of the first queued frame of key, 0 if there is none.
IsExisting(i, key) ==
    /\ i # 0 => telemetry[i].key = key
    /\ \A j \in 1..Len(telemetry) :
          telemetry[j].key = key => i # 0 /\ i <= j

Without(t, i) ==
    IF i = 0 THEN t ELSE SubSeq(t, 1, i - 1) \o SubSeq(t, i + 1, Len(t))

\* Mutant: a replaced frame is counted as coalesced but not as dropped.
MutCoalesceOnly(i) ==
    IF i = 0 THEN stats
    ELSE [stats EXCEPT !.coalesced = @ + 1,
                       !.coalescedBytes = @ + telemetry[i].size]

\* The counters after the frame at i was replaced by a newer one.
CoalesceCounted(i) ==
    IF i = 0 THEN stats
    ELSE [stats EXCEPT !.coalesced = @ + 1,
                       !.coalescedBytes = @ + telemetry[i].size,
                       !.dropped = @ + 1,
                       !.droppedBytes = @ + telemetry[i].size]

\* pushTelemetry: the queued frame of the same key goes first, whatever
\* becomes of the new one; the new frame is dropped when it is larger than
\* the budget or when the control lane leaves no room for it.
PushTelemetry(key, n) ==
    /\ ~stopped
    /\ nextId < MaxOffers
    /\ nextId' = nextId + 1
    /\ latest' = [latest EXCEPT ![key] = nextId]
    /\ owed' = [frames |-> owed.frames + 1, bytes |-> owed.bytes + n]
    /\ \E i \in 0..Len(telemetry) :
          LET m    == [id |-> nextId, key |-> key, size |-> n]
              rest == Without(telemetry, i)
              b    == IF i = 0 THEN bytes ELSE bytes - telemetry[i].size
              st   == CoalesceCounted(i)
              lost(s) == [s EXCEPT !.dropped = @ + 1, !.droppedBytes = @ + n]
          IN  /\ IsExisting(i, key)
              /\ \/ /\ n > Capacity
                    /\ telemetry' = rest
                    /\ bytes' = b
                    /\ stats' = lost(st)
                    /\ UNCHANGED asleep
                 \/ /\ n <= Capacity
                    /\ \E k \in 0..Len(rest) :
                          LET b2   == b - Freed(rest, k)
                              left == Newest(rest, k)
                              st2  == DropCounted(st, rest, k)
                          IN  /\ Evicts(rest, b, n, k)
                              /\ \/ /\ ~Fits(b2, n)
                                    /\ telemetry' = left
                                    /\ bytes' = b2
                                    /\ stats' = lost(st2)
                                    /\ UNCHANGED asleep
                                 \/ /\ Fits(b2, n)
                                    /\ telemetry' = Append(left, m)
                                    /\ bytes' = b2 + n
                                    /\ stats' = DepthCounted(st2, control, telemetry')
                                    /\ WakeAfterPush
    /\ UNCHANGED <<control, stopped, pending, consumer, hand, accepted, delivered>>

\* waitPop: sleep while both lanes are empty, return nullopt after stop, else
\* take the head of the control lane or, if that is empty, of the telemetry.
WaitPop ==
    /\ consumer = "loop"
    /\ Consumer \notin asleep
    /\ \/ /\ stopped
          /\ consumer' = "done"
          /\ UNCHANGED <<control, telemetry, bytes, asleep, hand, owed>>
       \/ /\ ~stopped
          /\ control = <<>> /\ telemetry = <<>>
          /\ asleep' = asleep \cup {Consumer}
          /\ UNCHANGED <<control, telemetry, bytes, consumer, hand, owed>>
       \/ /\ ~stopped
          /\ control # <<>>
          /\ hand' = Head(control)
          /\ control' = Tail(control)
          /\ bytes' = bytes - Head(control).size
          /\ consumer' = "sending"
          /\ WakeAfterPop
          /\ UNCHANGED <<telemetry, owed>>
       \/ /\ ~stopped
          /\ control = <<>> /\ telemetry # <<>>
          /\ hand' = Head(telemetry)
          /\ telemetry' = Tail(telemetry)
          /\ bytes' = bytes - Head(telemetry).size
          /\ consumer' = "sending"
          /\ WakeAfterPop
          /\ owed' = [frames |-> owed.frames - 1,
                      bytes |-> owed.bytes - Head(telemetry).size]
          /\ UNCHANGED control
    /\ UNCHANGED <<stopped, stats, pending, nextId, accepted, delivered, latest>>

\* The consumer finishes with the message in its hand (IpcServer::sendLine)
\* and turns to waitPop again.
Deliver ==
    /\ consumer = "sending"
    /\ consumer' = "loop"
    /\ hand' = None
    /\ delivered' = IF hand.key = None THEN Append(delivered, hand) ELSE delivered
    /\ UNCHANGED <<queueVars, asleep, pending, nextId, accepted, latest, owed>>

Stop ==
    /\ stopped' = TRUE
    /\ control' = <<>>
    /\ telemetry' = <<>>
    /\ bytes' = 0
    /\ WakeAfterStop
    /\ UNCHANGED <<stats, pending, consumer, hand, ghostVars>>

ResetMetrics ==
    /\ stats' = [maxDepth |-> Depth(control, telemetry), coalesced |-> 0,
                 coalescedBytes |-> 0, dropped |-> 0, droppedBytes |-> 0,
                 rejected |-> 0]
    /\ owed' = [frames |-> Len(telemetry), bytes |-> SizeOf(Elements(telemetry))]
    /\ UNCHANGED <<control, telemetry, bytes, stopped, threadVars,
                   nextId, accepted, delivered, latest>>

\* std::condition_variable may wake a waiter without a notification.
SpuriousWake(t) ==
    /\ t \in asleep
    /\ asleep' = asleep \ {t}
    /\ UNCHANGED <<queueVars, pending, consumer, hand, ghostVars>>

Next ==
    \/ \E p \in Producers :
          \/ RejectControl(p)
          \/ \E n \in ControlSizes : PushControl(p, n)
          \/ ResumeControl(p)
    \/ \E key \in Keys : \E n \in FrameSizes[key] : PushTelemetry(key, n)
    \/ WaitPop
    \/ Deliver
    \/ Stop
    \/ ResetMetrics
    \/ \E t \in Producers \cup {Consumer} : SpuriousWake(t)

Spec == Init /\ [][Next]_vars

(***************************************************************************)
(* A thread that was woken runs: the predicate loop of each wait and the    *)
(* consumer's own loop never block outside m_wake.  Nothing is assumed of   *)
(* offers, of stop or of spurious wake-ups.                                 *)
(***************************************************************************)
Fairness ==
    /\ WF_vars(WaitPop)
    /\ WF_vars(Deliver)
    /\ \A p \in Producers : WF_vars(ResumeControl(p))

FairSpec == Spec /\ Fairness

-----------------------------------------------------------------------------
\* The type invariant: the shape of the lanes, counters and thread states.
TypeOK ==
    /\ control \in Seq(Message)
    /\ telemetry \in Seq(Message)
    /\ bytes \in Nat
    /\ stopped \in BOOLEAN
    /\ stats \in Counters
    /\ asleep \subseteq Producers \cup {Consumer}
    /\ pending \in [Producers -> Message \cup {None}]
    /\ consumer \in {"loop", "sending", "done"}
    /\ hand \in Message \cup {None}
    /\ consumer = "sending" <=> hand # None
    /\ nextId \in Nat
    /\ accepted \in Seq(Message)
    /\ delivered \in Seq(Message)
    /\ latest \in [Keys -> Nat \cup {-1}]
    /\ owed \in [frames : Int, bytes : Int]

\* The memory bound: m_bytes is exactly the size of what both lanes hold, over
\* every push, eviction, coalescing, pop and stop, and never exceeds the
\* capacity (so the unsigned subtractions never wrap).
BytesAccounted ==
    /\ bytes = SizeOf(Elements(control) \cup Elements(telemetry))
    /\ bytes <= Capacity

\* One condition variable for everybody and a notify_one in each push, yet no
\* wake-up is lost: the consumer sleeps only while both lanes are empty, and a
\* producer only while there is a message left whose pop will notify everybody.
\* They never sleep together, so no producer can take a notify_one that the
\* consumer needs.  (It holds unless a frame larger than the budget
\* replaces one that is queued.)
NoLostWakeup ==
    /\ stopped => asleep = {}
    /\ Consumer \in asleep => control = <<>> /\ telemetry = <<>>
    /\ Producers \cap asleep # {} => control # <<>> \/ telemetry # <<>>

InHand == IF hand # None /\ hand.key = None THEN <<hand>> ELSE <<>>

\* Reliable lane: until stop, the control messages accepted are exactly those
\* delivered, the one in the consumer's hand and those queued, in this order;
\* after stop what was delivered is still a prefix of what was accepted.
ControlFifo ==
    LET out == delivered \o InHand
    IN  IF stopped THEN out = SubSeq(accepted, 1, Len(out))
        ELSE accepted = out \o control

\* Telemetry is replaceable, never stale: a queued frame is the last one
\* offered for its key, even if that offer was meanwhile followed by evictions.
FreshTelemetry ==
    \A i \in 1..Len(telemetry) : telemetry[i].id = latest[telemetry[i].key]

\* Every frame offered since the last resetMetrics and every frame queued at
\* that time is queued, was popped, or is counted as dropped exactly once, in
\* frames and in bytes.
TelemetryAccounted ==
    ~stopped =>
        /\ owed.frames = Len(telemetry) + stats.dropped
        /\ owed.bytes = SizeOf(Elements(telemetry)) + stats.droppedBytes

\* Once offers cease, backpressure is temporary ("O consumidor acorda o produtor
\* assim que libera bytes"): a pushControl that blocked returns, accepted or
\* refused by stop.
BlockedProducerReturns ==
    \A p \in Producers : pending[p] # None ~> pending[p] = None

\* What pushControl accepted leaves the queue for the client unless stopped.
AcceptedIsDelivered ==
    \A i \in 1..MaxOffers :
        Len(accepted) >= i ~> (stopped \/ Len(delivered) >= i)

=============================================================================
