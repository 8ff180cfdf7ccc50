---------------------- MODULE NotificationQueueProofs ----------------------
(***************************************************************************)
(* Proofs about NotificationQueue for any number of producers, keys, sizes  *)
(* and offers.                                                              *)
(***************************************************************************)
EXTENDS NotificationQueue, FiniteSetTheorems, SequenceTheorems, TLAPS

-----------------------------------------------------------------------------
(* Sizes of sets of messages. *)

\* The set that SizeOf counts.
BytesOf(M) == UNION {{m} \X (1..m.size) : m \in M}

\* Bytes of a size, counted.
LEMMA SizeOfBytes == \A M : SizeOf(M) = Cardinality(BytesOf(M))
BY DEF SizeOf, BytesOf

\* A finite set of messages is made of finitely many bytes.
LEMMA BytesOfFinite ==
    ASSUME NEW M, IsFiniteSet(M), \A m \in M : m.size \in Nat
    PROVE  IsFiniteSet(BytesOf(M))
<1>1. ASSUME NEW m \in M PROVE IsFiniteSet({m} \X (1..m.size))
  <2>1. IsFiniteSet({m})
    BY FS_Singleton
  <2>2. m.size \in Int
    OBVIOUS
  <2>3. IsFiniteSet(1..m.size)
    BY <2>2, FS_Interval
  <2> QED
    BY <2>1, <2>3, FS_Product
<1> DEFINE F == [m \in M |-> {m} \X (1..m.size)]
           T == {{m} \X (1..m.size) : m \in M}
<1>2. F \in Surjection(M, T)
  BY DEF Surjection
<1>3. IsFiniteSet(T)
  BY <1>2, FS_Surjection
<1>4. \A t \in T : IsFiniteSet(t)
  BY <1>1
<1> QED
  BY <1>3, <1>4, FS_UNION DEF BytesOf

\* The size of a finite set of messages is a natural number.
LEMMA SizeOfType ==
    ASSUME NEW M, IsFiniteSet(M), \A m \in M : m.size \in Nat
    PROVE  SizeOf(M) \in Nat
BY BytesOfFinite, FS_CardinalityType, SizeOfBytes

\* Disjoint sets of messages share no byte, so their sizes add up.
LEMMA SizeOfUnion ==
    ASSUME NEW M, NEW N, IsFiniteSet(M), IsFiniteSet(N), M \cap N = {},
           \A m \in M \cup N : m.size \in Nat
    PROVE  SizeOf(M \cup N) = SizeOf(M) + SizeOf(N)
<1>1. BytesOf(M \cup N) = BytesOf(M) \cup BytesOf(N)
  BY DEF BytesOf
<1>2. BytesOf(M) \cap BytesOf(N) = {}
  BY DEF BytesOf
<1>3. IsFiniteSet(BytesOf(M)) /\ IsFiniteSet(BytesOf(N))
  BY BytesOfFinite
<1>4. Cardinality(BytesOf(M) \cup BytesOf(N))
        = Cardinality(BytesOf(M)) + Cardinality(BytesOf(N)) - 0
  BY <1>2, <1>3, FS_Union, FS_EmptySet
<1>5. Cardinality(BytesOf(M)) \in Nat /\ Cardinality(BytesOf(N)) \in Nat
  BY <1>3, FS_CardinalityType
<1> QED
  <2>1. SizeOf(M \cup N) = Cardinality(BytesOf(M \cup N))
    BY SizeOfBytes
  <2>2. SizeOf(M) = Cardinality(BytesOf(M)) /\ SizeOf(N) = Cardinality(BytesOf(N))
    BY SizeOfBytes
  <2>3. Cardinality(BytesOf(M \cup N))
          = Cardinality(BytesOf(M)) + Cardinality(BytesOf(N))
    <3>1. Cardinality(BytesOf(M \cup N)) = Cardinality(BytesOf(M) \cup BytesOf(N))
      BY <1>1
    <3> QED
      BY <1>4, <1>5, <3>1
  <2> QED
    BY <2>1, <2>2, <2>3

\* The size of one message.
LEMMA SizeOfSingleton ==
    ASSUME NEW m, m.size \in Nat
    PROVE  SizeOf({m}) = m.size
<1>1. BytesOf({m}) = {m} \X (1..m.size)
  BY DEF BytesOf
<1>2. IsFiniteSet({m}) /\ Cardinality({m}) = 1
  BY FS_Singleton
<1>3. IsFiniteSet(1..m.size) /\ Cardinality(1..m.size) = m.size
  BY FS_Interval
<1>4. Cardinality({m} \X (1..m.size)) = Cardinality({m}) * Cardinality(1..m.size)
  BY <1>2, <1>3, FS_Product
<1> QED
  <2>1. SizeOf({m}) = Cardinality(BytesOf({m}))
    BY SizeOfBytes
  <2>2. Cardinality({m}) * Cardinality(1..m.size) = m.size
    BY <1>2, <1>3
  <2> QED
    BY <1>1, <1>4, <2>1, <2>2

\* No message, no byte.
LEMMA SizeOfEmpty == SizeOf({}) = 0
<1>1. BytesOf({}) = {}
  BY DEF BytesOf
<1> QED
  BY <1>1, FS_EmptySet, SizeOfBytes

-----------------------------------------------------------------------------
(* Elements of sequences. *)

\* A sequence has finitely many elements.
LEMMA ElementsFinite ==
    ASSUME NEW S, NEW s \in Seq(S)
    PROVE  IsFiniteSet(Elements(s)) /\ Elements(s) \subseteq S
<1>1. s \in Surjection(1..Len(s), Elements(s))
  BY DEF Surjection, Elements
<1>2. IsFiniteSet(1..Len(s))
  BY FS_Interval
<1> QED
  BY <1>1, <1>2, FS_Surjection DEF Elements

\* What Append adds.
LEMMA ElementsAppend ==
    ASSUME NEW S, NEW s \in Seq(S), NEW e \in S
    PROVE  Elements(Append(s, e)) = Elements(s) \cup {e}
BY DEF Elements

\* No two places of a sequence hold messages with the same id.
Distinct(s) == \A i, j \in 1..Len(s) : s[i].id = s[j].id => i = j

\* The head of a lane is in no other place of it.
LEMMA ElementsTail ==
    ASSUME NEW s \in Seq(Message), s # <<>>, Distinct(s)
    PROVE  /\ Elements(s) = Elements(Tail(s)) \cup {Head(s)}
           /\ Head(s) \notin Elements(Tail(s))
           /\ Distinct(Tail(s))
<1>1. Len(Tail(s)) = Len(s) - 1 /\ \A i \in 1..Len(Tail(s)) : Tail(s)[i] = s[i + 1]
  OBVIOUS
<1>2. Head(s) = s[1] /\ Len(s) \in Nat \ {0}
  OBVIOUS
<1>3. \A i \in 1..Len(s) : i = 1 \/ (i - 1 \in 1..Len(Tail(s)) /\ Tail(s)[i - 1] = s[i])
  BY <1>1, <1>2
<1>4. Elements(s) = Elements(Tail(s)) \cup {Head(s)}
  <2>1. ASSUME NEW e \in Elements(s) PROVE e \in Elements(Tail(s)) \cup {Head(s)}
    BY <1>2, <1>3 DEF Elements
  <2>2. \A i \in 1..Len(Tail(s)) : i + 1 \in 1..Len(s)
    BY <1>1, <1>2
  <2>3. Elements(Tail(s)) \subseteq Elements(s)
    BY <1>1, <2>2 DEF Elements
  <2>4. Head(s) \in Elements(s)
    BY <1>2 DEF Elements
  <2> QED
    BY <2>1, <2>3, <2>4
<1>5. Head(s) \notin Elements(Tail(s))
  BY <1>1, <1>2 DEF Elements, Distinct
<1>6. Distinct(Tail(s))
  BY <1>1, <1>2 DEF Distinct
<1> QED
  BY <1>4, <1>5, <1>6

\* Evicting the k oldest frames splits a lane into what goes and what stays.
LEMMA ElementsSplit ==
    ASSUME NEW t \in Seq(Message), Distinct(t), NEW k \in 0..Len(t)
    PROVE  /\ Oldest(t, k) \in Seq(Message) /\ Newest(t, k) \in Seq(Message)
           /\ Elements(t) = Elements(Newest(t, k)) \cup Elements(Oldest(t, k))
           /\ Elements(Newest(t, k)) \cap Elements(Oldest(t, k)) = {}
           /\ Distinct(Newest(t, k))
           /\ Len(Newest(t, k)) = Len(t) - k
<1>1. /\ Oldest(t, k) \in Seq(Message) /\ Len(Oldest(t, k)) = k
      /\ \A i \in 1..k : Oldest(t, k)[i] = t[i]
  BY DEF Oldest
<1>2. /\ Newest(t, k) \in Seq(Message) /\ Len(Newest(t, k)) = Len(t) - k
      /\ \A i \in 1..(Len(t) - k) : Newest(t, k)[i] = t[i + k]
  BY DEF Newest
<1>3. \A i \in 1..Len(t) : \/ i \in 1..k
                           \/ i - k \in 1..(Len(t) - k) /\ Newest(t, k)[i - k] = t[i]
  BY <1>2
<1>4. Elements(t) = Elements(Newest(t, k)) \cup Elements(Oldest(t, k))
  <2>1. ASSUME NEW e \in Elements(t)
        PROVE  e \in Elements(Newest(t, k)) \cup Elements(Oldest(t, k))
    BY <1>1, <1>2, <1>3 DEF Elements
  <2>2. Elements(Oldest(t, k)) \subseteq Elements(t)
    BY <1>1 DEF Elements
  <2>3. Elements(Newest(t, k)) \subseteq Elements(t)
    <3>1. \A i \in 1..(Len(t) - k) : i + k \in 1..Len(t)
      OBVIOUS
    <3> QED
      BY <1>2, <3>1 DEF Elements
  <2> QED
    BY <2>1, <2>2, <2>3
<1>5. Elements(Newest(t, k)) \cap Elements(Oldest(t, k)) = {}
  BY <1>1, <1>2 DEF Elements, Distinct
<1>6. Distinct(Newest(t, k))
  <2> SUFFICES ASSUME NEW i \in 1..(Len(t) - k), NEW j \in 1..(Len(t) - k),
                      t[i + k].id = t[j + k].id
               PROVE  i = j
    BY <1>2 DEF Distinct
  <2>1. i + k \in 1..Len(t) /\ j + k \in 1..Len(t)
    OBVIOUS
  <2>2. i + k = j + k
    BY <2>1 DEF Distinct
  <2> QED
    BY <2>2
<1> QED
  BY <1>1, <1>2, <1>4, <1>5, <1>6

\* Removing the frame at place i takes just that frame away.
LEMMA ElementsWithout ==
    ASSUME NEW t \in Seq(Message), Distinct(t), NEW i \in 1..Len(t)
    PROVE  /\ Without(t, i) \in Seq(Message)
           /\ Elements(t) = Elements(Without(t, i)) \cup {t[i]}
           /\ t[i] \notin Elements(Without(t, i))
           /\ Distinct(Without(t, i))
           /\ Len(Without(t, i)) = Len(t) - 1
<1> DEFINE a == SubSeq(t, 1, i - 1)
           b == SubSeq(t, i + 1, Len(t))
           w == Without(t, i)
<1>a. /\ a \in Seq(Message) /\ Len(a) = i - 1
      /\ \A j \in 1..(i - 1) : a[j] = t[j]
  OBVIOUS
<1>b. /\ b \in Seq(Message) /\ Len(b) = Len(t) - i
      /\ \A j \in 1..(Len(t) - i) : b[j] = t[j + i]
  OBVIOUS
<1>1. w = a \o b
  <2>1. i # 0
    OBVIOUS
  <2> QED
    BY <2>1 DEF Without
<1> HIDE DEF a, b, w
<1>2. w \in Seq(Message) /\ Len(w) = Len(t) - 1
  BY <1>1, <1>a, <1>b
<1>3. \A j \in 1..Len(w) : w[j] = IF j < i THEN t[j] ELSE t[j + 1]
  <2> SUFFICES ASSUME NEW j \in 1..Len(w)
               PROVE  w[j] = IF j < i THEN t[j] ELSE t[j + 1]
    OBVIOUS
  <2>1. CASE j < i
    BY <1>1, <1>2, <1>a, <1>b, <2>1
  <2>2. CASE ~(j < i)
    <3>1. w[j] = b[j - (i - 1)]
      BY <1>1, <1>2, <1>a, <1>b, <2>2
    <3>2. j - (i - 1) \in 1..(Len(t) - i)
      BY <1>2, <2>2
    <3> QED
      BY <1>b, <3>1, <3>2, <2>2
  <2> QED
    BY <2>1, <2>2
<1>4. \A j \in 1..Len(t) : \/ j = i
                           \/ j < i /\ j \in 1..Len(w) /\ w[j] = t[j]
                           \/ j > i /\ j - 1 \in 1..Len(w) /\ w[j - 1] = t[j]
  BY <1>2, <1>3
<1>5. Elements(t) = Elements(w) \cup {t[i]}
  <2>1. Elements(t) \subseteq Elements(w) \cup {t[i]}
    BY <1>4 DEF Elements
  <2>2. \A j \in 1..Len(w) : j \in 1..Len(t) /\ j + 1 \in 1..Len(t)
    BY <1>2
  <2>3. Elements(w) \subseteq Elements(t)
    BY <1>3, <2>2 DEF Elements
  <2> QED
    BY <2>1, <2>3 DEF Elements
<1>6. t[i] \notin Elements(w)
  BY <1>2, <1>3 DEF Elements, Distinct
<1>7. Distinct(w)
  BY <1>2, <1>3 DEF Distinct
<1> QED
  BY <1>2, <1>5, <1>6, <1>7 DEF w

-----------------------------------------------------------------------------
(* What the operations on a lane do to its size.                            *)

LaneSize(s) == SizeOf(Elements(s))

\* The size of a lane is a natural number.
LEMMA LaneSizeType ==
    ASSUME NEW s \in Seq(Message)
    PROVE  LaneSize(s) \in Nat /\ IsFiniteSet(Elements(s)) /\ Elements(s) \subseteq Message
<1>1. IsFiniteSet(Elements(s)) /\ Elements(s) \subseteq Message
  BY ElementsFinite
<1>2. \A m \in Elements(s) : m.size \in Nat
  BY <1>1 DEF Message
<1> QED
  BY <1>1, <1>2, SizeOfType DEF LaneSize

\* Pushing a message with a new id.
LEMMA LanePush ==
    ASSUME NEW s \in Seq(Message), Distinct(s), NEW m \in Message,
           \A e \in Elements(s) : e.id # m.id
    PROVE  /\ Append(s, m) \in Seq(Message)
           /\ Distinct(Append(s, m))
           /\ Elements(Append(s, m)) = Elements(s) \cup {m}
           /\ LaneSize(Append(s, m)) = LaneSize(s) + m.size
<1>1. Elements(Append(s, m)) = Elements(s) \cup {m}
  BY ElementsAppend
<1>2. Distinct(Append(s, m))
  <2>1. /\ Len(Append(s, m)) = Len(s) + 1
        /\ \A i \in 1..Len(s) : Append(s, m)[i] = s[i] /\ s[i].id # m.id
        /\ Append(s, m)[Len(s) + 1] = m
    BY DEF Elements
  <2>2. \A i \in 1..(Len(s) + 1) : i \in 1..Len(s) \/ i = Len(s) + 1
    OBVIOUS
  <2> QED
    BY <2>1, <2>2 DEF Distinct
<1>3. IsFiniteSet({m})
  BY FS_Singleton
<1>4. /\ IsFiniteSet(Elements(s)) /\ Elements(s) \cap {m} = {}
      /\ \A e \in Elements(s) \cup {m} : e.size \in Nat
  BY LaneSizeType DEF Message
<1>5. SizeOf(Elements(s) \cup {m}) = SizeOf(Elements(s)) + SizeOf({m})
  BY <1>3, <1>4, SizeOfUnion
<1>6. SizeOf({m}) = m.size
  BY SizeOfSingleton DEF Message
<1> QED
  BY <1>1, <1>2, <1>5, <1>6 DEF LaneSize

\* Taking a message away, wherever it was.
LEMMA LaneTake ==
    ASSUME NEW s \in Seq(Message), NEW r \in Seq(Message), NEW m \in Message,
           Elements(s) = Elements(r) \cup {m}, m \notin Elements(r)
    PROVE  LaneSize(s) = LaneSize(r) + m.size
<1>1. IsFiniteSet({m}) /\ IsFiniteSet(Elements(r)) /\ Elements(r) \cap {m} = {}
  BY FS_Singleton, LaneSizeType
<1>2. \A e \in Elements(r) \cup {m} : e.size \in Nat
  BY LaneSizeType DEF Message
<1>3. SizeOf(Elements(r) \cup {m}) = SizeOf(Elements(r)) + SizeOf({m})
  BY <1>1, <1>2, SizeOfUnion
<1>4. SizeOf({m}) = m.size
  BY SizeOfSingleton DEF Message
<1> QED
  BY <1>3, <1>4 DEF LaneSize

\* Evicting the k oldest frames.
LEMMA LaneEvict ==
    ASSUME NEW t \in Seq(Message), Distinct(t), NEW k \in 0..Len(t)
    PROVE  /\ Newest(t, k) \in Seq(Message)
           /\ Distinct(Newest(t, k))
           /\ Elements(Newest(t, k)) \subseteq Elements(t)
           /\ Len(Newest(t, k)) = Len(t) - k
           /\ Freed(t, k) \in Nat
           /\ LaneSize(t) = LaneSize(Newest(t, k)) + Freed(t, k)
<1>1. /\ Oldest(t, k) \in Seq(Message) /\ Newest(t, k) \in Seq(Message)
      /\ Elements(t) = Elements(Newest(t, k)) \cup Elements(Oldest(t, k))
      /\ Elements(Newest(t, k)) \cap Elements(Oldest(t, k)) = {}
      /\ Distinct(Newest(t, k))
      /\ Len(Newest(t, k)) = Len(t) - k
  BY ElementsSplit
<1>2. /\ LaneSize(Oldest(t, k)) \in Nat
      /\ IsFiniteSet(Elements(Oldest(t, k))) /\ IsFiniteSet(Elements(Newest(t, k)))
      /\ Elements(Oldest(t, k)) \subseteq Message /\ Elements(Newest(t, k)) \subseteq Message
  BY <1>1, LaneSizeType
<1>3. \A e \in Elements(Newest(t, k)) \cup Elements(Oldest(t, k)) : e.size \in Nat
  BY <1>2 DEF Message
<1>4. SizeOf(Elements(t)) = SizeOf(Elements(Newest(t, k))) + SizeOf(Elements(Oldest(t, k)))
  BY <1>1, <1>2, <1>3, SizeOfUnion
<1> QED
  BY <1>1, <1>2, <1>4 DEF LaneSize, Freed

\* Popping the head of a lane.
LEMMA LanePop ==
    ASSUME NEW s \in Seq(Message), s # <<>>, Distinct(s)
    PROVE  /\ Tail(s) \in Seq(Message) /\ Head(s) \in Message
           /\ Head(s) \in Elements(s)
           /\ Distinct(Tail(s))
           /\ Elements(Tail(s)) \subseteq Elements(s)
           /\ LaneSize(s) = LaneSize(Tail(s)) + Head(s).size
<1>1. Tail(s) \in Seq(Message) /\ Head(s) \in Message
  OBVIOUS
<1>2. /\ Elements(s) = Elements(Tail(s)) \cup {Head(s)}
      /\ Head(s) \notin Elements(Tail(s))
      /\ Distinct(Tail(s))
  BY ElementsTail
<1>3. LaneSize(s) = LaneSize(Tail(s)) + Head(s).size
  BY <1>1, <1>2, LaneTake
<1> QED
  BY <1>1, <1>2, <1>3

\* An empty lane.
LEMMA LaneEmpty ==
    /\ <<>> \in Seq(Message) /\ Distinct(<<>>)
    /\ Elements(<<>>) = {} /\ LaneSize(<<>>) = 0
BY SizeOfEmpty DEF Distinct, Elements, LaneSize

-----------------------------------------------------------------------------
(* The inductive invariant of the memory bound.                             *)

\* Messages are told apart by their ids, and lanes by their keys: this is what
\* makes the size of a lane change by exactly the message that moves.
Identity ==
    /\ Distinct(control) /\ Distinct(telemetry)
    /\ \A m \in Elements(control) : m.key = None /\ m.id < nextId
    /\ \A m \in Elements(telemetry) : m.key \in Keys /\ m.id < nextId
    /\ \A p \in Producers : pending[p] # None =>
          /\ pending[p].key = None
          /\ pending[p].id < nextId
          /\ \A m \in Elements(control) : m.id # pending[p].id
          /\ \A q \in Producers :
                pending[q] # None /\ pending[q].id = pending[p].id => q = p

LaneBytes ==
    /\ bytes = LaneSize(control) + LaneSize(telemetry)
    /\ bytes <= Capacity

MemoryInv == TypeOK /\ Identity /\ LaneBytes

\* The two lanes have no message in common, so LaneBytes is BytesAccounted.
LEMMA LanesAreDisjoint == MemoryInv => BytesAccounted
<1> SUFFICES ASSUME MemoryInv PROVE BytesAccounted
  OBVIOUS
<1>1. control \in Seq(Message) /\ telemetry \in Seq(Message)
  BY DEF MemoryInv, TypeOK
<1>2. /\ IsFiniteSet(Elements(control)) /\ IsFiniteSet(Elements(telemetry))
      /\ Elements(control) \subseteq Message /\ Elements(telemetry) \subseteq Message
  BY <1>1, LaneSizeType
<1>3. Elements(control) \cap Elements(telemetry) = {}
  BY KeysAssumption DEF MemoryInv, Identity
<1>4. \A m \in Elements(control) \cup Elements(telemetry) : m.size \in Nat
  BY <1>2 DEF Message
<1>5. SizeOf(Elements(control) \cup Elements(telemetry))
        = SizeOf(Elements(control)) + SizeOf(Elements(telemetry))
  BY <1>2, <1>3, <1>4, SizeOfUnion
<1> QED
  BY <1>5 DEF MemoryInv, LaneBytes, LaneSize, BytesAccounted

\* Adding to the drop counters keeps them natural numbers.
LEMMA DropCountersType ==
    ASSUME NEW st \in Counters, NEW a \in Nat, NEW n \in Nat
    PROVE  [st EXCEPT !.dropped = @ + a, !.droppedBytes = @ + n] \in Counters
<1> DEFINE d == st.dropped + a
           e == st.droppedBytes + n
<1>1. d \in Nat /\ e \in Nat
  BY DEF Counters
<1> HIDE DEF d, e
<1>2. [st EXCEPT !.dropped = d] \in Counters
  BY <1>1 DEF Counters
<1>3. [[st EXCEPT !.dropped = d] EXCEPT !.droppedBytes = e] \in Counters
  BY <1>1, <1>2 DEF Counters
<1> QED
  BY <1>3 DEF d, e, Counters

\* The counters stay natural numbers.
LEMMA CountersType ==
    ASSUME NEW st \in Counters, NEW t \in Seq(Message), Distinct(t),
           NEW k \in 0..Len(t), NEW c \in Seq(Message), NEW n \in Nat
    PROVE  /\ DropCounted(st, t, k) \in Counters
           /\ DepthCounted(st, c, t) \in Counters
           /\ [st EXCEPT !.dropped = @ + 1, !.droppedBytes = @ + n] \in Counters
<1>1. Freed(t, k) \in Nat /\ k \in Nat
  BY LaneEvict
<1>2. DropCounted(st, t, k) \in Counters
  BY <1>1, DropCountersType DEF DropCounted
<1>3. Depth(c, t) \in Nat
  BY DEF Depth
<1>4. MaxOf(st.maxDepth, Depth(c, t)) \in Nat
  BY <1>3 DEF MaxOf, Counters
<1>5. DepthCounted(st, c, t) \in Counters
  BY <1>4 DEF DepthCounted, Counters
<1>6. [st EXCEPT !.dropped = @ + 1, !.droppedBytes = @ + n] \in Counters
  BY DropCountersType
<1> QED
  BY <1>2, <1>5, <1>6

\* notify_one only takes threads out of the wait set.
LEMMA NotifyShrinks ==
    ASSUME WakeAfterPush \/ WakeAfterPop \/ WakeAfterStop
    PROVE  asleep' \subseteq asleep
BY DEF WakeAfterPush, WakeAfterPop, WakeAfterStop, NotifyOne, NotifyAll

\* Accepting a control message of a new id that fits, with the telemetry lane
\* cut down to t, keeps both lanes well formed and the byte count exact.
LEMMA AcceptKeepsLanes ==
    ASSUME TypeOK, NEW m \in Message, NEW t \in Seq(Message), NEW b, NEW st \in Counters,
           Distinct(control), Distinct(t),
           \A e \in Elements(control) : e.id # m.id,
           b = LaneSize(control) + LaneSize(t), Fits(b, m.size),
           AcceptControl(m, b, t, st)
    PROVE  /\ control' \in Seq(Message) /\ Distinct(control')
           /\ Elements(control') = Elements(control) \cup {m}
           /\ telemetry' = t
           /\ stats' \in Counters
           /\ LaneBytes' /\ bytes' \in Nat
           /\ accepted' \in Seq(Message)
           /\ asleep' \subseteq asleep
<1>1. control \in Seq(Message) /\ accepted \in Seq(Message)
  BY DEF TypeOK
<1>2. /\ control' = Append(control, m) /\ bytes' = b + m.size /\ telemetry' = t
      /\ stats' = DepthCounted(st, control', t) /\ accepted' = Append(accepted, m)
  BY DEF AcceptControl
<1>3. /\ control' \in Seq(Message) /\ Distinct(control')
      /\ Elements(control') = Elements(control) \cup {m}
      /\ LaneSize(control') = LaneSize(control) + m.size
  BY <1>1, <1>2, LanePush
<1>4. LaneSize(control) \in Nat /\ LaneSize(t) \in Nat /\ m.size \in Nat
  BY <1>1, LaneSizeType DEF Message
<1>5. LaneSize(telemetry)' = LaneSize(t)
  BY <1>2 DEF LaneSize
<1>6. LaneSize(control)' = LaneSize(control')
  BY DEF LaneSize
<1>7. LaneBytes' /\ bytes' \in Nat
  BY <1>2, <1>3, <1>4, <1>5, <1>6 DEF LaneBytes, Fits
<1>8. 0 \in 0..Len(t)
  OBVIOUS
<1>9. stats' \in Counters
  BY <1>2, <1>3, <1>8, CountersType
<1>10. asleep' \subseteq asleep
  BY NotifyShrinks DEF AcceptControl
<1> QED
  BY <1>1, <1>2, <1>3, <1>7, <1>9, <1>10

\* The memory invariant holds at the start.
LEMMA MemoryInit == Init => MemoryInv
<1> SUFFICES ASSUME Init PROVE MemoryInv
  OBVIOUS
<1>1. TypeOK
  <2>1. stats \in Counters
    BY DEF Init, Counters
  <2>2. latest \in [Keys -> Nat \cup {-1}]
    BY DEF Init
  <2>3. pending \in [Producers -> Message \cup {None}]
    BY DEF Init
  <2>4. owed \in [frames : Int, bytes : Int]
    BY DEF Init
  <2> QED
    BY <2>1, <2>2, <2>3, <2>4, LaneEmpty DEF Init, TypeOK
<1>2. Identity
  BY LaneEmpty DEF Init, Identity
<1>3. LaneBytes
  BY LaneEmpty, CapacityAssumption DEF Init, LaneBytes
<1> QED
  BY <1>1, <1>2, <1>3 DEF MemoryInv

\* Byte counts: taking z bytes from a lane of y + z bytes next to one of x, and
\* adding z bytes to a lane of y.
LEMMA TakeBytes ==
    ASSUME NEW x \in Nat, NEW y \in Nat, NEW z \in Nat, NEW l, NEW total,
           l = y + z, total = x + l, total <= Capacity
    PROVE  total - z = x + y /\ total - z \in Nat /\ total - z <= Capacity
BY CapacityAssumption

\* One more message adds its bytes.
LEMMA AddBytes ==
    ASSUME NEW x \in Nat, NEW y \in Nat, NEW z \in Nat, NEW l, NEW total,
           l = y + z, total = x + y, Fits(total, z)
    PROVE  total + z = x + l /\ total + z \in Nat /\ total + z <= Capacity
BY CapacityAssumption DEF Fits

\* Queued messages are older than the next offer.
LEMMA QueuedAreOld ==
    ASSUME MemoryInv
    PROVE  /\ \A e \in Elements(control) :
                 e.key = None /\ e.id \in Nat /\ e.id < nextId /\ e.id < nextId + 1
           /\ \A e \in Elements(telemetry) :
                 e.key \in Keys /\ e.id \in Nat /\ e.id < nextId /\ e.id < nextId + 1
<1>1. Elements(control) \subseteq Message /\ Elements(telemetry) \subseteq Message
  BY LaneSizeType DEF MemoryInv, TypeOK
<1>2. \A e \in Message : e.id \in Nat
  BY DEF Message
<1>3. nextId \in Nat
  BY DEF MemoryInv, TypeOK
<1>4. /\ \A e \in Elements(control) : e.key = None /\ e.id < nextId
      /\ \A e \in Elements(telemetry) : e.key \in Keys /\ e.id < nextId
  BY DEF MemoryInv, Identity
<1> QED
  BY <1>1, <1>2, <1>3, <1>4

\* pushControl keeps the memory invariant: what it evicts is exactly what it
\* subtracts, and it enqueues only what fits.
LEMMA MemoryPushControl ==
    ASSUME MemoryInv, NEW p \in Producers, NEW n \in ControlSizes, PushControl(p, n)
    PROVE  MemoryInv'
<1> DEFINE m == [id |-> nextId, key |-> None, size |-> n]
<1>1. /\ control \in Seq(Message) /\ telemetry \in Seq(Message) /\ stats \in Counters
      /\ Distinct(control) /\ Distinct(telemetry) /\ nextId \in Nat /\ TypeOK
  BY DEF MemoryInv, TypeOK, Identity
<1>2. m \in Message /\ \A e \in Elements(control) : e.id # m.id
  BY SizesAssumption DEF MemoryInv, Identity, Message, TypeOK
<1>3. PICK k \in 0..Len(telemetry) :
        LET b    == bytes - Freed(telemetry, k)
            left == Newest(telemetry, k)
            st   == DropCounted(stats, telemetry, k)
        IN  \/ /\ Fits(b, n) /\ AcceptControl(m, b, left, st) /\ pending' = pending
            \/ /\ ~Fits(b, n) /\ bytes' = b /\ telemetry' = left /\ stats' = st
               /\ pending' = [pending EXCEPT ![p] = m] /\ asleep' = asleep \cup {p}
               /\ control' = control /\ accepted' = accepted
  BY DEF PushControl
<1> DEFINE b    == bytes - Freed(telemetry, k)
           left == Newest(telemetry, k)
           st   == DropCounted(stats, telemetry, k)
<1>4. /\ left \in Seq(Message) /\ Distinct(left) /\ Elements(left) \subseteq Elements(telemetry)
      /\ Freed(telemetry, k) \in Nat
      /\ LaneSize(telemetry) = LaneSize(left) + Freed(telemetry, k)
  BY <1>1, LaneEvict
<1>5. LaneSize(control) \in Nat /\ LaneSize(left) \in Nat
  BY <1>1, <1>4, LaneSizeType
<1>6. b = LaneSize(control) + LaneSize(left) /\ b \in Nat /\ b <= Capacity
  <2>1. bytes = LaneSize(control) + LaneSize(telemetry) /\ bytes <= Capacity
    BY DEF MemoryInv, LaneBytes
  <2> QED
    BY <1>4, <1>5, <2>1, TakeBytes
<1>7. st \in Counters
  BY <1>1, CountersType
<1>8. /\ stopped' = stopped /\ consumer' = consumer /\ hand' = hand /\ delivered' = delivered
      /\ latest' = latest /\ owed' = owed /\ nextId' = nextId + 1 /\ pending[p] = None
  BY DEF PushControl
<1> HIDE DEF b, left, st
<1>9. CASE /\ Fits(b, n) /\ AcceptControl(m, b, left, st) /\ pending' = pending
  <2>1. /\ control' \in Seq(Message) /\ Distinct(control')
        /\ Elements(control') = Elements(control) \cup {m}
        /\ telemetry' = left /\ stats' \in Counters /\ LaneBytes' /\ bytes' \in Nat
        /\ accepted' \in Seq(Message) /\ asleep' \subseteq asleep
    BY <1>1, <1>2, <1>4, <1>6, <1>7, <1>9, AcceptKeepsLanes
  <2>2. TypeOK'
    BY <1>1, <1>4, <1>8, <1>9, <2>1 DEF TypeOK
  <2>3. Identity'
    <3>1. \A e \in Elements(control') : e.key = None /\ e.id < nextId'
      BY <1>1, <1>8, <2>1, QueuedAreOld
    <3>2. \A e \in Elements(telemetry') : e.key \in Keys /\ e.id < nextId'
      BY <1>4, <1>8, <2>1, QueuedAreOld
    <3>3. ASSUME NEW q \in Producers, pending[q] # None
          PROVE  /\ pending[q].key = None /\ pending[q].id < nextId'
                 /\ \A e \in Elements(control') : e.id # pending[q].id
                 /\ \A o \in Producers :
                       pending[o] # None /\ pending[o].id = pending[q].id => o = q
      <4>1. pending[q].id \in Nat /\ pending[q].id < nextId
        BY <1>1, <3>3 DEF MemoryInv, Identity, TypeOK, Message
      <4> QED
        BY <1>1, <1>8, <2>1, <3>3, <4>1 DEF MemoryInv, Identity
    <3> QED
      BY <1>4, <1>9, <2>1, <3>1, <3>2, <3>3 DEF Identity, Elements, Distinct
  <2> QED
    BY <2>1, <2>2, <2>3 DEF MemoryInv
<1>10. CASE /\ ~Fits(b, n) /\ bytes' = b /\ telemetry' = left /\ stats' = st
            /\ pending' = [pending EXCEPT ![p] = m] /\ asleep' = asleep \cup {p}
            /\ control' = control /\ accepted' = accepted
  <2>1. TypeOK'
    BY <1>1, <1>2, <1>4, <1>6, <1>7, <1>8, <1>10 DEF TypeOK
  <2>2. Identity'
    <3>1. \A e \in Elements(control') : e.key = None /\ e.id < nextId /\ e.id < nextId'
      BY <1>8, <1>10, QueuedAreOld
    <3>2. \A e \in Elements(telemetry') : e.key \in Keys /\ e.id < nextId'
      BY <1>4, <1>8, <1>10, QueuedAreOld
    <3>3. ASSUME NEW q \in Producers, pending[q] # None
          PROVE  pending[q].id \in Nat /\ pending[q].id < nextId
      BY <1>1, <3>3 DEF MemoryInv, Identity, TypeOK, Message
    <3>4. /\ pending'[p] = m
          /\ \A q \in Producers : q # p => pending'[q] = pending[q]
      BY <1>1, <1>10 DEF TypeOK
    <3>5. ASSUME NEW q \in Producers, pending'[q] # None
          PROVE  /\ pending'[q].key = None /\ pending'[q].id < nextId'
                 /\ \A e \in Elements(control') : e.id # pending'[q].id
                 /\ \A o \in Producers :
                       pending'[o] # None /\ pending'[o].id = pending'[q].id => o = q
      <4>1. CASE q = p
        <5>1. \A o \in Producers : o # p /\ pending'[o] # None => pending'[o].id # nextId
          BY <1>1, <3>3, <3>4
        <5> QED
          BY <1>1, <1>2, <1>8, <1>10, <3>4, <4>1, <5>1
      <4>2. CASE q # p
        BY <1>1, <1>8, <1>10, <3>3, <3>4, <3>5, <4>2 DEF MemoryInv, Identity
      <4> QED
        BY <4>1, <4>2
    <3> QED
      BY <1>1, <1>4, <1>10, <3>1, <3>2, <3>5 DEF Identity, Elements, Distinct
  <2>3. LaneSize(control)' = LaneSize(control) /\ LaneSize(telemetry)' = LaneSize(left)
    BY <1>10 DEF LaneSize
  <2>4. LaneBytes'
    BY <1>6, <1>10, <2>3 DEF LaneBytes
  <2> QED
    BY <2>1, <2>2, <2>4 DEF MemoryInv
<1> QED
  BY <1>3, <1>9, <1>10 DEF b, left, st

\* A producer that wakes up keeps the memory invariant.
LEMMA MemoryResumeControl ==
    ASSUME MemoryInv, NEW p \in Producers, ResumeControl(p)
    PROVE  MemoryInv'
<1>1. /\ control \in Seq(Message) /\ telemetry \in Seq(Message) /\ stats \in Counters
      /\ Distinct(control) /\ Distinct(telemetry) /\ nextId \in Nat /\ TypeOK
      /\ pending \in [Producers -> Message \cup {None}]
  BY DEF MemoryInv, TypeOK, Identity
<1>2. /\ stopped' = stopped /\ consumer' = consumer /\ hand' = hand /\ delivered' = delivered
      /\ latest' = latest /\ owed' = owed /\ nextId' = nextId /\ pending[p] # None
  BY DEF ResumeControl
<1>3. pending[p] \in Message /\ \A e \in Elements(control) : e.id # pending[p].id
  BY <1>1, <1>2 DEF MemoryInv, Identity
<1>4. CASE /\ Fits(bytes, pending[p].size)
           /\ AcceptControl(pending[p], bytes, telemetry, stats)
           /\ pending' = [pending EXCEPT ![p] = None]
  <2>1. bytes = LaneSize(control) + LaneSize(telemetry)
    BY DEF MemoryInv, LaneBytes
  <2>2. /\ control' \in Seq(Message) /\ Distinct(control')
        /\ Elements(control') = Elements(control) \cup {pending[p]}
        /\ telemetry' = telemetry /\ stats' \in Counters /\ LaneBytes' /\ bytes' \in Nat
        /\ accepted' \in Seq(Message) /\ asleep' \subseteq asleep
    BY <1>1, <1>3, <1>4, <2>1, AcceptKeepsLanes
  <2>3. TypeOK'
    BY <1>1, <1>2, <1>4, <2>2 DEF TypeOK
  <2>4. Identity'
    BY <1>1, <1>2, <1>4, <2>2 DEF MemoryInv, Identity
  <2> QED
    BY <2>2, <2>3, <2>4 DEF MemoryInv
<1>5. CASE UNCHANGED <<control, telemetry, bytes, stats, accepted>>
           /\ asleep' \in {asleep, asleep \cup {p}}
           /\ pending' \in {pending, [pending EXCEPT ![p] = None]}
  <2>1. TypeOK'
    BY <1>1, <1>2, <1>5 DEF TypeOK
  <2>2. Identity'
    BY <1>1, <1>2, <1>5 DEF MemoryInv, Identity
  <2>3. LaneBytes'
    BY <1>5 DEF MemoryInv, LaneBytes, LaneSize
  <2> QED
    BY <2>1, <2>2, <2>3 DEF MemoryInv
<1> QED
  BY <1>4, <1>5 DEF ResumeControl

\* Coalescing takes the frame at i, if any, out of the lane and of the count.
LEMMA CoalesceKeepsLane ==
    ASSUME MemoryInv, NEW i \in 0..Len(telemetry), NEW b,
           b = IF i = 0 THEN bytes ELSE bytes - telemetry[i].size
    PROVE  /\ Without(telemetry, i) \in Seq(Message)
           /\ Distinct(Without(telemetry, i))
           /\ Elements(Without(telemetry, i)) \subseteq Elements(telemetry)
           /\ b = LaneSize(control) + LaneSize(Without(telemetry, i))
           /\ b \in Nat /\ b <= Capacity
           /\ CoalesceCounted(i) \in Counters
<1>1. /\ control \in Seq(Message) /\ telemetry \in Seq(Message) /\ stats \in Counters
      /\ bytes \in Nat /\ bytes <= Capacity /\ Distinct(telemetry)
      /\ bytes = LaneSize(control) + LaneSize(telemetry)
  BY DEF MemoryInv, TypeOK, Identity, LaneBytes
<1>2. CASE i = 0
  BY <1>1, <1>2 DEF Without, CoalesceCounted
<1>3. CASE i # 0
  <2>1. i \in 1..Len(telemetry) /\ telemetry[i] \in Message /\ telemetry[i].size \in Nat
    <3>1. i \in 1..Len(telemetry)
      BY <1>1, <1>3
    <3>2. telemetry[i] \in Message
      BY <1>1, <3>1
    <3> QED
      BY <3>1, <3>2 DEF Message
  <2>2. /\ Without(telemetry, i) \in Seq(Message)
        /\ Elements(telemetry) = Elements(Without(telemetry, i)) \cup {telemetry[i]}
        /\ telemetry[i] \notin Elements(Without(telemetry, i))
        /\ Distinct(Without(telemetry, i))
    BY <1>1, <2>1, ElementsWithout
  <2>3. LaneSize(telemetry) = LaneSize(Without(telemetry, i)) + telemetry[i].size
    BY <1>1, <2>1, <2>2, LaneTake
  <2>4. LaneSize(control) \in Nat /\ LaneSize(Without(telemetry, i)) \in Nat
    BY <1>1, <2>2, LaneSizeType
  <2>5. /\ b = LaneSize(control) + LaneSize(Without(telemetry, i))
        /\ b \in Nat /\ b <= Capacity
    <3>1. b = bytes - telemetry[i].size
      BY <1>3
    <3> QED
      <4>1. bytes = LaneSize(control) + LaneSize(telemetry) /\ bytes <= Capacity
        BY <1>1
      <4>2. telemetry[i].size \in Nat
        BY <2>1
      <4>3. /\ bytes - telemetry[i].size = LaneSize(control) + LaneSize(Without(telemetry, i))
            /\ bytes - telemetry[i].size \in Nat
            /\ bytes - telemetry[i].size <= Capacity
        BY <2>3, <2>4, <4>1, <4>2, TakeBytes
      <4> QED
        BY <3>1, <4>3
  <2>6. CoalesceCounted(i) \in Counters
    <3> DEFINE sz == telemetry[i].size
               r  == [stats EXCEPT !.coalesced = @ + 1, !.coalescedBytes = @ + sz]
    <3>1. stats.coalesced + 1 \in Nat /\ stats.coalescedBytes + sz \in Nat
      <4>1. sz \in Nat
        BY <2>1
      <4>2. stats.coalesced \in Nat /\ stats.coalescedBytes \in Nat
        BY <1>1 DEF Counters
      <4> HIDE DEF sz
      <4> QED
        BY <4>1, <4>2
    <3>2. r \in Counters
      <4> DEFINE c == stats.coalesced + 1
                 d == stats.coalescedBytes + sz
      <4> HIDE DEF c, d
      <4>1. [stats EXCEPT !.coalesced = c] \in Counters
        BY <1>1, <3>1 DEF Counters, c
      <4>2. [[stats EXCEPT !.coalesced = c] EXCEPT !.coalescedBytes = d] \in Counters
        BY <3>1, <4>1 DEF Counters, d
      <4> QED
        BY <1>1, <4>2 DEF Counters, c, d
    <3>3. [r EXCEPT !.dropped = @ + 1, !.droppedBytes = @ + sz] \in Counters
      BY <2>1, <3>2, DropCountersType
    <3>4. CoalesceCounted(i) = [r EXCEPT !.dropped = @ + 1, !.droppedBytes = @ + sz]
      BY <1>1, <1>3 DEF CoalesceCounted, Counters
    <3> QED
      BY <3>3, <3>4
  <2> QED
    BY <2>2, <2>5, <2>6
<1> QED
  BY <1>2, <1>3

\* pushTelemetry keeps the memory invariant, whether the frame is queued or
\* dropped and whatever it coalesces and evicts.
LEMMA MemoryPushTelemetry ==
    ASSUME MemoryInv, NEW key \in Keys, NEW n \in FrameSizes[key], PushTelemetry(key, n)
    PROVE  MemoryInv'
<1> DEFINE m == [id |-> nextId, key |-> key, size |-> n]
           lost(st) == [st EXCEPT !.dropped = @ + 1, !.droppedBytes = @ + n]
           coalesced(i) == IF i = 0 THEN bytes ELSE bytes - telemetry[i].size
<1>1. /\ control \in Seq(Message) /\ telemetry \in Seq(Message)
      /\ Distinct(control) /\ Distinct(telemetry) /\ nextId \in Nat /\ TypeOK
      /\ n \in Nat \ {0} /\ m \in Message
  BY SizesAssumption DEF MemoryInv, TypeOK, Identity, Message
<1>2. /\ nextId' = nextId + 1 /\ latest' = [latest EXCEPT ![key] = nextId]
      /\ owed' = [frames |-> owed.frames + 1, bytes |-> owed.bytes + n]
      /\ UNCHANGED <<control, stopped, pending, consumer, hand, accepted, delivered>>
  BY DEF PushTelemetry
<1>3. PICK i \in 0..Len(telemetry) :
        LET rest == Without(telemetry, i)
            b    == coalesced(i)
            st   == CoalesceCounted(i)
        IN  \/ /\ telemetry' = rest /\ bytes' = b /\ stats' = lost(st) /\ asleep' = asleep
            \/ \E k \in 0..Len(rest) :
                 LET b2   == b - Freed(rest, k)
                     left == Newest(rest, k)
                     st2  == DropCounted(st, rest, k)
                 IN  \/ /\ telemetry' = left /\ bytes' = b2 /\ stats' = lost(st2)
                        /\ asleep' = asleep
                     \/ /\ Fits(b2, n) /\ telemetry' = Append(left, m) /\ bytes' = b2 + n
                        /\ stats' = DepthCounted(st2, control, telemetry') /\ WakeAfterPush
  BY DEF PushTelemetry
<1> DEFINE rest == Without(telemetry, i)
           b    == coalesced(i)
           st   == CoalesceCounted(i)
<1>4. /\ rest \in Seq(Message) /\ Distinct(rest)
      /\ Elements(rest) \subseteq Elements(telemetry)
      /\ b = LaneSize(control) + LaneSize(rest)
      /\ b \in Nat /\ b <= Capacity /\ st \in Counters
  BY CoalesceKeepsLane
<1> HIDE DEF rest, b, st
<1>5. \A e \in Elements(rest) : e.key \in Keys /\ e.id \in Nat /\ e.id < nextId /\ e.id < nextId + 1
  BY <1>4, QueuedAreOld
\* Whatever the outcome, it suffices to look at the new telemetry lane.
<1>6. ASSUME telemetry' \in Seq(Message), Distinct(telemetry'),
             Elements(telemetry') \subseteq Elements(rest) \cup {m},
             bytes' \in Nat, bytes' <= Capacity,
             bytes' = LaneSize(control) + LaneSize(telemetry'),
             stats' \in Counters, asleep' \subseteq asleep
      PROVE  MemoryInv'
  <2>1. latest' \in [Keys -> Nat \cup {-1}] /\ owed' \in [frames : Int, bytes : Int]
    BY <1>1, <1>2 DEF TypeOK
  <2>2. TypeOK'
    <3>1. nextId' \in Nat
      BY <1>1, <1>2
    <3>2. asleep' \subseteq Producers \cup {Consumer}
      BY <1>1, <1>6 DEF TypeOK
    <3>3. /\ control' \in Seq(Message) /\ stopped' \in BOOLEAN
          /\ pending' \in [Producers -> Message \cup {None}]
          /\ consumer' \in {"loop", "sending", "done"}
          /\ hand' \in Message \cup {None} /\ (consumer' = "sending" <=> hand' # None)
          /\ accepted' \in Seq(Message) /\ delivered' \in Seq(Message)
      BY <1>1, <1>2, Zenon DEF TypeOK
    <3> QED
      BY <1>6, <2>1, <3>1, <3>2, <3>3, Zenon DEF TypeOK
  <2>3. \A e \in Elements(telemetry') : e.key \in Keys /\ e.id < nextId'
    BY <1>1, <1>2, <1>5, <1>6
  <2>4. \A e \in Elements(control') : e.key = None /\ e.id < nextId'
    BY <1>2, QueuedAreOld
  <2>5. ASSUME NEW p \in Producers, pending[p] # None
        PROVE  pending[p].id < nextId'
    BY <1>1, <1>2, <2>5 DEF MemoryInv, Identity, TypeOK, Message
  <2>6. Identity'
    BY <1>1, <1>2, <1>6, <2>3, <2>4, <2>5 DEF MemoryInv, Identity
  <2>7. LaneSize(control)' = LaneSize(control) /\ LaneSize(telemetry)' = LaneSize(telemetry')
    BY <1>2 DEF LaneSize
  <2>8. LaneBytes'
    BY <1>6, <2>7 DEF LaneBytes
  <2> QED
    BY <2>2, <2>6, <2>8 DEF MemoryInv
<1>7. CASE telemetry' = rest /\ bytes' = b /\ stats' = lost(st) /\ asleep' = asleep
  <2>1. lost(st) \in Counters
    BY <1>1, <1>4, DropCountersType
  <2> QED
    BY <1>4, <1>6, <1>7, <2>1
<1>8. CASE \E k \in 0..Len(rest) :
             LET b2   == b - Freed(rest, k)
                 left == Newest(rest, k)
                 st2  == DropCounted(st, rest, k)
             IN  \/ /\ telemetry' = left /\ bytes' = b2 /\ stats' = lost(st2)
                    /\ asleep' = asleep
                 \/ /\ Fits(b2, n) /\ telemetry' = Append(left, m) /\ bytes' = b2 + n
                    /\ stats' = DepthCounted(st2, control, telemetry') /\ WakeAfterPush
  <2>1. PICK k \in 0..Len(rest) :
             LET b2   == b - Freed(rest, k)
                 left == Newest(rest, k)
                 st2  == DropCounted(st, rest, k)
             IN  \/ /\ telemetry' = left /\ bytes' = b2 /\ stats' = lost(st2)
                    /\ asleep' = asleep
                 \/ /\ Fits(b2, n) /\ telemetry' = Append(left, m) /\ bytes' = b2 + n
                    /\ stats' = DepthCounted(st2, control, telemetry') /\ WakeAfterPush
    BY <1>8
  <2> DEFINE b2   == b - Freed(rest, k)
             left == Newest(rest, k)
             st2  == DropCounted(st, rest, k)
  <2>2. /\ left \in Seq(Message) /\ Distinct(left) /\ Elements(left) \subseteq Elements(rest)
        /\ Freed(rest, k) \in Nat /\ LaneSize(rest) = LaneSize(left) + Freed(rest, k)
    BY <1>4, LaneEvict
  <2>3. LaneSize(control) \in Nat /\ LaneSize(left) \in Nat
    BY <1>1, <2>2, LaneSizeType
  <2>4. b2 = LaneSize(control) + LaneSize(left) /\ b2 \in Nat /\ b2 <= Capacity
    <3>1. /\ b = LaneSize(control) + LaneSize(rest) /\ b <= Capacity
          /\ Freed(rest, k) \in Nat /\ LaneSize(rest) = LaneSize(left) + Freed(rest, k)
      BY <1>4, <2>2
    <3> DEFINE x == LaneSize(control)
               y == LaneSize(left)
               z == Freed(rest, k)
    <3>2. x \in Nat /\ y \in Nat /\ z \in Nat /\ b = x + (y + z) /\ b <= Capacity
      BY <2>3, <3>1
    <3> HIDE DEF x, y, z, left
    <3>3. b - z = x + y /\ b - z \in Nat /\ b - z <= Capacity
      BY <3>2, CapacityAssumption
    <3> QED
      BY <3>3 DEF x, y, z
  <2>5. st2 \in Counters
    BY <1>1, <1>4, CountersType
  <2> HIDE DEF b2, left, st2
  <2>6. CASE telemetry' = left /\ bytes' = b2 /\ stats' = lost(st2) /\ asleep' = asleep
    <3>1. lost(st2) \in Counters
      BY <1>1, <2>5, DropCountersType
    <3> QED
      BY <1>6, <2>2, <2>4, <2>6, <3>1
  <2>7. CASE /\ Fits(b2, n) /\ telemetry' = Append(left, m) /\ bytes' = b2 + n
             /\ stats' = DepthCounted(st2, control, telemetry') /\ WakeAfterPush
    <3>1. \A e \in Elements(left) : e.id # m.id
      BY <1>1, <1>5, <2>2
    <3>2. /\ Append(left, m) \in Seq(Message) /\ Distinct(Append(left, m))
          /\ Elements(Append(left, m)) = Elements(left) \cup {m}
          /\ LaneSize(Append(left, m)) = LaneSize(left) + m.size
      BY <1>1, <2>2, <3>1, LanePush
    <3>3. bytes' \in Nat /\ bytes' <= Capacity
          /\ bytes' = LaneSize(control) + LaneSize(telemetry')
      <4>1. n \in Nat /\ m.size = n
        BY <1>1
      <4>2. /\ b2 + n = LaneSize(control) + LaneSize(Append(left, m))
            /\ b2 + n \in Nat /\ b2 + n <= Capacity
        <5>1. /\ LaneSize(Append(left, m)) = LaneSize(left) + n
              /\ b2 = LaneSize(control) + LaneSize(left) /\ Fits(b2, n)
          BY <2>4, <2>7, <3>2, <4>1
        <5> HIDE DEF m
        <5> QED
          BY <2>3, <4>1, <5>1, AddBytes
      <4> QED
        BY <2>7, <4>2
    <3>4. 0 \in 0..Len(telemetry')
      BY <2>7, <3>2
    <3>5. stats' \in Counters
      BY <1>1, <2>5, <2>7, <3>2, <3>4, CountersType
    <3>6. asleep' \subseteq asleep
      BY <2>7, NotifyShrinks
    <3> QED
      BY <1>6, <2>2, <2>7, <3>2, <3>3, <3>5, <3>6
  <2> QED
    BY <2>1, <2>6, <2>7 DEF b2, left, st2
<1> QED
  BY <1>3, <1>7, <1>8 DEF rest, b, st

\* waitPop keeps the memory invariant: it subtracts the message it takes.
LEMMA MemoryWaitPop == MemoryInv /\ WaitPop => MemoryInv'
<1> SUFFICES ASSUME MemoryInv, WaitPop PROVE MemoryInv'
  OBVIOUS
<1>1. /\ control \in Seq(Message) /\ telemetry \in Seq(Message) /\ TypeOK
      /\ Distinct(control) /\ Distinct(telemetry) /\ bytes \in Nat
      /\ bytes = LaneSize(control) + LaneSize(telemetry) /\ bytes <= Capacity
  BY DEF MemoryInv, TypeOK, Identity, LaneBytes
<1>0. bytes \in Nat /\ bytes = LaneSize(control) + LaneSize(telemetry) /\ bytes <= Capacity
  BY <1>1
<1>2. UNCHANGED <<stopped, stats, pending, nextId, accepted, delivered, latest>>
  BY DEF WaitPop
<1>3. LaneSize(control) \in Nat /\ LaneSize(telemetry) \in Nat
  BY <1>1, LaneSizeType
<1>4. CASE /\ UNCHANGED <<control, telemetry, bytes, hand, owed>>
           /\ consumer = "loop" /\ consumer' \in {"loop", "done"}
           /\ asleep' \in {asleep, asleep \cup {Consumer}}
  <2>1. TypeOK'
    BY <1>1, <1>2, <1>4 DEF TypeOK
  <2>2. Identity' /\ LaneBytes'
    BY <1>2, <1>4 DEF MemoryInv, Identity, LaneBytes, LaneSize, Elements, Distinct
  <2> QED
    BY <2>1, <2>2 DEF MemoryInv
<1>5. CASE /\ control # <<>> /\ hand' = Head(control) /\ control' = Tail(control)
           /\ bytes' = bytes - Head(control).size /\ consumer' = "sending" /\ WakeAfterPop
           /\ UNCHANGED <<telemetry, owed>>
  <2>1. /\ Tail(control) \in Seq(Message) /\ Head(control) \in Message
        /\ Distinct(Tail(control)) /\ Elements(Tail(control)) \subseteq Elements(control)
        /\ LaneSize(control) = LaneSize(Tail(control)) + Head(control).size
    BY <1>1, <1>5, LanePop
  <2>0. LaneSize(control) = LaneSize(Tail(control)) + Head(control).size
    BY <2>1
  <2>2. LaneSize(Tail(control)) \in Nat /\ Head(control).size \in Nat
    BY <2>1, LaneSizeType DEF Message
  <2>3. LaneSize(control)' = LaneSize(Tail(control)) /\ LaneSize(telemetry)' = LaneSize(telemetry)
    BY <1>5 DEF LaneSize
  <2>4. LaneBytes' /\ bytes' \in Nat
    <3>1. /\ bytes' = LaneSize(Tail(control)) + LaneSize(telemetry)
          /\ bytes' \in Nat /\ bytes' <= Capacity
      <4>1. bytes' = bytes - Head(control).size
        BY <1>5
      <4> QED
        BY <1>0, <1>3, <2>0, <2>2, <4>1, TakeBytes
    <3> QED
      BY <1>3, <2>2, <2>3, <3>1 DEF LaneBytes
  <2>5. asleep' \subseteq asleep
    BY <1>5, NotifyShrinks
  <2>6. TypeOK'
    BY <1>1, <1>2, <1>5, <2>1, <2>4, <2>5, NoneAssumption DEF TypeOK
  <2>7. Identity'
    BY <1>2, <1>5, <2>1 DEF MemoryInv, Identity
  <2> QED
    BY <2>4, <2>6, <2>7 DEF MemoryInv
<1>6. CASE /\ telemetry # <<>> /\ hand' = Head(telemetry) /\ telemetry' = Tail(telemetry)
           /\ bytes' = bytes - Head(telemetry).size /\ consumer' = "sending" /\ WakeAfterPop
           /\ owed' = [frames |-> owed.frames - 1,
                       bytes |-> owed.bytes - Head(telemetry).size]
           /\ UNCHANGED control
  <2>1. /\ Tail(telemetry) \in Seq(Message) /\ Head(telemetry) \in Message
        /\ Distinct(Tail(telemetry)) /\ Elements(Tail(telemetry)) \subseteq Elements(telemetry)
        /\ LaneSize(telemetry) = LaneSize(Tail(telemetry)) + Head(telemetry).size
    BY <1>1, <1>6, LanePop
  <2>0. LaneSize(telemetry) = LaneSize(Tail(telemetry)) + Head(telemetry).size
    BY <2>1
  <2>2. LaneSize(Tail(telemetry)) \in Nat /\ Head(telemetry).size \in Nat
    BY <2>1, LaneSizeType DEF Message
  <2>3. LaneSize(telemetry)' = LaneSize(Tail(telemetry)) /\ LaneSize(control)' = LaneSize(control)
    BY <1>6 DEF LaneSize
  <2>4. LaneBytes' /\ bytes' \in Nat
    <3>1. /\ bytes' = LaneSize(Tail(telemetry)) + LaneSize(control)
          /\ bytes' \in Nat /\ bytes' <= Capacity
      <4>1. bytes' = bytes - Head(telemetry).size
        BY <1>6
      <4> QED
        BY <1>0, <1>3, <2>0, <2>2, <4>1, TakeBytes
    <3> QED
      BY <1>3, <2>2, <2>3, <3>1 DEF LaneBytes
  <2>5. asleep' \subseteq asleep
    BY <1>6, NotifyShrinks
  <2>6. owed' \in [frames : Int, bytes : Int]
    <3>1. owed.frames \in Int /\ owed.bytes \in Int
      BY <1>1 DEF TypeOK
    <3>2. owed.frames - 1 \in Int /\ owed.bytes - Head(telemetry).size \in Int
      BY <2>2, <3>1
    <3> QED
      BY <1>6, <3>2
  <2>7. TypeOK'
    BY <1>1, <1>2, <1>6, <2>1, <2>4, <2>5, <2>6, NoneAssumption DEF TypeOK
  <2>8. Identity'
    BY <1>2, <1>6, <2>1 DEF MemoryInv, Identity
  <2> QED
    BY <2>4, <2>7, <2>8 DEF MemoryInv
<1> QED
  BY <1>4, <1>5, <1>6 DEF WaitPop

\* Every step keeps the memory invariant.
LEMMA MemoryNext == MemoryInv /\ [Next]_vars => MemoryInv'
<1> SUFFICES ASSUME MemoryInv, [Next]_vars PROVE MemoryInv'
  OBVIOUS
<1>1. TypeOK /\ stats \in Counters
  BY DEF MemoryInv, TypeOK
<1>2. ASSUME UNCHANGED <<control, telemetry, bytes, nextId, pending>>, TypeOK'
      PROVE  MemoryInv'
  BY <1>2 DEF MemoryInv, Identity, LaneBytes, LaneSize, Elements, Distinct
<1>3. ASSUME NEW p \in Producers, RejectControl(p) PROVE MemoryInv'
  <2>1. stats' \in Counters
    BY <1>1, <1>3 DEF RejectControl, Counters
  <2>2. /\ nextId' = nextId + 1
        /\ UNCHANGED <<control, telemetry, bytes, stopped, asleep, pending, consumer, hand,
                       accepted, delivered, latest, owed>>
    BY <1>3 DEF RejectControl, threadVars
  <2>3. TypeOK'
    BY <1>1, <2>1, <2>2 DEF TypeOK
  <2>4. \A q \in Producers : pending[q] # None => pending[q].id < nextId + 1
    BY DEF MemoryInv, Identity, TypeOK, Message
  <2>5. Elements(control)' = Elements(control) /\ Elements(telemetry)' = Elements(telemetry)
    BY <2>2 DEF Elements
  <2>6. Identity'
    BY <2>2, <2>4, <2>5, QueuedAreOld DEF MemoryInv, Identity, Distinct
  <2>7. LaneBytes'
    BY <2>2 DEF MemoryInv, LaneBytes, LaneSize, Elements
  <2> QED
    BY <2>3, <2>6, <2>7 DEF MemoryInv
<1>4. CASE Deliver
  <2>1. delivered' \in Seq(Message)
    <3>1. CASE hand.key = None
      <4>1. hand \in Message
        BY <1>1, <1>4 DEF Deliver, TypeOK
      <4> QED
        BY <1>1, <1>4, <3>1, <4>1 DEF Deliver, TypeOK
    <3>2. CASE hand.key # None
      BY <1>1, <1>4, <3>2 DEF Deliver, TypeOK
    <3> QED
      BY <3>1, <3>2
  <2>2. TypeOK'
    BY <1>1, <1>4, <2>1 DEF Deliver, TypeOK, queueVars
  <2> QED
    BY <1>2, <1>4, <2>2 DEF Deliver, queueVars
<1>5. CASE Stop
  <2>1. TypeOK'
    BY <1>1, <1>5, NotifyShrinks, LaneEmpty DEF Stop, TypeOK, ghostVars
  <2>2. Identity'
    BY <1>5, LaneEmpty DEF Stop, ghostVars, MemoryInv, Identity
  <2>3. LaneBytes'
    BY <1>5, LaneEmpty, CapacityAssumption DEF Stop, LaneBytes
  <2> QED
    BY <2>1, <2>2, <2>3 DEF MemoryInv
<1>6. CASE ResetMetrics
  <2>1. LaneSize(telemetry) \in Nat
    BY <1>1, LaneSizeType DEF TypeOK
  <2>2. Depth(control, telemetry) \in Nat /\ Len(telemetry) \in Nat
    BY <1>1 DEF Depth, TypeOK
  <2>3. stats' \in Counters /\ owed' \in [frames : Int, bytes : Int]
    BY <1>6, <2>1, <2>2 DEF ResetMetrics, Counters, LaneSize
  <2>4. TypeOK'
    BY <1>1, <1>6, <2>3 DEF ResetMetrics, TypeOK, threadVars
  <2> QED
    BY <1>2, <1>6, <2>4 DEF ResetMetrics, threadVars
<1>7. ASSUME NEW t \in Producers \cup {Consumer}, SpuriousWake(t) PROVE MemoryInv'
  <2>1. TypeOK'
    BY <1>1, <1>7 DEF SpuriousWake, TypeOK, queueVars, ghostVars
  <2> QED
    BY <1>2, <1>7, <2>1 DEF SpuriousWake, queueVars, ghostVars
<1>8. CASE UNCHANGED vars
  <2>1. TypeOK'
    BY <1>1, <1>8 DEF vars, TypeOK, queueVars, threadVars, ghostVars
  <2> QED
    BY <1>2, <1>8, <2>1 DEF vars, queueVars, threadVars, ghostVars
<1> QED
  BY <1>3, <1>4, <1>5, <1>6, <1>7, <1>8, MemoryPushControl, MemoryResumeControl,
     MemoryPushTelemetry, MemoryWaitPop DEF Next

\* m_bytes is exact and within the capacity in every reachable state, for any
\* capacity, any number of producers and keys, and any message sizes.
THEOREM MemoryBound == Spec => [](TypeOK /\ BytesAccounted)
<1>1. MemoryInv => TypeOK /\ BytesAccounted
  BY LanesAreDisjoint DEF MemoryInv
<1> QED
  BY <1>1, MemoryInit, MemoryNext, PTL DEF Spec

-----------------------------------------------------------------------------
(* No wake-up is lost, as long as every telemetry frame fits in the budget.  *)

FramesFit == \A k \in Keys : \A n \in FrameSizes[k] : n <= Capacity

\* A blocked message could be accepted by an empty queue.
PendingFits == \A p \in Producers : pending[p] # None => pending[p].size <= Capacity

WakeInv == MemoryInv /\ PendingFits /\ NoLostWakeup

\* Bytes are only held by messages, and messages only hold bytes.
LEMMA BytesMeanMessages ==
    ASSUME LaneBytes
    PROVE  control = <<>> /\ telemetry = <<>> => bytes = 0
BY LaneEmpty DEF LaneBytes

\* A message that an empty queue could take finds no room only in a queue that
\* holds bytes.
LEMMA NoRoom ==
    ASSUME NEW b \in Nat, NEW n \in Nat, n <= Capacity, ~Fits(b, n)
    PROVE  b # 0
BY CapacityAssumption DEF Fits

\* While the consumer sleeps it sleeps alone and the queue holds no byte.
LEMMA SleepsAlone ==
    ASSUME WakeInv, Consumer \in asleep
    PROVE  asleep = {Consumer} /\ bytes = 0 /\ control = <<>> /\ telemetry = <<>>
<1>1. control = <<>> /\ telemetry = <<>>
  BY DEF WakeInv, NoLostWakeup
<1>2. bytes = 0
  BY <1>1, BytesMeanMessages DEF WakeInv, MemoryInv
<1>3. Producers \cap asleep = {} /\ asleep \subseteq Producers \cup {Consumer}
  BY <1>1 DEF WakeInv, NoLostWakeup, MemoryInv, TypeOK
<1> QED
  BY <1>1, <1>2, <1>3

\* A push that leaves a message behind and calls notify_one wakes the consumer.
LEMMA PushWakesConsumer ==
    ASSUME WakeInv, WakeAfterPush, ~stopped, stopped' = stopped,
           control' # <<>> \/ telemetry' # <<>>
    PROVE  NoLostWakeup'
<1>1. Consumer \notin asleep'
  <2>1. CASE Consumer \in asleep
    BY <2>1, SleepsAlone DEF WakeAfterPush, NotifyOne
  <2>2. CASE Consumer \notin asleep
    BY <2>2, NotifyShrinks
  <2> QED
    BY <2>1, <2>2
<1> QED
  BY <1>1 DEF NoLostWakeup

\* pushControl: it sleeps only if there is something to pop.
LEMMA WakePushControl ==
    ASSUME WakeInv, NEW p \in Producers, NEW n \in ControlSizes, PushControl(p, n)
    PROVE  WakeInv'
<1>1. MemoryInv' /\ MemoryInv
  BY MemoryPushControl DEF WakeInv
<1>2. /\ control \in Seq(Message) /\ telemetry \in Seq(Message) /\ Distinct(telemetry)
      /\ pending \in [Producers -> Message \cup {None}]
      /\ n \in Nat /\ n <= Capacity /\ ~stopped /\ stopped' = stopped
  BY <1>1, SizesAssumption DEF MemoryInv, TypeOK, Identity, PushControl
<1>3. PICK k \in 0..Len(telemetry) :
        LET m    == [id |-> nextId, key |-> None, size |-> n]
            b    == bytes - Freed(telemetry, k)
            left == Newest(telemetry, k)
            st   == DropCounted(stats, telemetry, k)
        IN  \/ /\ AcceptControl(m, b, left, st) /\ pending' = pending
            \/ /\ ~Fits(b, n) /\ bytes' = b /\ telemetry' = left
               /\ pending' = [pending EXCEPT ![p] = m] /\ asleep' = asleep \cup {p}
               /\ control' = control
  BY DEF PushControl
<1> DEFINE m    == [id |-> nextId, key |-> None, size |-> n]
           b    == bytes - Freed(telemetry, k)
           left == Newest(telemetry, k)
           st   == DropCounted(stats, telemetry, k)
<1>4. CASE AcceptControl(m, b, left, st) /\ pending' = pending
  <2>1. control' = Append(control, m) /\ WakeAfterPush
    BY <1>4 DEF AcceptControl
  <2>2. control' # <<>>
    BY <1>2, <2>1
  <2>3. NoLostWakeup'
    BY <1>2, <2>1, <2>2, PushWakesConsumer
  <2> QED
    BY <1>1, <1>4, <2>3 DEF WakeInv, PendingFits
<1>5. CASE /\ ~Fits(b, n) /\ bytes' = b /\ telemetry' = left
           /\ pending' = [pending EXCEPT ![p] = m] /\ asleep' = asleep \cup {p}
           /\ control' = control
  <2>1. bytes' \in Nat /\ bytes' # 0
    <3>1. bytes' \in Nat
      BY <1>1 DEF MemoryInv, TypeOK
    <3>2. ~Fits(bytes', n)
      BY <1>5
    <3> QED
      BY <1>2, <3>1, <3>2, NoRoom
  <2>2. control' # <<>> \/ telemetry' # <<>>
    BY <1>1, <2>1, LaneEmpty DEF MemoryInv, LaneBytes
  <2>3. Consumer \notin asleep
    <3> SUFFICES ASSUME Consumer \in asleep PROVE FALSE
      OBVIOUS
    <3>1. control = <<>> /\ telemetry = <<>>
      BY SleepsAlone
    <3>2. Len(left) = 0
      <4>1. Len(telemetry) = 0 /\ k = 0
        BY <3>1
      <4>2. Len(left) = Len(telemetry) - k
        BY <1>2, LaneEvict
      <4> QED
        BY <4>1, <4>2
    <3> QED
      BY <1>2, <1>5, <2>2, <3>1, <3>2, LaneEvict
  <2>4. Consumer \notin asleep'
    BY <1>5, <2>3, ThreadsAssumption
  <2>5. NoLostWakeup'
    BY <1>2, <2>2, <2>4 DEF NoLostWakeup
  <2>6. PendingFits'
    BY <1>2, <1>5 DEF WakeInv, PendingFits
  <2> QED
    BY <1>1, <2>5, <2>6 DEF WakeInv
<1> QED
  BY <1>3, <1>4, <1>5

\* A resumed producer goes back to sleep only if there is something to pop.
LEMMA WakeResumeControl ==
    ASSUME WakeInv, NEW p \in Producers, ResumeControl(p)
    PROVE  WakeInv'
<1>1. MemoryInv' /\ MemoryInv
  BY MemoryResumeControl DEF WakeInv
<1>2. /\ control \in Seq(Message) /\ pending \in [Producers -> Message \cup {None}]
      /\ pending[p] # None /\ stopped' = stopped /\ bytes \in Nat
  BY <1>1 DEF MemoryInv, TypeOK, ResumeControl
<1>3. pending[p] \in Message /\ pending[p].size \in Nat /\ pending[p].size <= Capacity
  BY <1>2 DEF WakeInv, PendingFits, Message
<1>4. CASE /\ stopped /\ pending' = [pending EXCEPT ![p] = None]
           /\ UNCHANGED <<control, telemetry, bytes, stats, asleep, accepted>>
  BY <1>1, <1>2, <1>4 DEF WakeInv, PendingFits, NoLostWakeup
<1>5. CASE /\ ~stopped /\ AcceptControl(pending[p], bytes, telemetry, stats)
           /\ pending' = [pending EXCEPT ![p] = None]
  <2>1. control' = Append(control, pending[p]) /\ WakeAfterPush
    BY <1>5 DEF AcceptControl
  <2>2. control' # <<>>
    BY <1>2, <1>3, <2>1
  <2>3. NoLostWakeup'
    BY <1>2, <1>5, <2>1, <2>2, PushWakesConsumer
  <2> QED
    BY <1>1, <1>2, <1>5, <2>3 DEF WakeInv, PendingFits
<1>6. CASE /\ ~stopped /\ ~Fits(bytes, pending[p].size) /\ asleep' = asleep \cup {p}
           /\ UNCHANGED <<control, telemetry, bytes, stats, pending, accepted>>
  <2>1. bytes # 0
    BY <1>2, <1>3, <1>6, NoRoom
  <2>2. control # <<>> \/ telemetry # <<>>
    BY <1>1, <2>1, BytesMeanMessages DEF MemoryInv
  <2>3. NoLostWakeup'
    BY <1>2, <1>6, <2>2, ThreadsAssumption DEF WakeInv, NoLostWakeup
  <2> QED
    BY <1>1, <1>6, <2>3 DEF WakeInv, PendingFits
<1> QED
  BY <1>4, <1>5, <1>6 DEF ResumeControl

\* pushTelemetry: a frame that fits in the budget is either queued, with a
\* notification, or dropped in favour of the control messages still queued.
LEMMA WakePushTelemetry ==
    ASSUME FramesFit, WakeInv, NEW key \in Keys, NEW n \in FrameSizes[key], PushTelemetry(key, n)
    PROVE  WakeInv'
<1>1. MemoryInv' /\ MemoryInv
  BY MemoryPushTelemetry DEF WakeInv
<1>2. /\ telemetry \in Seq(Message) /\ n \in Nat /\ n <= Capacity /\ bytes \in Nat
      /\ ~stopped /\ stopped' = stopped /\ pending' = pending /\ control' = control
  BY <1>1, SizesAssumption DEF MemoryInv, TypeOK, PushTelemetry, FramesFit
<1> DEFINE m        == [id |-> nextId, key |-> key, size |-> n]
           rest(i)  == Without(telemetry, i)
           b2(i, k) == (IF i = 0 THEN bytes ELSE bytes - telemetry[i].size)
                         - Freed(rest(i), k)
<1>3. \E i \in 0..Len(telemetry) : \E k \in 0..Len(rest(i)) :
         \/ /\ ~Fits(b2(i, k), n) /\ bytes' = b2(i, k)
            /\ telemetry' = Newest(rest(i), k) /\ asleep' = asleep
         \/ telemetry' = Append(Newest(rest(i), k), m) /\ WakeAfterPush
  <2>1. ~(n > Capacity)
    BY <1>2, CapacityAssumption
  <2> QED
    BY <2>1 DEF PushTelemetry
<1>a. PICK i \in 0..Len(telemetry) : \E k \in 0..Len(rest(i)) :
         \/ /\ ~Fits(b2(i, k), n) /\ bytes' = b2(i, k)
            /\ telemetry' = Newest(rest(i), k) /\ asleep' = asleep
         \/ telemetry' = Append(Newest(rest(i), k), m) /\ WakeAfterPush
  BY <1>3
<1>b. PICK k \in 0..Len(rest(i)) :
         \/ /\ ~Fits(b2(i, k), n) /\ bytes' = b2(i, k)
            /\ telemetry' = Newest(rest(i), k) /\ asleep' = asleep
         \/ telemetry' = Append(Newest(rest(i), k), m) /\ WakeAfterPush
  BY <1>a
<1> DEFINE left == Newest(rest(i), k)
<1>4. PendingFits'
  BY <1>2 DEF WakeInv, PendingFits
<1>5. CASE ~Fits(b2(i, k), n) /\ bytes' = b2(i, k) /\ telemetry' = left /\ asleep' = asleep
  <2>1. bytes' \in Nat /\ bytes' # 0
    <3>1. ~Fits(bytes', n)
      BY <1>5
    <3>2. bytes' \in Nat
      BY <1>1 DEF MemoryInv, TypeOK
    <3> QED
      BY <1>2, <3>1, <3>2, NoRoom
  <2>2. control' # <<>> \/ telemetry' # <<>>
    BY <1>1, <2>1, LaneEmpty DEF MemoryInv, LaneBytes
  <2>3. Consumer \notin asleep
    <3> SUFFICES ASSUME Consumer \in asleep PROVE FALSE
      OBVIOUS
    <3>1. control = <<>> /\ telemetry = <<>>
      BY SleepsAlone
    <3>2. i = 0 /\ rest(i) = <<>>
      BY <1>2, <3>1 DEF Without
    <3>3. rest(i) \in Seq(Message) /\ Distinct(rest(i))
      BY <3>2, LaneEmpty
    <3>4. left \in Seq(Message) /\ Len(left) = 0
      BY <3>2, <3>3, LaneEvict
    <3> QED
      BY <1>2, <1>5, <2>2, <3>1, <3>4
  <2>4. NoLostWakeup'
    BY <1>2, <1>5, <2>2, <2>3 DEF NoLostWakeup
  <2> QED
    BY <1>1, <1>4, <2>4 DEF WakeInv
<1>6. CASE telemetry' = Append(left, m) /\ WakeAfterPush
  <2>1. left \in Seq(Message)
    BY CoalesceKeepsLane, LaneEvict, <1>1
  <2>2. telemetry' # <<>>
    BY <1>6, <2>1
  <2>3. NoLostWakeup'
    BY <1>2, <1>6, <2>2, PushWakesConsumer
  <2> QED
    BY <1>1, <1>4, <2>3 DEF WakeInv
<1> QED
  BY <1>b, <1>5, <1>6

\* If every telemetry frame fits in the budget, no blocked producer and no
\* consumer can sleep through the only notification it will get.
THEOREM WakeupsAreNotLost ==
    ASSUME FramesFit
    PROVE  Spec => []NoLostWakeup
<1>1. Init => WakeInv
  BY MemoryInit DEF Init, WakeInv, PendingFits, NoLostWakeup
<1>2. WakeInv /\ [Next]_vars => WakeInv'
  <2> SUFFICES ASSUME WakeInv, [Next]_vars PROVE WakeInv'
    OBVIOUS
  <2>1. MemoryInv' /\ MemoryInv
    BY MemoryNext DEF WakeInv
  <2>2. ASSUME UNCHANGED <<control, telemetry, stopped, pending>>, asleep' \subseteq asleep
        PROVE  WakeInv'
    BY <2>1, <2>2 DEF WakeInv, PendingFits, NoLostWakeup
  <2>3. CASE WaitPop
    <3>1. pending' = pending /\ stopped' = stopped
      BY <2>3 DEF WaitPop
    <3>2. NoLostWakeup'
      <4>1. CASE WakeAfterPop
        BY <4>1 DEF WakeAfterPop, NotifyAll, NoLostWakeup
      <4>2. CASE /\ control = <<>> /\ telemetry = <<>> /\ ~stopped
                 /\ asleep' = asleep \cup {Consumer} /\ UNCHANGED <<control, telemetry>>
        BY <3>1, <4>2, ThreadsAssumption DEF WakeInv, NoLostWakeup
      <4>3. CASE stopped /\ UNCHANGED <<control, telemetry, asleep>>
        BY <3>1, <4>3 DEF WakeInv, NoLostWakeup
      <4> QED
        BY <2>3, <4>1, <4>2, <4>3 DEF WaitPop
    <3> QED
      BY <2>1, <3>1, <3>2 DEF WakeInv, PendingFits
  <2>4. CASE Stop
    BY <2>1, <2>4 DEF Stop, WakeAfterStop, NotifyAll, WakeInv, PendingFits, NoLostWakeup
  <2>5. CASE Deliver
    BY <2>2, <2>5 DEF Deliver, queueVars
  <2>6. CASE ResetMetrics
    BY <2>2, <2>6 DEF ResetMetrics, threadVars
  <2>7. ASSUME NEW t \in Producers \cup {Consumer}, SpuriousWake(t) PROVE WakeInv'
    BY <2>2, <2>7 DEF SpuriousWake, queueVars
  <2>8. ASSUME NEW p \in Producers, RejectControl(p) PROVE WakeInv'
    BY <2>2, <2>8 DEF RejectControl, threadVars
  <2>9. CASE UNCHANGED vars
    BY <2>2, <2>9 DEF vars, queueVars, threadVars
  <2> QED
    BY <2>3, <2>4, <2>5, <2>6, <2>7, <2>8, <2>9, WakePushControl,
       WakeResumeControl, WakePushTelemetry DEF Next
<1>3. WakeInv => NoLostWakeup
  BY DEF WakeInv
<1> QED
  BY <1>1, <1>2, <1>3, PTL DEF Spec

-----------------------------------------------------------------------------
(* The reliable lane is a FIFO.                                             *)

\* Appending is concatenation of one.
LEMMA ConcatAppend ==
    ASSUME NEW s \in Seq(Message), NEW t \in Seq(Message), NEW m \in Message
    PROVE  Append(s \o t, m) = s \o Append(t, m)
<1>1. s \o t \in Seq(Message) /\ <<m>> \in Seq(Message)
  BY ConcatProperties
<1>2. Append(s \o t, m) = (s \o t) \o <<m>> /\ Append(t, m) = t \o <<m>>
  BY <1>1, AppendIsConcat
<1> QED
  BY <1>1, <1>2, ConcatAssociative

\* A sequence is its head and its tail.
LEMMA ConcatHeadTail ==
    ASSUME NEW s \in Seq(Message), NEW t \in Seq(Message), t # <<>>
    PROVE  s \o t = (s \o <<Head(t)>>) \o Tail(t)
<1>1. /\ Head(t) \in Message /\ Tail(t) \in Seq(Message) /\ Len(Tail(t)) = Len(t) - 1
      /\ \A i \in 1..Len(Tail(t)) : Tail(t)[i] = t[i + 1]
  BY HeadTailProperties
<1>2. <<Head(t)>> \in Seq(Message) /\ Len(<<Head(t)>>) = 1 /\ <<Head(t)>>[1] = t[1]
  BY <1>1
<1>3. <<Head(t)>> \o Tail(t) = t
  <2> DEFINE u == <<Head(t)>> \o Tail(t)
  <2>1. /\ u \in Seq(Message) /\ Len(u) = 1 + Len(Tail(t))
        /\ \A i \in 1..(1 + Len(Tail(t))) : u[i] = IF i <= 1 THEN <<Head(t)>>[i] ELSE Tail(t)[i - 1]
    BY <1>1, <1>2, ConcatProperties
  <2>2. \A i \in 1..Len(t) : u[i] = t[i]
    BY <1>1, <1>2, <2>1
  <2> HIDE DEF u
  <2>3. u = t
    BY <1>1, <2>1, <2>2, SeqEqual
  <2> QED
    BY <2>3 DEF u
<1> QED
  BY <1>1, <1>2, <1>3, ConcatAssociative

\* What comes first is a prefix.
LEMMA ConcatPrefix ==
    ASSUME NEW s \in Seq(Message), NEW t \in Seq(Message)
    PROVE  s = SubSeq(s \o t, 1, Len(s))
<1>1. /\ s \o t \in Seq(Message) /\ Len(s \o t) = Len(s) + Len(t) /\ Len(s) \in Nat /\ Len(t) \in Nat
      /\ \A i \in 1..(Len(s) + Len(t)) : (s \o t)[i] = IF i <= Len(s) THEN s[i] ELSE t[i - Len(s)]
  BY ConcatProperties, LenProperties
<1>2. \A i \in 1..Len(s) : (s \o t)[i] = s[i] /\ s[i] \in Message
  BY <1>1, ElementOfSeq
<1> DEFINE u == SubSeq(s \o t, 1, Len(s))
<1>3. /\ u \in Seq(Message) /\ Len(u) = Len(s)
      /\ \A i \in 1..Len(s) : u[i] = (s \o t)[i]
  <2>1. /\ u \in Seq(Message) /\ Len(u) = IF 1 <= Len(s) THEN Len(s) - 1 + 1 ELSE 0
        /\ \A i \in 1..(Len(s) - 1 + 1) : u[i] = (s \o t)[1 + i - 1]
    BY <1>1, <1>2, SubSeqProperties
  <2> HIDE DEF u
  <2> QED
    BY <1>1, <2>1
<1> HIDE DEF u
<1>4. u = s
  BY <1>2, <1>3, SeqEqual
<1> QED
  BY <1>4 DEF u

\* The counters after the new frame was refused.
Refused(st, n) == [st EXCEPT !.dropped = @ + 1, !.droppedBytes = @ + n]

\* What pushTelemetry leaves in the lane and in the counters once the frame at i is gone: the
\* new one m is too large, or it does not fit, or it is queued.
Offered(i, m) ==
    \/ telemetry' = Without(telemetry, i) /\ stats' = Refused(CoalesceCounted(i), m.size)
    \/ \E k \in 0..Len(Without(telemetry, i)) :
          \/ /\ telemetry' = Newest(Without(telemetry, i), k)
             /\ stats' = Refused(DropCounted(CoalesceCounted(i), Without(telemetry, i), k), m.size)
          \/ /\ telemetry' = Append(Newest(Without(telemetry, i), k), m)
             /\ stats' = DepthCounted(DropCounted(CoalesceCounted(i), Without(telemetry, i), k),
                                      control, telemetry')

\* An offer replaces the frame of its key, if there is one, or comes last.
LEMMA TelemetryCases ==
    ASSUME NEW key, NEW n, PushTelemetry(key, n)
    PROVE  \E i \in 0..Len(telemetry) :
             IsExisting(i, key) /\ Offered(i, [id |-> nextId, key |-> key, size |-> n])
<1>1. [id |-> nextId, key |-> key, size |-> n].size = n
  OBVIOUS
<1> QED
  BY <1>1, Zenon DEF PushTelemetry, Offered, Refused

\* What every offer of telemetry does, whatever becomes of it.
LEMMA TelemetryFrame ==
    ASSUME NEW key, NEW n, PushTelemetry(key, n)
    PROVE  /\ ~stopped
           /\ latest' = [latest EXCEPT ![key] = nextId]
           /\ owed' = [frames |-> owed.frames + 1, bytes |-> owed.bytes + n]
           /\ UNCHANGED <<control, stopped, pending, consumer, hand, accepted, delivered>>
BY Zenon DEF PushTelemetry

\* The control message that the consumer holds makes a sequence.
LEMMA InHandType ==
    ASSUME TypeOK
    PROVE  InHand \in Seq(Message) /\ delivered \o InHand \in Seq(Message)
<1>1. InHand \in Seq(Message)
  BY DEF TypeOK, InHand
<1> QED
  BY <1>1, ConcatProperties DEF TypeOK

\* A push to the control lane is a push to the messages accepted.
LEMMA FifoAccept ==
    ASSUME TypeOK, ControlFifo, ~stopped, NEW m \in Message,
           control' = Append(control, m), accepted' = Append(accepted, m),
           UNCHANGED <<stopped, hand, delivered>>
    PROVE  ControlFifo'
<1>1. InHand' = InHand
  BY DEF InHand
<1>2. Append((delivered \o InHand) \o control, m) = (delivered \o InHand) \o Append(control, m)
  BY InHandType, ConcatAppend DEF TypeOK
<1> QED
  BY <1>1, <1>2 DEF ControlFifo

LEMMA FifoWaitPop ==
    ASSUME MemoryInv, ControlFifo, WaitPop
    PROVE  ControlFifo'
<1>1. /\ UNCHANGED <<stopped, accepted, delivered>> /\ TypeOK /\ hand = None /\ InHand = <<>>
      /\ control \in Seq(Message) /\ delivered \in Seq(Message) /\ telemetry \in Seq(Message)
  BY DEF WaitPop, MemoryInv, TypeOK, InHand
<1>2. CASE UNCHANGED <<control, hand>>
  BY <1>1, <1>2 DEF ControlFifo, InHand
<1>3. CASE ~stopped /\ control # <<>> /\ hand' = Head(control) /\ control' = Tail(control)
  <2>1. Head(control) \in Elements(control) /\ Head(control) \in Message
    BY <1>1, <1>3, LanePop DEF MemoryInv, Identity
  <2>2. InHand' = <<Head(control)>>
    BY <1>3, <2>1, QueuedAreOld, NoneAssumption DEF InHand
  <2>3. accepted = delivered \o control
    BY <1>1, <1>3, ConcatEmptySeq DEF ControlFifo
  <2>4. delivered \o control = (delivered \o <<Head(control)>>) \o Tail(control)
    BY <1>1, <1>3, ConcatHeadTail
  <2> QED
    BY <1>1, <1>3, <2>2, <2>3, <2>4 DEF ControlFifo
<1>4. CASE ~stopped /\ telemetry # <<>> /\ hand' = Head(telemetry) /\ control' = control
  <2>1. Head(telemetry) \in Elements(telemetry)
    BY <1>1, <1>4, LanePop DEF MemoryInv, Identity
  <2>2. InHand' = <<>>
    BY <1>4, <2>1, QueuedAreOld, KeysAssumption DEF InHand
  <2> QED
    BY <1>1, <1>4, <2>2 DEF ControlFifo
<1> QED
  BY <1>2, <1>3, <1>4 DEF WaitPop

LEMMA FifoDeliver ==
    ASSUME MemoryInv, ControlFifo, Deliver
    PROVE  ControlFifo'
<1>1. /\ hand \in Message /\ hand # None /\ hand' = None /\ delivered \in Seq(Message)
      /\ UNCHANGED <<control, stopped, accepted>>
      /\ delivered' = IF hand.key = None THEN Append(delivered, hand) ELSE delivered
  BY DEF Deliver, queueVars, MemoryInv, TypeOK
<1>2. InHand' = <<>>
  BY <1>1 DEF InHand
<1>3. delivered' \in Seq(Message)
  BY <1>1, AppendProperties
<1>4. delivered' = delivered \o InHand
  BY <1>1, AppendIsConcat, ConcatEmptySeq DEF InHand
<1>5. delivered' \o InHand' = delivered \o InHand
  BY <1>2, <1>3, <1>4, ConcatEmptySeq
<1> QED
  BY <1>1, <1>5 DEF ControlFifo

\* Control messages are delivered in the order they were accepted, none is lost before
\* stop() and none is delivered twice, for any producers, sizes and capacity (m_control of
\* NotificationQueue.cpp and the loop of IpcServer that empties it).
THEOREM ControlIsFifo == Spec => []ControlFifo
<1>1. Init => ControlFifo
  BY DEF Init, ControlFifo, InHand
<1>2. MemoryInv /\ ControlFifo /\ [Next]_vars => ControlFifo'
  <2> SUFFICES ASSUME MemoryInv, ControlFifo, [Next]_vars PROVE ControlFifo'
    OBVIOUS
  <2>1. TypeOK
    BY DEF MemoryInv
  <2>2. ASSUME UNCHANGED <<control, stopped, hand, accepted, delivered>>
        PROVE  ControlFifo'
    BY <2>2 DEF ControlFifo, InHand
  <2>3. ASSUME NEW p \in Producers, NEW n \in ControlSizes, PushControl(p, n)
        PROVE  ControlFifo'
    <3> DEFINE m == [id |-> nextId, key |-> None, size |-> n]
    <3>1. m \in Message
      BY <2>1, SizesAssumption DEF Message, TypeOK
    <3>2. ~stopped /\ UNCHANGED <<stopped, hand, delivered>>
      BY <2>3 DEF PushControl
    <3>3. \/ control' = Append(control, m) /\ accepted' = Append(accepted, m)
          \/ UNCHANGED <<control, accepted>>
      BY <2>3 DEF PushControl, AcceptControl
    <3> QED
      BY <2>1, <2>2, <3>1, <3>2, <3>3, FifoAccept
  <2>4. ASSUME NEW p \in Producers, ResumeControl(p)
        PROVE  ControlFifo'
    <3>1. pending[p] \in Message /\ UNCHANGED <<stopped, hand, delivered>>
      BY <2>1, <2>4 DEF ResumeControl, TypeOK
    <3>2. \/ ~stopped /\ control' = Append(control, pending[p]) /\ accepted' = Append(accepted, pending[p])
          \/ UNCHANGED <<control, accepted>>
      BY <2>4 DEF ResumeControl, AcceptControl
    <3> QED
      BY <2>1, <2>2, <3>1, <3>2, FifoAccept
  <2>5. CASE Stop
    <3>1. UNCHANGED <<hand, accepted, delivered>> /\ stopped' = TRUE /\ InHand' = InHand
      BY <2>5 DEF Stop, ghostVars, InHand
    <3>2. ~stopped => delivered \o InHand = SubSeq(accepted, 1, Len(delivered \o InHand))
      BY <2>1, InHandType, ConcatPrefix DEF ControlFifo, TypeOK
    <3> QED
      BY <3>1, <3>2 DEF ControlFifo
  <2>6. CASE WaitPop
    BY <2>6, FifoWaitPop
  <2>7. CASE Deliver
    BY <2>7, FifoDeliver
  <2>8. ASSUME NEW key \in Keys, NEW n \in FrameSizes[key], PushTelemetry(key, n)
        PROVE  ControlFifo'
    <3>1. UNCHANGED <<control, stopped, hand, accepted, delivered>>
      BY <2>8, TelemetryFrame
    <3> QED
      BY <2>2, <3>1
  <2>9. CASE \/ \E p \in Producers : RejectControl(p)
             \/ ResetMetrics
             \/ \E t \in Producers \cup {Consumer} : SpuriousWake(t)
             \/ UNCHANGED vars
    BY <2>2, <2>9 DEF RejectControl, ResetMetrics, SpuriousWake, vars, queueVars, threadVars, ghostVars
  <2> QED
    BY <2>3, <2>4, <2>5, <2>6, <2>7, <2>8, <2>9 DEF Next
<1> QED
  BY <1>1, <1>2, MemoryInit, MemoryNext, PTL DEF Spec

-----------------------------------------------------------------------------
(* A queued frame is the newest of its stream.                              *)

Fresh(S) == \A e \in S : e.id = latest[e.key]

LEMMA FreshElements == FreshTelemetry <=> Fresh(Elements(telemetry))
BY DEF FreshTelemetry, Fresh, Elements

\* Once the frame at the place that IsExisting finds is gone, its stream has none.
LEMMA CoalescedIsOnly ==
    ASSUME MemoryInv, FreshTelemetry, NEW key \in Keys, NEW i \in 0..Len(telemetry),
           IsExisting(i, key)
    PROVE  \A e \in Elements(Without(telemetry, i)) : e.key # key /\ e \in Elements(telemetry)
<1>1. telemetry \in Seq(Message) /\ Distinct(telemetry)
  BY DEF MemoryInv, TypeOK, Identity
<1>2. CASE i = 0
  BY <1>1, <1>2 DEF IsExisting, Without, Elements
<1>3. CASE i # 0
  <2>1. /\ Elements(telemetry) = Elements(Without(telemetry, i)) \cup {telemetry[i]}
        /\ telemetry[i] \notin Elements(Without(telemetry, i))
    BY <1>1, <1>3, ElementsWithout
  <2>2. \A j \in 1..Len(telemetry) : telemetry[j].key = key => telemetry[j] = telemetry[i]
    BY <1>1, <1>3 DEF IsExisting, FreshTelemetry, Distinct
  <2> QED
    BY <2>1, <2>2 DEF Elements
<1> QED
  BY <1>2, <1>3

\* A frame in the queue is always the last one offered for its key, whatever was evicted,
\* replaced or refused since (the erase of the frame with the same streamKey in pushTelemetry
\* comes before every refusal).
THEOREM TelemetryIsFresh == Spec => []FreshTelemetry
<1>1. Init => FreshTelemetry
  BY DEF Init, FreshTelemetry
<1>2. MemoryInv /\ FreshTelemetry /\ [Next]_vars => FreshTelemetry'
  <2> SUFFICES ASSUME MemoryInv, FreshTelemetry, [Next]_vars PROVE FreshTelemetry'
    OBVIOUS
  <2>1. telemetry \in Seq(Message) /\ Distinct(telemetry) /\ latest \in [Keys -> Nat \cup {-1}]
    BY DEF MemoryInv, TypeOK, Identity
  <2>2. ASSUME Elements(telemetry)' \subseteq Elements(telemetry), latest' = latest
        PROVE  FreshTelemetry'
    BY <2>2, FreshElements DEF FreshTelemetry, Fresh, Elements
  <2>3. ASSUME NEW k \in 0..Len(telemetry), telemetry' = Newest(telemetry, k), latest' = latest
        PROVE  FreshTelemetry'
    <3>1. Elements(telemetry') \subseteq Elements(telemetry)
      BY <2>1, <2>3, LaneEvict
    <3> QED
      BY <2>2, <2>3, <3>1 DEF Elements
  <2>4. ASSUME NEW p \in Producers, NEW n \in ControlSizes, PushControl(p, n)
        PROVE  FreshTelemetry'
    BY <2>3, <2>4 DEF PushControl, AcceptControl
  <2>5. ASSUME NEW p \in Producers, ResumeControl(p)
        PROVE  FreshTelemetry'
    BY <2>2, <2>5 DEF ResumeControl, AcceptControl, Elements
  <2>6. ASSUME NEW key \in Keys, NEW n \in FrameSizes[key], PushTelemetry(key, n)
        PROVE  FreshTelemetry'
    <3> DEFINE m == [id |-> nextId, key |-> key, size |-> n]
    <3>1. PICK i \in 0..Len(telemetry) : IsExisting(i, key) /\ Offered(i, m)
      BY <2>6, TelemetryCases
    <3> DEFINE rest == Without(telemetry, i)
    <3>2. rest \in Seq(Message) /\ Distinct(rest)
      BY CoalesceKeepsLane
    <3>3. \A e \in Elements(rest) : e.key # key /\ e \in Elements(telemetry)
      BY <3>1, CoalescedIsOnly
    <3> HIDE DEF rest
    <3>a. latest' = [latest EXCEPT ![key] = nextId]
      BY <2>6, TelemetryFrame
    <3>b. nextId \in Nat
      BY DEF MemoryInv, TypeOK
    <3>4. m \in Message
      BY <3>b, SizesAssumption DEF Message
    <3>5. \A k \in 0..Len(rest) :
             /\ Newest(rest, k) \in Seq(Message)
             /\ Elements(Newest(rest, k)) \subseteq Elements(rest)
      BY <3>2, LaneEvict
    <3>6. \A k \in 0..Len(rest) :
             Elements(Append(Newest(rest, k), m)) = Elements(Newest(rest, k)) \cup {m}
      BY <3>4, <3>5, ElementsAppend
    <3>7. Elements(telemetry') \subseteq Elements(rest) \cup {m}
      BY <3>1, <3>5, <3>6 DEF Offered, rest
    <3>8. \A e \in Elements(rest) : e.id = latest'[e.key]
      <4>1. \A e \in Elements(rest) : e.id = latest[e.key] /\ e.key \in Keys
        BY <3>3, FreshElements, QueuedAreOld DEF Fresh
      <4> QED
        BY <2>1, <3>3, <3>a, <4>1
    <3>9. m.id = latest'[m.key]
      BY <2>1, <3>a
    <3> QED
      BY <3>7, <3>8, <3>9 DEF FreshTelemetry, Elements
  <2>7. CASE WaitPop
    <3>1. latest' = latest
      BY <2>7 DEF WaitPop
    <3>3. CASE telemetry' = telemetry
      BY <2>2, <3>1, <3>3 DEF Elements
    <3>4. CASE telemetry # <<>> /\ telemetry' = Tail(telemetry)
      <4>1. Elements(Tail(telemetry)) \subseteq Elements(telemetry)
        BY <2>1, <3>4, LanePop
      <4> QED
        BY <2>2, <3>1, <3>4, <4>1 DEF Elements
    <3> QED
      BY <2>7, <3>3, <3>4 DEF WaitPop
  <2>8. CASE Stop
    BY <2>8 DEF Stop, FreshTelemetry
  <2>9. CASE \/ \E p \in Producers : RejectControl(p)
             \/ Deliver \/ ResetMetrics
             \/ \E t \in Producers \cup {Consumer} : SpuriousWake(t)
             \/ UNCHANGED vars
    BY <2>2, <2>9 DEF RejectControl, Deliver, ResetMetrics, SpuriousWake, vars, queueVars,
       ghostVars, Elements
  <2> QED
    BY <2>4, <2>5, <2>6, <2>7, <2>8, <2>9 DEF Next
<1> QED
  BY <1>1, <1>2, MemoryInit, MemoryNext, PTL DEF Spec

-----------------------------------------------------------------------------
(* The counters account for every frame.                                    *)

\* The frames and the bytes that are queued or counted as dropped.
FramesHeld(t, st) == Len(t) + st.dropped
BytesHeld(t, st) == LaneSize(t) + st.droppedBytes

\* The counters are numbers.
LEMMA HeldTypes ==
    /\ \A st \in Counters : st.dropped \in Nat /\ st.droppedBytes \in Nat
    /\ \A m \in Message : m.size \in Nat
BY DEF Counters, Message

\* What leaves the lane for the counter leaves the sum alone.
LEMMA Moved ==
    ASSUME NEW kept \in Nat, NEW gone \in Nat, NEW count \in Nat, NEW all, all = kept + gone
    PROVE  /\ kept + (count + gone) = all + count
           /\ (all + count) - gone = kept + count
           /\ all + count = (kept + count) + gone
OBVIOUS

\* A frame that leaves the lane and enters a counter is held as before.
LEMMA MovedOne ==
    ASSUME NEW kept \in Nat, NEW count \in Nat, NEW all, all = kept + 1
    PROVE  kept + (count + 1) = all + count /\ all + count = (kept + count) + 1
OBVIOUS

\* Eviction moves frames from the lane to the counters.
LEMMA EvictHolds ==
    ASSUME NEW t \in Seq(Message), Distinct(t), NEW k \in 0..Len(t), NEW st \in Counters
    PROVE  /\ FramesHeld(Newest(t, k), DropCounted(st, t, k)) = FramesHeld(t, st)
           /\ BytesHeld(Newest(t, k), DropCounted(st, t, k)) = BytesHeld(t, st)
           /\ DropCounted(st, t, k) \in Counters
<1>1. /\ Newest(t, k) \in Seq(Message) /\ Len(Newest(t, k)) = Len(t) - k /\ Freed(t, k) \in Nat
      /\ LaneSize(t) = LaneSize(Newest(t, k)) + Freed(t, k)
  BY LaneEvict
<1>2. LaneSize(Newest(t, k)) \in Nat
  BY <1>1, LaneSizeType
<1>3. /\ st.dropped \in Nat /\ st.droppedBytes \in Nat /\ k \in Nat
      /\ Len(Newest(t, k)) \in Nat /\ Len(t) = Len(Newest(t, k)) + k
  BY <1>1, HeldTypes
<1>4. /\ DropCounted(st, t, k).dropped = st.dropped + k
      /\ DropCounted(st, t, k).droppedBytes = st.droppedBytes + Freed(t, k)
  BY DEF DropCounted, Counters
<1>5. DropCounted(st, t, k) \in Counters
  BY <1>1, <1>3, DropCountersType DEF DropCounted
<1>6. FramesHeld(Newest(t, k), DropCounted(st, t, k)) = FramesHeld(t, st)
  BY <1>3, <1>4, Moved DEF FramesHeld
<1>7. BytesHeld(Newest(t, k), DropCounted(st, t, k)) = BytesHeld(t, st)
  BY <1>1, <1>2, <1>3, <1>4, Moved DEF BytesHeld
<1> QED
  BY <1>5, <1>6, <1>7

\* Coalescing moves the replaced frame from the lane to the counters.
LEMMA CoalesceHolds ==
    ASSUME MemoryInv, NEW i \in 0..Len(telemetry)
    PROVE  /\ FramesHeld(Without(telemetry, i), CoalesceCounted(i)) = FramesHeld(telemetry, stats)
           /\ BytesHeld(Without(telemetry, i), CoalesceCounted(i)) = BytesHeld(telemetry, stats)
<1>1. telemetry \in Seq(Message) /\ Distinct(telemetry) /\ stats \in Counters
  BY DEF MemoryInv, TypeOK, Identity
<1>2. CASE i = 0
  BY <1>2 DEF Without, CoalesceCounted
<1>3. CASE i # 0
  <2>1. i \in 1..Len(telemetry) /\ telemetry[i] \in Message /\ telemetry[i].size \in Nat
    BY <1>1, <1>3, HeldTypes
  <2>2. /\ Without(telemetry, i) \in Seq(Message)
        /\ Len(Without(telemetry, i)) = Len(telemetry) - 1
        /\ Elements(telemetry) = Elements(Without(telemetry, i)) \cup {telemetry[i]}
        /\ telemetry[i] \notin Elements(Without(telemetry, i))
    BY <1>1, <2>1, ElementsWithout
  <2>3. LaneSize(telemetry) = LaneSize(Without(telemetry, i)) + telemetry[i].size
    BY <1>1, <2>1, <2>2, LaneTake
  <2>4. LaneSize(Without(telemetry, i)) \in Nat
    BY <2>2, LaneSizeType
  <2>5. /\ stats.dropped \in Nat /\ stats.droppedBytes \in Nat
        /\ Len(Without(telemetry, i)) \in Nat
        /\ Len(telemetry) = Len(Without(telemetry, i)) + 1
    BY <1>1, <2>2, HeldTypes
  <2>6. /\ CoalesceCounted(i).dropped = stats.dropped + 1
        /\ CoalesceCounted(i).droppedBytes = stats.droppedBytes + telemetry[i].size
    BY <1>1, <1>3 DEF CoalesceCounted, Counters
  <2> QED
    <3>1. FramesHeld(Without(telemetry, i), CoalesceCounted(i)) = FramesHeld(telemetry, stats)
      <4> DEFINE rest == Len(Without(telemetry, i))
                 lane == Len(telemetry)
      <4>1. rest \in Nat /\ lane = rest + 1
        BY <2>5
      <4> HIDE DEF rest, lane
      <4>2. rest + (stats.dropped + 1) = lane + stats.dropped
        BY <2>5, <4>1, MovedOne
      <4> QED
        BY <2>6, <4>2 DEF FramesHeld, rest, lane
    <3>2. BytesHeld(Without(telemetry, i), CoalesceCounted(i)) = BytesHeld(telemetry, stats)
      BY <2>1, <2>3, <2>4, <2>5, <2>6, Moved DEF BytesHeld
    <3> QED
      BY <3>1, <3>2
<1> QED
  BY <1>2, <1>3

\* A refused frame is held by the counters, a queued one by the lane, and the depth counter
\* holds nothing.
LEMMA OfferHolds ==
    ASSUME NEW t \in Seq(Message), Distinct(t), NEW st \in Counters, NEW m \in Message
    PROVE  /\ FramesHeld(t, Refused(st, m.size)) = FramesHeld(t, st) + 1
           /\ BytesHeld(t, Refused(st, m.size)) = BytesHeld(t, st) + m.size
           /\ \A c, u : /\ FramesHeld(t, DepthCounted(st, c, u)) = FramesHeld(t, st)
                        /\ BytesHeld(t, DepthCounted(st, c, u)) = BytesHeld(t, st)
           /\ (\A e \in Elements(t) : e.id # m.id) =>
                 /\ FramesHeld(Append(t, m), st) = FramesHeld(t, st) + 1
                 /\ BytesHeld(Append(t, m), st) = BytesHeld(t, st) + m.size
<1>1. /\ st.dropped \in Nat /\ st.droppedBytes \in Nat /\ LaneSize(t) \in Nat /\ Len(t) \in Nat
      /\ m.size \in Nat
  BY LaneSizeType, HeldTypes
<1>2. /\ Refused(st, m.size).dropped = st.dropped + 1
      /\ Refused(st, m.size).droppedBytes = st.droppedBytes + m.size
  BY DEF Refused, Counters
<1>3. \A c, u : /\ DepthCounted(st, c, u).dropped = st.dropped
                /\ DepthCounted(st, c, u).droppedBytes = st.droppedBytes
  BY DEF DepthCounted, Counters
<1>4. (\A e \in Elements(t) : e.id # m.id) =>
         Len(Append(t, m)) = Len(t) + 1 /\ LaneSize(Append(t, m)) = LaneSize(t) + m.size
  BY LanePush
<1>5. /\ FramesHeld(t, Refused(st, m.size)) = FramesHeld(t, st) + 1
      /\ BytesHeld(t, Refused(st, m.size)) = BytesHeld(t, st) + m.size
  BY <1>1, <1>2 DEF FramesHeld, BytesHeld
<1>6. \A c, u : /\ FramesHeld(t, DepthCounted(st, c, u)) = FramesHeld(t, st)
                /\ BytesHeld(t, DepthCounted(st, c, u)) = BytesHeld(t, st)
  BY <1>3 DEF FramesHeld, BytesHeld
<1>7. (\A e \in Elements(t) : e.id # m.id) =>
         /\ FramesHeld(Append(t, m), st) = FramesHeld(t, st) + 1
         /\ BytesHeld(Append(t, m), st) = BytesHeld(t, st) + m.size
  <2> SUFFICES ASSUME \A e \in Elements(t) : e.id # m.id
               PROVE  /\ FramesHeld(Append(t, m), st) = FramesHeld(t, st) + 1
                      /\ BytesHeld(Append(t, m), st) = BytesHeld(t, st) + m.size
    OBVIOUS
  <2> DEFINE u == Append(t, m)
  <2>1. Len(u) = Len(t) + 1 /\ LaneSize(u) = LaneSize(t) + m.size
    BY <1>4
  <2> HIDE DEF u
  <2>2. FramesHeld(u, st) = FramesHeld(t, st) + 1
    <3> DEFINE lane == Len(t)
               more == Len(u)
               gone == st.dropped
    <3>1. lane \in Nat /\ gone \in Nat /\ more = lane + 1
      BY <1>1, <2>1
    <3> HIDE DEF lane, more, gone
    <3>2. more + gone = (lane + gone) + 1
      BY <3>1, MovedOne
    <3> QED
      BY <3>2 DEF FramesHeld, lane, more, gone
  <2>3. BytesHeld(u, st) = BytesHeld(t, st) + m.size
    BY <1>1, <2>1, Moved DEF BytesHeld
  <2> QED
    BY <2>2, <2>3 DEF u
<1> QED
  BY <1>5, <1>6, <1>7

LEMMA AccountedPushTelemetry ==
    ASSUME MemoryInv, TelemetryAccounted,
           NEW key \in Keys, NEW n \in FrameSizes[key], PushTelemetry(key, n)
    PROVE  TelemetryAccounted'
<1> DEFINE m == [id |-> nextId, key |-> key, size |-> n]
<1>1. PICK i \in 0..Len(telemetry) : IsExisting(i, key) /\ Offered(i, m)
  BY TelemetryCases
<1> DEFINE rest == Without(telemetry, i)
           st   == CoalesceCounted(i)
<1>2. /\ rest \in Seq(Message) /\ Distinct(rest) /\ Elements(rest) \subseteq Elements(telemetry)
      /\ st \in Counters
  BY CoalesceKeepsLane
<1>3. owed.frames = FramesHeld(rest, st) /\ owed.bytes = BytesHeld(rest, st)
  BY CoalesceHolds, TelemetryFrame DEF TelemetryAccounted, FramesHeld, BytesHeld, LaneSize
<1>4. m \in Message /\ m.size = n
  BY SizesAssumption DEF MemoryInv, TypeOK, Message
<1>5. \A e \in Elements(rest) : e.id # m.id
  <2>1. \A e \in Elements(telemetry) : e.id \in Nat /\ e.id < nextId
    BY QueuedAreOld
  <2>2. nextId \in Nat
    BY DEF MemoryInv, TypeOK
  <2> QED
    BY <1>2, <2>1, <2>2
<1>6. owed'.frames = owed.frames + 1 /\ owed'.bytes = owed.bytes + n
  BY TelemetryFrame
<1>7. \/ telemetry' = rest /\ stats' = Refused(st, n)
      \/ \E k \in 0..Len(rest) :
            \/ telemetry' = Newest(rest, k) /\ stats' = Refused(DropCounted(st, rest, k), n)
            \/ /\ telemetry' = Append(Newest(rest, k), m)
               /\ stats' = DepthCounted(DropCounted(st, rest, k), control, telemetry')
  BY <1>1, <1>4 DEF Offered
<1> HIDE DEF m, rest, st
<1>8. CASE telemetry' = rest /\ stats' = Refused(st, n)
  <2>1. FramesHeld(telemetry', stats') = owed'.frames /\ BytesHeld(telemetry', stats') = owed'.bytes
    BY <1>2, <1>3, <1>4, <1>6, <1>8, OfferHolds
  <2> QED
    BY <2>1 DEF TelemetryAccounted, FramesHeld, BytesHeld, LaneSize
<1>9. ASSUME NEW k \in 0..Len(rest),
             \/ telemetry' = Newest(rest, k) /\ stats' = Refused(DropCounted(st, rest, k), n)
             \/ /\ telemetry' = Append(Newest(rest, k), m)
                /\ stats' = DepthCounted(DropCounted(st, rest, k), control, telemetry')
      PROVE  TelemetryAccounted'
  <2> DEFINE left == Newest(rest, k)
             st2  == DropCounted(st, rest, k)
  <2>1. /\ left \in Seq(Message) /\ Distinct(left) /\ Elements(left) \subseteq Elements(rest)
        /\ st2 \in Counters
        /\ FramesHeld(left, st2) = owed.frames /\ BytesHeld(left, st2) = owed.bytes
    BY <1>2, <1>3, LaneEvict, EvictHolds
  <2>2. \/ telemetry' = left /\ stats' = Refused(st2, n)
        \/ telemetry' = Append(left, m) /\ stats' = DepthCounted(st2, control, telemetry')
    BY <1>9
  <2> HIDE DEF left, st2
  <2>3. \A e \in Elements(left) : e.id # m.id
    BY <1>5, <2>1
  <2>4. Append(left, m) \in Seq(Message) /\ Distinct(Append(left, m))
    BY <1>4, <2>1, <2>3, LanePush
  <2>5. FramesHeld(telemetry', stats') = owed'.frames /\ BytesHeld(telemetry', stats') = owed'.bytes
    <3>1. CASE telemetry' = left /\ stats' = Refused(st2, n)
      BY <1>4, <1>6, <2>1, <3>1, OfferHolds
    <3>2. CASE telemetry' = Append(left, m) /\ stats' = DepthCounted(st2, control, telemetry')
      <4>1. /\ FramesHeld(Append(left, m), st2) = owed.frames + 1
            /\ BytesHeld(Append(left, m), st2) = owed.bytes + n
        BY <1>4, <2>1, <2>3, OfferHolds
      <4> DEFINE queued == Append(left, m)
      <4>a. queued \in Seq(Message) /\ Distinct(queued) /\ telemetry' = queued
        BY <2>4, <3>2
      <4> HIDE DEF queued
      <4>b. \A c, u : /\ FramesHeld(queued, DepthCounted(st2, c, u)) = FramesHeld(queued, st2)
                      /\ BytesHeld(queued, DepthCounted(st2, c, u)) = BytesHeld(queued, st2)
        BY <1>4, <2>1, <4>a, OfferHolds
      <4>2. /\ FramesHeld(telemetry', stats') = FramesHeld(Append(left, m), st2)
            /\ BytesHeld(telemetry', stats') = BytesHeld(Append(left, m), st2)
        BY <3>2, <4>a, <4>b, Zenon DEF queued
      <4> QED
        BY <1>6, <4>1, <4>2
    <3> QED
      BY <2>2, <3>1, <3>2
  <2> QED
    BY <2>5 DEF TelemetryAccounted, FramesHeld, BytesHeld, LaneSize
<1> QED
  BY <1>7, <1>8, <1>9

LEMMA AccountedPushControl ==
    ASSUME MemoryInv, TelemetryAccounted,
           NEW p \in Producers, NEW n \in ControlSizes, PushControl(p, n)
    PROVE  TelemetryAccounted'
<1>1. ~stopped /\ owed' = owed
  BY DEF PushControl
<1>2. PICK k \in 0..Len(telemetry) :
         /\ telemetry' = Newest(telemetry, k)
         /\ \/ stats' = DropCounted(stats, telemetry, k)
            \/ \E c, u : stats' = DepthCounted(DropCounted(stats, telemetry, k), c, u)
  BY Zenon DEF PushControl, AcceptControl
<1>3. telemetry \in Seq(Message) /\ Distinct(telemetry) /\ stats \in Counters
  BY DEF MemoryInv, TypeOK, Identity
<1> DEFINE left == Newest(telemetry, k)
           st   == DropCounted(stats, telemetry, k)
<1>4. /\ left \in Seq(Message) /\ Distinct(left) /\ st \in Counters
      /\ FramesHeld(left, st) = FramesHeld(telemetry, stats)
      /\ BytesHeld(left, st) = BytesHeld(telemetry, stats)
  BY <1>3, LaneEvict, EvictHolds
<1>5. telemetry' = left /\ (stats' = st \/ \E c, u : stats' = DepthCounted(st, c, u))
  BY <1>2
<1> HIDE DEF left, st
<1>6. /\ FramesHeld(telemetry', stats') = FramesHeld(telemetry, stats)
      /\ BytesHeld(telemetry', stats') = BytesHeld(telemetry, stats)
  <2>1. [id |-> 0, key |-> None, size |-> 1] \in Message
    BY DEF Message
  <2> QED
    BY <1>4, <1>5, <2>1, OfferHolds
<1> QED
  BY <1>1, <1>6 DEF TelemetryAccounted, FramesHeld, BytesHeld, LaneSize

\* Until stop(), what was offered and not yet popped is in the lane or in m_dropped and
\* m_droppedBytes, once: the metrics of NotificationQueue lose no frame and count none twice,
\* through evictions, coalescing, refusals and resetMetrics.
THEOREM DropsAreAccounted == Spec => []TelemetryAccounted
<1>1. Init => TelemetryAccounted
  <2> SUFFICES ASSUME Init PROVE TelemetryAccounted
    OBVIOUS
  <2>1. LaneSize(telemetry) = 0 /\ Len(telemetry) = 0
    BY LaneEmpty DEF Init
  <2> QED
    BY <2>1 DEF Init, TelemetryAccounted, LaneSize
<1>2. MemoryInv /\ TelemetryAccounted /\ [Next]_vars => TelemetryAccounted'
  <2> SUFFICES ASSUME MemoryInv, TelemetryAccounted, [Next]_vars PROVE TelemetryAccounted'
    OBVIOUS
  <2>1. telemetry \in Seq(Message) /\ Distinct(telemetry) /\ stats \in Counters
    BY DEF MemoryInv, TypeOK, Identity
  <2>2. ASSUME stats'.dropped = stats.dropped, stats'.droppedBytes = stats.droppedBytes,
               UNCHANGED <<telemetry, stopped, owed>>
        PROVE  TelemetryAccounted'
    BY <2>2 DEF TelemetryAccounted, Elements
  <2>3. ASSUME NEW p \in Producers, ResumeControl(p)
        PROVE  TelemetryAccounted'
    BY <2>1, <2>2, <2>3 DEF ResumeControl, AcceptControl, DepthCounted, Counters
  <2>4. CASE WaitPop
    <3>1. UNCHANGED <<stopped, stats>>
      BY <2>4 DEF WaitPop
    <3>2. CASE UNCHANGED <<telemetry, owed>>
      BY <2>2, <3>1, <3>2
    <3>3. CASE /\ ~stopped /\ telemetry # <<>> /\ telemetry' = Tail(telemetry)
               /\ owed' = [frames |-> owed.frames - 1,
                           bytes  |-> owed.bytes - Head(telemetry).size]
      <4>1. /\ Tail(telemetry) \in Seq(Message) /\ Head(telemetry).size \in Nat
            /\ LaneSize(telemetry) = LaneSize(Tail(telemetry)) + Head(telemetry).size
        BY <2>1, <3>3, LanePop, HeldTypes
      <4>2. Len(Tail(telemetry)) = Len(telemetry) - 1 /\ LaneSize(Tail(telemetry)) \in Nat
        BY <2>1, <3>3, <4>1, LaneSizeType, HeadTailProperties
      <4>3. /\ stats.dropped \in Nat /\ stats.droppedBytes \in Nat
            /\ Len(Tail(telemetry)) \in Nat /\ Len(telemetry) = Len(Tail(telemetry)) + 1
        BY <2>1, <4>1, <4>2, HeldTypes
      <4>4. /\ owed.frames = Len(telemetry) + stats.dropped
            /\ owed.bytes = LaneSize(telemetry) + stats.droppedBytes
        BY <3>3 DEF TelemetryAccounted, LaneSize
      <4>5. /\ owed'.frames = Len(telemetry') + stats'.dropped
            /\ owed'.bytes = LaneSize(telemetry') + stats'.droppedBytes
        BY <3>1, <3>3, <4>1, <4>2, <4>3, <4>4, Moved
      <4> QED
        BY <4>5 DEF TelemetryAccounted, LaneSize
    <3> QED
      BY <2>4, <3>2, <3>3 DEF WaitPop
  <2>5. CASE Stop
    BY <2>5 DEF Stop, TelemetryAccounted
  <2>6. CASE ResetMetrics
    <3>1. Len(telemetry) \in Nat /\ LaneSize(telemetry) \in Nat
      BY <2>1, LaneSizeType
    <3>2. /\ owed'.frames = Len(telemetry) /\ owed'.bytes = LaneSize(telemetry)
          /\ stats'.dropped = 0 /\ stats'.droppedBytes = 0 /\ telemetry' = telemetry
      BY <2>6 DEF ResetMetrics, LaneSize
    <3>3. owed'.bytes = LaneSize(telemetry') + stats'.droppedBytes
      BY <3>1, <3>2
    <3> QED
      BY <3>1, <3>2, <3>3 DEF TelemetryAccounted, LaneSize
  <2>7. ASSUME NEW p \in Producers, RejectControl(p)
        PROVE  TelemetryAccounted'
    BY <2>1, <2>2, <2>7 DEF RejectControl, Counters
  <2>8. CASE \/ Deliver
             \/ \E t \in Producers \cup {Consumer} : SpuriousWake(t)
             \/ UNCHANGED vars
    BY <2>2, <2>8 DEF Deliver, SpuriousWake, vars, queueVars, ghostVars
  <2> QED
    BY <2>3, <2>4, <2>5, <2>6, <2>7, <2>8, AccountedPushControl, AccountedPushTelemetry DEF Next
<1> QED
  BY <1>1, <1>2, MemoryInit, MemoryNext, PTL DEF Spec
=============================================================================
