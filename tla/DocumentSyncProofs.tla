------------------------- MODULE DocumentSyncProofs -------------------------
(***************************************************************************)
(* Proofs about DocumentSync for any values, depth, length of the histories *)
(* and number of gestures.                                                  *)
(***************************************************************************)
EXTENDS DocumentSync, FiniteSetTheorems, TLAPS

-----------------------------------------------------------------------------
(* Types *)

Tagged == [of : Circuits, v : Values]
Topologies == [wires : Tagged, rev : Nat]
Tables == [Definitions -> [comps : Tagged, topo : Topologies]]
Places == [src : Circuits, depth : Nat, ref : Nat]
Documents == [comps : Tagged, topo : Topologies, at : Places, subs : Tables]
Contents == [comps : Tagged, wires : Tagged]
Snapshots == [comps : Tagged, wires : Tagged, subs : Tables]
Histories == [undo : Seq(Snapshots), redo : Seq(Snapshots), base : Snapshots]
Sessions == [src : Definitions, outer : Documents, init : Contents]

Fields == {"comps", "topo", "at", "subs"}
Patches == {[f \in F |-> d[f]] : F \in SUBSET Fields, d \in Documents}

ViewMessages ==
    [type : {"patch"}, patch : Patches]
    \cup [type : {"syncState"}, project : Documents]
    \cup [type : {"revision"}, revision : Nat]

HostMessages ==
    [type : {"projectChanged"}, project : Documents]
    \cup [type : {"update"}, c : Circuits, v : Values]
    \cup [type : {"connect"}, c : Circuits, v : Values, base : Nat, shown : Contents]
    \cup [type : {"open"}, src : Definitions]
    \cup [type : {"close"}, choice : {"save", "discard"}]

HostTypes ==
    /\ host \in Documents
    /\ last \in Seq(Documents) /\ Len(last) <= 1
    /\ stack \in Seq(Sessions)
    /\ awaiting \in Seq({"open", "close", "connect", "subsystems"})
    /\ toHost \in Seq(HostMessages)
    /\ toView \in Seq(ViewMessages)

ViewTypes ==
    /\ view \in Documents
    /\ history \in Histories
    /\ outer \in Seq(Histories)

\* The versions of a history: each differs from its neighbours.
Chain(h) ==
    /\ Differ(h.undo)
    /\ Differ(h.redo)
    /\ h.undo # <<>> => Last(h.undo) # h.base
    /\ h.redo # <<>> => Last(h.redo) # h.base

\* The history on the screen, and those of the levels outside, which come back.
Lines ==
    /\ history.base = snapshotOf(view)
    /\ Chain(history)
    /\ \A i \in DOMAIN outer : Chain(outer[i])

HistoryInv == HostTypes /\ ViewTypes /\ Lines

-----------------------------------------------------------------------------
(* Sequences *)

\* Appending, element by element.
LEMMA AppendSeq ==
    ASSUME NEW S, NEW s \in Seq(S), NEW x \in S
    PROVE  /\ Append(s, x) \in Seq(S)
           /\ Len(Append(s, x)) = Len(s) + 1
           /\ \A i \in 1..Len(s) : Append(s, x)[i] = s[i]
           /\ Append(s, x)[Len(s) + 1] = x
OBVIOUS

\* All but the last, element by element.
LEMMA FrontSeq ==
    ASSUME NEW S, NEW s \in Seq(S), s # <<>>
    PROVE  /\ Len(s) \in Nat \ {0}
           /\ Last(s) \in S
           /\ Last(s) = s[Len(s)]
           /\ Front(s) \in Seq(S)
           /\ Len(Front(s)) = Len(s) - 1
           /\ \A i \in 1..Len(s) - 1 : Front(s)[i] = s[i]
<1>1. Len(s) \in Nat \ {0}
  OBVIOUS
<1>2. Last(s) = s[Len(s)] /\ Last(s) \in S
  BY <1>1 DEF Last
<1>3. Front(s) = SubSeq(s, 1, Len(s) - 1)
  BY DEF Front
<1>4. Front(s) = [i \in 1..Len(s) - 1 |-> s[i]]
  BY <1>1, <1>3
<1>5. Front(s) \in Seq(S) /\ Len(Front(s)) = Len(s) - 1
  BY <1>1, <1>4
<1> QED
  BY <1>1, <1>2, <1>4, <1>5

\* All but the first, element by element.
LEMMA TailSeq ==
    ASSUME NEW S, NEW s \in Seq(S), s # <<>>
    PROVE  /\ Len(s) \in Nat \ {0}
           /\ Head(s) \in S
           /\ Head(s) = s[1]
           /\ Tail(s) \in Seq(S)
           /\ Len(Tail(s)) = Len(s) - 1
           /\ \A i \in 1..Len(s) - 1 : Tail(s)[i] = s[i + 1]
OBVIOUS

\* A continuation leaves the queue of those that wait.
LEMMA RemoveAtSeq ==
    ASSUME NEW S, NEW s \in Seq(S), NEW i \in DOMAIN s
    PROVE  RemoveAt(s, i) \in Seq(S)
BY DEF RemoveAt

-----------------------------------------------------------------------------
(* Histories *)

\* A step of a line, at its end.
LEMMA DifferAppend ==
    ASSUME NEW S, NEW s \in Seq(S), NEW x \in S, Differ(s), s # <<>> => Last(s) # x
    PROVE  Differ(Append(s, x))
<1>1. /\ Append(s, x) \in Seq(S) /\ Len(Append(s, x)) = Len(s) + 1
      /\ \A i \in 1..Len(s) : Append(s, x)[i] = s[i]
      /\ Append(s, x)[Len(s) + 1] = x
  OBVIOUS
<1> SUFFICES ASSUME NEW i \in 1..Len(Append(s, x)) - 1
             PROVE  Append(s, x)[i] # Append(s, x)[i + 1]
  BY DEF Differ
<1>2. Len(s) \in Nat /\ i \in 1..Len(s)
  BY <1>1
<1>3. CASE i = Len(s)
  <2>1. s # <<>> /\ Last(s) = s[i]
    BY <1>2, <1>3 DEF Last
  <2> QED
    BY <1>1, <1>2, <1>3, <2>1
<1>4. CASE i # Len(s)
  <2>1. i \in 1..Len(s) - 1 /\ i + 1 \in 1..Len(s)
    BY <1>2, <1>4
  <2> QED
    BY <1>1, <2>1, <1>2 DEF Differ
<1> QED
  BY <1>3, <1>4

\* A history that loses its newest version is still one.
LEMMA DifferFront ==
    ASSUME NEW S, NEW s \in Seq(S), s # <<>>, Differ(s)
    PROVE  /\ Differ(Front(s))
           /\ Front(s) # <<>> => Last(Front(s)) # Last(s)
<1>1. /\ Len(s) \in Nat \ {0} /\ Front(s) \in Seq(S) /\ Len(Front(s)) = Len(s) - 1
      /\ Last(s) = s[Len(s)]
      /\ \A i \in 1..Len(s) - 1 : Front(s)[i] = s[i]
  BY FrontSeq
<1>2. Differ(Front(s))
  BY <1>1 DEF Differ
<1>3. ASSUME Front(s) # <<>>
      PROVE  Last(Front(s)) # Last(s)
  <2>1. Len(s) - 1 \in 1..Len(s) - 1
    BY <1>1, <1>3
  <2>2. Last(Front(s)) = s[Len(s) - 1]
    BY <1>1, <2>1 DEF Last
  <2>3. s[Len(s) - 1] # s[Len(s) - 1 + 1]
    BY <2>1 DEF Differ
  <2> QED
    BY <1>1, <2>2, <2>3
<1> QED
  BY <1>2, <1>3

\* What is pushed ends the sequence, also when the oldest version is given up.
LEMMA PushedIs ==
    ASSUME NEW S, NEW s \in Seq(S), NEW x \in S, Differ(s), s # <<>> => Last(s) # x
    PROVE  /\ Pushed(s, x) \in Seq(S)
           /\ Pushed(s, x) # <<>> => Last(Pushed(s, x)) = x
           /\ Differ(Pushed(s, x))
<1> DEFINE a == Append(s, x)
<1>1. /\ a \in Seq(S) /\ Len(a) = Len(s) + 1 /\ a[Len(s) + 1] = x /\ Len(s) \in Nat /\ a # <<>>
  OBVIOUS
<1>2. Differ(a)
  BY DifferAppend
<1>3. CASE Pushed(s, x) = a
  BY <1>1, <1>2, <1>3 DEF Last
<1>4. CASE Pushed(s, x) = Tail(a)
  <2>1. /\ Tail(a) \in Seq(S) /\ Len(Tail(a)) = Len(a) - 1
        /\ \A i \in 1..Len(a) - 1 : Tail(a)[i] = a[i + 1]
    BY <1>1, TailSeq
  <2>2. Differ(Tail(a))
    <3> SUFFICES ASSUME NEW i \in 1..Len(Tail(a)) - 1
                 PROVE  Tail(a)[i] # Tail(a)[i + 1]
      BY DEF Differ
    <3>1. /\ i \in 1..Len(a) - 1 /\ i + 1 \in 1..Len(a) - 1
          /\ Tail(a)[i] = a[i + 1] /\ Tail(a)[i + 1] = a[i + 1 + 1]
      BY <1>1, <2>1
    <3> QED
      BY <1>2, <3>1 DEF Differ
  <2>3. Tail(a) # <<>> => Last(Tail(a)) = x
    BY <1>1, <2>1 DEF Last
  <2> QED
    BY <1>4, <2>1, <2>2, <2>3
<1> QED
  BY <1>3, <1>4 DEF Pushed

\* A version that comes in is on the screen afterwards, and continues the line.
LEMMA Recorded ==
    ASSUME NEW h \in Histories, Chain(h), NEW s \in Documents
    PROVE  /\ recordUndoTransition(h, s) \in Histories
           /\ Chain(recordUndoTransition(h, s))
           /\ recordUndoTransition(h, s).base = snapshotOf(s)
<1>1. snapshotOf(s) \in Snapshots
  BY DEF snapshotOf, Documents, Snapshots, Topologies
<1>2. CASE snapshotOf(s) = h.base
  BY <1>2 DEF recordUndoTransition
<1>3. CASE snapshotOf(s) # h.base
  <2> DEFINE p == Pushed(h.undo, h.base)
  <2>1. h.undo \in Seq(Snapshots) /\ h.base \in Snapshots
    BY DEF Histories
  <2>2. p \in Seq(Snapshots) /\ Differ(p) /\ (p # <<>> => Last(p) = h.base)
    BY <2>1, PushedIs DEF Chain
  <2>3. recordUndoTransition(h, s) = [undo |-> p, redo |-> <<>>, base |-> snapshotOf(s)]
    BY <1>3 DEF recordUndoTransition
  <2>4. <<>> \in Seq(Snapshots) /\ Differ(<<>>)
    BY DEF Differ
  <2> HIDE DEF p
  <2> QED
    BY <1>1, <1>3, <2>2, <2>3, <2>4 DEF Histories, Chain
<1> QED
  BY <1>2, <1>3

\* A fresh history is a line.
LEMMA Begun ==
    ASSUME NEW s \in Documents
    PROVE  /\ resetUndoHistory(s) \in Histories
           /\ Chain(resetUndoHistory(s))
           /\ resetUndoHistory(s).base = snapshotOf(s)
<1>1. snapshotOf(s) \in Snapshots
  BY DEF snapshotOf, Documents, Snapshots, Topologies
<1>2. <<>> \in Seq(Snapshots) /\ Differ(<<>>)
  BY DEF Differ
<1> QED
  BY <1>1, <1>2 DEF resetUndoHistory, Histories, Chain

\* The parts of the line, put together.
LEMMA ChainIsLine ==
    ASSUME NEW h \in Histories, Chain(h)
    PROVE  Differ(Append(h.undo, h.base) \o Reverse(h.redo))
<1> DEFINE a == Append(h.undo, h.base)
           r == Reverse(h.redo)
           n == Len(h.undo)
           k == Len(h.redo)
<1>1. h.undo \in Seq(Snapshots) /\ h.redo \in Seq(Snapshots) /\ h.base \in Snapshots
  BY DEF Histories
<1>2. n \in Nat /\ k \in Nat
  BY <1>1
<1>3. a \in Seq(Snapshots) /\ Len(a) = n + 1 /\ a[n + 1] = h.base
  BY <1>1, AppendSeq
<1>4. Differ(a)
  BY <1>1, DifferAppend DEF Chain
<1>5. r \in Seq(Snapshots) /\ Len(r) = k /\ \A i \in 1..k : r[i] = h.redo[(k - i) + 1]
  BY <1>1, <1>2 DEF Reverse
<1>6. /\ Len(a \o r) = n + 1 + k
      /\ \A i \in 1..n + 1 : (a \o r)[i] = a[i]
      /\ \A i \in 1..k : (a \o r)[n + 1 + i] = r[i]
  <2> HIDE DEF a, r, n, k
  <2> QED
    BY <1>2, <1>3, <1>5
<1> SUFFICES ASSUME NEW i \in 1..Len(a \o r) - 1
             PROVE  (a \o r)[i] # (a \o r)[i + 1]
  BY DEF Differ
<1> HIDE DEF a, r, n, k
<1>7. i \in 1..n + k
  BY <1>2, <1>6
<1>8. CASE i < n + 1
  <2>1. i \in 1..Len(a) - 1 /\ i \in 1..n + 1 /\ i + 1 \in 1..n + 1
    BY <1>2, <1>3, <1>7, <1>8
  <2> QED
    BY <1>4, <1>6, <2>1 DEF Differ
<1>9. CASE i = n + 1
  <2>1. k > 0 /\ k \in 1..k /\ 1 \in 1..k /\ (k - 1) + 1 = k
    BY <1>2, <1>7, <1>9
  <2>2. (a \o r)[i] = h.base /\ (a \o r)[i + 1] = h.redo[k]
    BY <1>2, <1>3, <1>5, <1>6, <1>9, <2>1
  <2>3. h.redo # <<>> /\ Last(h.redo) = h.redo[k]
    BY <1>1, <2>1 DEF Last, k
  <2> QED
    BY <2>2, <2>3 DEF Chain
<1>10. CASE i > n + 1
  <2> DEFINE j == i - (n + 1)
  <2>1. j \in 1..k - 1 /\ j \in 1..k /\ j + 1 \in 1..k /\ i = n + 1 + j /\ i + 1 = n + 1 + (j + 1)
    BY <1>2, <1>7, <1>10
  <2>2. (a \o r)[i] = h.redo[(k - j) + 1] /\ (a \o r)[i + 1] = h.redo[(k - (j + 1)) + 1]
    BY <1>5, <1>6, <2>1
  <2>3. (k - (j + 1)) + 1 = k - j /\ k - j \in 1..k - 1
    BY <1>2, <2>1
  <2>4. h.redo[k - j] # h.redo[(k - j) + 1]
    BY <2>3 DEF Chain, Differ, k
  <2> QED
    BY <2>2, <2>3, <2>4
<1> QED
  BY <1>2, <1>7, <1>8, <1>9, <1>10

\* Read from the oldest undo to the furthest redo, a chain is one line.
LEMMA LinesAreLinear == HistoryInv => HistoryIsLinear
BY ChainIsLine DEF HistoryInv, ViewTypes, Lines, HistoryIsLinear

-----------------------------------------------------------------------------
(* Documents *)

\* What a document is made of.
LEMMA DocumentParts ==
    ASSUME NEW d \in Documents
    PROVE  /\ DOMAIN d = Fields
           /\ d.comps \in Tagged /\ d.topo \in Topologies /\ d.at \in Places /\ d.subs \in Tables
           /\ d.topo.wires \in Tagged /\ d.topo.rev \in Nat
           /\ d.at.src \in Circuits /\ d.at.depth \in Nat /\ d.at.ref \in Nat
           /\ snapshotOf(d) \in Snapshots
           /\ Content(d) \in Contents
BY DEF Documents, Fields, Topologies, Places, snapshotOf, Snapshots, Content, Contents

\* The changes that handlers make to a document.
LEMMA DocumentEdits ==
    ASSUME NEW d \in Documents
    PROVE  /\ \A v \in Values : [d EXCEPT !.comps.v = v] \in Documents
           /\ \A v \in Values : [d EXCEPT !.topo.wires.v = v] \in Documents
           /\ \A r \in Nat : [d EXCEPT !.topo.rev = r] \in Documents
           /\ \A r \in Nat : snapshotOf([d EXCEPT !.topo.rev = r]) = snapshotOf(d)
           /\ \A t \in Tables : [d EXCEPT !.subs = t] \in Documents
           /\ \A t \in Topologies : [d EXCEPT !.topo = t] \in Documents
BY DEF Documents, Topologies, Tagged, snapshotOf

\* Restoring a version gives a document with that content.
LEMMA Restored ==
    ASSUME NEW d \in Documents, NEW x \in Snapshots
    PROVE  LET s == [d EXCEPT !.comps = x.comps, !.topo.wires = x.wires, !.subs = x.subs]
           IN  s \in Documents /\ snapshotOf(s) = x
BY DEF Documents, Topologies, snapshotOf, Snapshots

\* There is always a reference that no document in sight has.
LEMMA NewRefIsNew ==
    ASSUME HostTypes
    PROVE  /\ NewRef \in Nat
           /\ NewRef # host.at.ref
           /\ \A i \in DOMAIN stack : NewRef # stack[i].outer.at.ref
           /\ \A i \in DOMAIN last : NewRef # last[i].at.ref
<1> DEFINE n == Len(stack)
           A == {stack[i].outer.at.ref : i \in 1..n}
           B == {last[i].at.ref : i \in 1..Len(last)}
           U == {host.at.ref} \cup A \cup B
           R == 0..n + 2
<1>1. /\ n \in Nat /\ DOMAIN stack = 1..n
      /\ Len(last) \in {0, 1} /\ DOMAIN last = 1..Len(last)
  <2>1. stack \in Seq(Sessions) /\ last \in Seq(Documents) /\ Len(last) <= 1
    BY DEF HostTypes
  <2>2. n \in Nat /\ DOMAIN stack = 1..n
    BY <2>1
  <2>3. Len(last) \in Nat /\ DOMAIN last = 1..Len(last)
    BY <2>1
  <2> QED
    BY <2>1, <2>2, <2>3
<1>2. IsFiniteSet(A) /\ Cardinality(A) <= n /\ Cardinality(A) \in Nat
  <2>1. IsFiniteSet(1..n) /\ Cardinality(1..n) = n
    <3>1. 1 \in Int /\ n \in Int /\ (IF 1 > n THEN 0 ELSE n - 1 + 1) = n
      BY <1>1
    <3> HIDE DEF n
    <3> QED
      BY <3>1, FS_Interval
  <2> DEFINE f == [i \in 1..n |-> stack[i].outer.at.ref]
  <2>2. f \in Surjection(1..n, A)
    BY DEF Surjection
  <2> HIDE DEF f, A
  <2>3. IsFiniteSet(A) /\ Cardinality(A) <= Cardinality(1..n)
    BY <2>1, <2>2, FS_Surjection
  <2> QED
    BY <2>1, <2>3, FS_CardinalityType
<1>3. IsFiniteSet(B) /\ Cardinality(B) <= 1 /\ Cardinality(B) \in Nat
  <2>1. IsFiniteSet(1..Len(last)) /\ Cardinality(1..Len(last)) <= 1
    <3>1. 1 \in Int /\ Len(last) \in Int /\ (IF 1 > Len(last) THEN 0 ELSE Len(last) - 1 + 1) <= 1
      BY <1>1
    <3> QED
      BY <3>1, FS_Interval
  <2> DEFINE f == [i \in 1..Len(last) |-> last[i].at.ref]
  <2>2. f \in Surjection(1..Len(last), B)
    BY DEF Surjection
  <2> HIDE DEF f, B
  <2>3. IsFiniteSet(B) /\ Cardinality(B) <= Cardinality(1..Len(last))
    BY <2>1, <2>2, FS_Surjection
  <2>4. Cardinality(B) \in Nat /\ Cardinality(1..Len(last)) \in Nat
    BY <2>1, <2>3, FS_CardinalityType
  <2> QED
    BY <2>1, <2>3, <2>4
<1>4. IsFiniteSet(U) /\ Cardinality(U) <= n + 2
  <2> HIDE DEF A, B, n
  <2>1. /\ IsFiniteSet(A \cup {host.at.ref})
        /\ Cardinality(A \cup {host.at.ref}) <= Cardinality(A) + 1
    <3>1. /\ IsFiniteSet(A \cup {host.at.ref})
          /\ Cardinality(A \cup {host.at.ref}) =
                IF host.at.ref \in A THEN Cardinality(A) ELSE Cardinality(A) + 1
      BY <1>2, FS_AddElement
    <3> QED
      BY <1>2, <3>1
  <2> DEFINE C == A \cup {host.at.ref}
  <2>2. /\ IsFiniteSet(C \cup B)
        /\ Cardinality(C \cup B) = Cardinality(C) + Cardinality(B) - Cardinality(C \cap B)
    BY <1>3, <2>1, FS_Union
  <2>3. IsFiniteSet(C \cap B)
    BY <1>3, FS_Intersection, <2>1
  <2>4. Cardinality(C) \in Nat /\ Cardinality(C \cap B) \in Nat
    BY <2>1, <2>3, FS_CardinalityType
  <2>5. U = C \cup B
    OBVIOUS
  <2> HIDE DEF C, U
  <2>6. Cardinality(C) <= Cardinality(A) + 1
    BY <2>1 DEF C
  <2> QED
    BY <1>1, <1>2, <1>3, <2>2, <2>4, <2>5, <2>6
<1>5. IsFiniteSet(R) /\ Cardinality(R) = n + 3
  BY <1>1, FS_Interval
<1>6. ~(R \subseteq U)
  <2> SUFFICES ASSUME R \subseteq U
               PROVE  FALSE
    OBVIOUS
  <2> HIDE DEF R, U, n
  <2>1. Cardinality(R) <= Cardinality(U)
    BY <1>4, FS_Subset
  <2>2. Cardinality(U) \in Nat
    BY <1>4, FS_CardinalityType
  <2> QED
    BY <1>1, <1>4, <1>5, <2>1, <2>2
<1>7. NewRef = CHOOSE r \in R : r \notin U
  BY <1>1 DEF NewRef
<1>8. NewRef \in R /\ NewRef \notin U
  <2> HIDE DEF R, U
  <2> QED
    BY <1>6, <1>7
<1>9. R \subseteq Nat
  BY <1>1
<1> QED
  BY <1>1, <1>8, <1>9

-----------------------------------------------------------------------------
(* The host keeps its types *)

\* A patch is made of fields of the document it was computed from.
LEMMA PatchTypes ==
    ASSUME NEW h \in Documents
    PROVE  computeProjectStatePatch(h) \in Patches
<1> DEFINE F == {g \in DOMAIN h : last = <<>> \/ ~Same(h, g)}
<1>1. F \in SUBSET Fields
  BY DocumentParts
<1>2. computeProjectStatePatch(h) = [f \in F |-> h[f]]
  BY DEF computeProjectStatePatch
<1> HIDE DEF F
<1> QED
  BY <1>1, <1>2 DEF Patches

LEMMA RevisedTypes ==
    ASSUME HostTypes, NEW h \in Documents
    PROVE  Revised(h) \in Documents
<1>1. CASE Revised(h) = h
  BY <1>1
<1>2. CASE last # <<>> /\ Revised(h) = [h EXCEPT !.topo.rev = last[1].topo.rev + 1]
  <2>1. last[1] \in Documents
    BY <1>2 DEF HostTypes
  <2>2. last[1].topo.rev + 1 \in Nat
    BY <2>1, DocumentParts
  <2> QED
    BY <1>2, <2>2, DocumentEdits
<1> QED
  BY <1>1, <1>2 DEF Revised

LEMMA SyncTypes ==
    ASSUME HostTypes, NEW h \in Documents, syncSchematicPanel(h)
    PROVE  /\ host' \in Documents
           /\ last' \in Seq(Documents) /\ Len(last') <= 1
           /\ toView' \in Seq(ViewMessages)
<1> DEFINE r == Revised(h)
           p == computeProjectStatePatch(r)
<1>1. r \in Documents
  BY RevisedTypes
<1>2. p \in Patches
  BY <1>1, PatchTypes
<1>3. host' = r /\ last' = <<r>>
  BY DEF syncSchematicPanel
<1>4. toView' = toView \/ toView' = Append(toView, [type |-> "patch", patch |-> p])
  BY DEF syncSchematicPanel
<1> HIDE DEF r, p
<1>5. [type |-> "patch", patch |-> p] \in ViewMessages
  BY <1>2 DEF ViewMessages
<1>6. toView' \in Seq(ViewMessages)
  BY <1>4, <1>5, AppendSeq, ZenonT(40) DEF HostTypes
<1> QED
  BY <1>1, <1>3, <1>6

LEMMA PostTypes ==
    ASSUME HostTypes, NEW m \in HostMessages
    PROVE  Append(toHost, m) \in Seq(HostMessages)
BY AppendSeq DEF HostTypes

\* A message, with the fields its type has.
LEMMA MessageParts ==
    ASSUME NEW m \in HostMessages
    PROVE  /\ m.type = "projectChanged" => m.project \in Documents
           /\ m.type = "update" => m.c \in Circuits /\ m.v \in Values
           /\ m.type = "connect" => m.c \in Circuits /\ m.v \in Values /\ m.base \in Nat
           /\ m.type = "open" => m.src \in Definitions
BY DEF HostMessages

LEMMA ViewMessageParts ==
    ASSUME NEW m \in ViewMessages
    PROVE  /\ m.type = "patch" => m.patch \in Patches
           /\ m.type = "syncState" => m.project \in Documents
           /\ m.type = "revision" => m.revision \in Nat
BY DEF ViewMessages

LEMMA ProjectChangedTypes ==
    ASSUME HostTypes, NEW m \in HostMessages, projectChanged(m), toHost' \in Seq(HostMessages)
    PROVE  HostTypes'
<1> DEFINE changed == Content(host) # Content(m.project)
           rev == host.topo.rev + (IF changed THEN 1 ELSE 0)
           next == [m.project EXCEPT !.topo.rev = rev]
           msg == [type |-> "revision", revision |-> next.topo.rev]
<1>1. m.project \in Documents /\ host \in Documents
  BY MessageParts DEF projectChanged, HostTypes
<1>2. rev \in Nat
  BY <1>1, DocumentParts
<1>3. next \in Documents
  BY <1>1, <1>2, DocumentEdits
<1>4. msg \in ViewMessages
  BY <1>3, DocumentParts DEF ViewMessages
<1>5. /\ host' = next /\ last' = (IF last = <<>> THEN <<>> ELSE <<next>>)
      /\ toView' = (IF changed THEN Append(toView, msg) ELSE toView)
      /\ awaiting' = IF host.subs # m.project.subs THEN Append(awaiting, "subsystems")
                                                   ELSE awaiting
      /\ UNCHANGED stack
  BY DEF projectChanged
<1> HIDE DEF changed, next, msg
<1>6. last' \in Seq(Documents) /\ Len(last') <= 1
  BY <1>3, <1>5
<1>7. toView' \in Seq(ViewMessages)
  BY <1>4, <1>5, AppendSeq DEF HostTypes
<1>8. awaiting' \in Seq({"open", "close", "connect", "subsystems"})
  BY <1>5, AppendSeq DEF HostTypes
<1> QED
  BY <1>3, <1>5, <1>6, <1>7, <1>8 DEF HostTypes

LEMMA UpdateTypes ==
    ASSUME HostTypes, NEW m \in HostMessages, requestUpdateProperty(m),
           toHost' \in Seq(HostMessages)
    PROVE  HostTypes'
<1>1. CASE UNCHANGED <<host, last, toView>>
  BY <1>1 DEF requestUpdateProperty, HostTypes
<1>2. CASE syncSchematicPanel([host EXCEPT !.comps.v = m.v])
  <2>1. [host EXCEPT !.comps.v = m.v] \in Documents
    BY MessageParts, DocumentEdits DEF requestUpdateProperty, HostTypes
  <2>2. /\ host' \in Documents /\ last' \in Seq(Documents) /\ Len(last') <= 1
        /\ toView' \in Seq(ViewMessages)
    BY <1>2, <2>1, SyncTypes
  <2> QED
    BY <2>2 DEF requestUpdateProperty, HostTypes
<1> QED
  BY <1>1, <1>2 DEF requestUpdateProperty

LEMMA ConnectTypes ==
    ASSUME HostTypes, NEW m \in HostMessages, requestConnectEndpoints(m),
           toHost' \in Seq(HostMessages)
    PROVE  HostTypes'
<1> DEFINE new == [host EXCEPT !.topo = [wires |-> Of(m.c, m.v), rev |-> @.rev + 1]]
           msg == [type |-> "syncState", project |-> host]
<1>1. CASE m.base # host.topo.rev
  <2>1. toView' = Append(toView, msg) /\ UNCHANGED <<host, last, stack, awaiting>>
    BY <1>1 DEF requestConnectEndpoints
  <2>2. msg \in ViewMessages
    BY DEF ViewMessages, HostTypes
  <2>3. toView' \in Seq(ViewMessages)
    BY <2>1, <2>2, AppendSeq DEF HostTypes
  <2> QED
    BY <2>1, <2>3 DEF HostTypes
<1>2. CASE m.base = host.topo.rev
  <2>1. UNCHANGED <<last, stack, toView>>
    BY <1>2 DEF requestConnectEndpoints
  <2>2. \/ UNCHANGED <<host, awaiting>>
        \/ host' = new /\ awaiting' = Append(awaiting, "connect")
    BY <1>2 DEF requestConnectEndpoints
  <2>3. Of(m.c, m.v) \in Tagged
    BY MessageParts DEF requestConnectEndpoints, Of, Tagged
  <2>4. new \in Documents
    <3>1. host \in Documents
      BY DEF HostTypes
    <3>2. [wires |-> Of(m.c, m.v), rev |-> host.topo.rev + 1] \in Topologies
      BY <2>3, <3>1, DocumentParts DEF Topologies
    <3>3. new = [host EXCEPT !.topo = [wires |-> Of(m.c, m.v), rev |-> host.topo.rev + 1]]
      BY <3>1
    <3> QED
      BY <3>1, <3>2, <3>3, DocumentEdits
  <2> HIDE DEF new
  <2>5. awaiting' \in Seq({"open", "close", "connect", "subsystems"})
    BY <2>2, AppendSeq, ZenonT(40) DEF HostTypes
  <2> QED
    BY <2>1, <2>2, <2>4, <2>5 DEF HostTypes
<1> QED
  BY <1>1, <1>2

LEMMA OpenTypes ==
    ASSUME HostTypes, NEW m \in HostMessages, openSubcircuit(m), toHost' \in Seq(HostMessages)
    PROVE  HostTypes'
<1> DEFINE def == host.subs[m.src]
           at == [src |-> m.src, depth |-> Len(stack) + 1, ref |-> NewRef]
           new == [host EXCEPT !.comps = def.comps, !.topo = def.topo, !.at = at]
           session == [src |-> m.src, outer |-> host,
                       init |-> [comps |-> def.comps, wires |-> def.topo.wires]]
<1>1. m.src \in Definitions /\ m.src \in Circuits
  BY MessageParts, BoundsAssumption DEF openSubcircuit, Definitions, Circuits
<1>2. host \in Documents /\ Len(stack) \in Nat
  BY DEF HostTypes
<1>3. def \in [comps : Tagged, topo : Topologies]
  BY <1>1, <1>2, DocumentParts DEF Tables
<1>4. at \in Places
  BY <1>1, <1>2, NewRefIsNew DEF Places
<1>5. new \in Documents
  <2> HIDE DEF def, at
  <2> QED
    BY <1>2, <1>3, <1>4 DEF Documents
<1>6. session \in Sessions
  <2> HIDE DEF def
  <2> QED
    BY <1>1, <1>2, <1>3 DEF Sessions, Contents, Topologies
<1>7. /\ stack' = Append(stack, session) /\ host' = new /\ awaiting' = Append(awaiting, "open")
      /\ UNCHANGED <<last, toView>>
  BY DEF openSubcircuit
<1> HIDE DEF new, session
<1>8. /\ stack' \in Seq(Sessions)
      /\ awaiting' \in Seq({"open", "close", "connect", "subsystems"})
  BY <1>6, <1>7, AppendSeq DEF HostTypes
<1> QED
  BY <1>5, <1>7, <1>8 DEF HostTypes

LEMMA CloseTypes ==
    ASSUME HostTypes, NEW m \in HostMessages, closeSubcircuitEditor(m),
           toHost' \in Seq(HostMessages)
    PROVE  HostTypes'
<1> DEFINE session == Last(stack)
           written == writeSubcircuitEditingSessionBack(session)
<1>1. CASE stack = <<>>
  BY <1>1 DEF closeSubcircuitEditor, HostTypes
<1>2. CASE stack # <<>>
  <2>1. session \in Sessions /\ Front(stack) \in Seq(Sessions)
    BY <1>2, FrontSeq DEF HostTypes
  <2>2. host \in Documents /\ session.outer \in Documents /\ session.src \in Definitions
    BY <2>1 DEF HostTypes, Sessions
  <2>3. host.subs \in Tables /\ host.comps \in Tagged /\ host.topo \in Topologies
    BY <2>2, DocumentParts
  <2>4. written \in Tables
    <3> HIDE DEF session
    <3> QED
      BY <2>2, <2>3 DEF writeSubcircuitEditingSessionBack, Tables
  <2> HIDE DEF written, session
  <2>5. UNCHANGED <<last, toView>>
    BY DEF closeSubcircuitEditor
  <2>6. ASSUME NEW table \in Tables, restoreOuterCircuit(session, table)
        PROVE  HostTypes'
    <3>1. /\ stack' = Front(stack) /\ host' = [session.outer EXCEPT !.subs = table]
          /\ awaiting' = Append(awaiting, "close")
      BY <2>6 DEF restoreOuterCircuit
    <3>2. host' \in Documents
      BY <2>2, <3>1, DocumentEdits
    <3>3. awaiting' \in Seq({"open", "close", "connect", "subsystems"})
      BY <3>1, AppendSeq DEF HostTypes
    <3> QED
      BY <2>1, <2>5, <3>1, <3>2, <3>3 DEF HostTypes
  <2>7. ASSUME NEW table \in Tables, StayInLevel(table)
        PROVE  HostTypes'
    <3>1. host' = [host EXCEPT !.subs = table] /\ UNCHANGED <<stack, awaiting>>
      BY <2>7 DEF StayInLevel
    <3>2. host' \in Documents
      BY <2>2, <3>1, DocumentEdits
    <3> QED
      BY <2>5, <3>1, <3>2 DEF HostTypes
  <2>8. \E table \in Tables : restoreOuterCircuit(session, table) \/ StayInLevel(table)
    BY <1>2, <2>3, <2>4 DEF closeSubcircuitEditor, session, written
  <2> QED
    BY <2>6, <2>7, <2>8
<1> QED
  BY <1>1, <1>2

-----------------------------------------------------------------------------
(* Every step continues the line *)

\* The host serves a message.
LEMMA HandleTypes ==
    ASSUME HostTypes, handleWebviewMessage
    PROVE  HostTypes'
<1>1. toHost # <<>> /\ toHost' = Tail(toHost)
  BY DEF handleWebviewMessage
<1>2. Head(toHost) \in HostMessages /\ toHost' \in Seq(HostMessages)
  BY <1>1, TailSeq DEF HostTypes
<1> QED
  BY <1>2, ProjectChangedTypes, UpdateTypes, ConnectTypes, OpenTypes, CloseTypes
     DEF handleWebviewMessage

LEMMA ContinueTypes ==
    ASSUME HostTypes, Continue
    PROVE  HostTypes'
<1> PICK i \in DOMAIN awaiting :
        /\ awaiting' = RemoveAt(awaiting, i)
        /\ stack' = IF awaiting[i] = "open" /\ stack # <<>>
                    THEN [stack EXCEPT ![Len(stack)].init.comps = host.comps] ELSE stack
        /\ syncSchematicPanel(host)
        /\ UNCHANGED toHost
  BY DEF Continue
<1>1. host \in Documents /\ stack \in Seq(Sessions)
  BY DEF HostTypes
<1>2. /\ host' \in Documents /\ last' \in Seq(Documents) /\ Len(last') <= 1
      /\ toView' \in Seq(ViewMessages)
  BY <1>1, SyncTypes
<1>3. awaiting' \in Seq({"open", "close", "connect", "subsystems"})
  BY RemoveAtSeq DEF HostTypes
<1>4. stack' \in Seq(Sessions)
  <2>1. CASE stack' = stack
    BY <1>1, <2>1
  <2>2. CASE stack # <<>> /\ stack' = [stack EXCEPT ![Len(stack)].init.comps = host.comps]
    <3>1. Len(stack) \in 1..Len(stack) /\ stack[Len(stack)] \in Sessions /\ host.comps \in Tagged
      BY <1>1, <2>2, DocumentParts
    <3>2. [stack[Len(stack)] EXCEPT !.init.comps = host.comps] \in Sessions
      BY <3>1 DEF Sessions, Contents
    <3>3. stack' = [stack EXCEPT ![Len(stack)] =
                                   [stack[Len(stack)] EXCEPT !.init.comps = host.comps]]
      BY <1>1, <2>2, <3>1
    <3> QED
      BY <1>1, <3>1, <3>2, <3>3
  <2> QED
    BY <2>1, <2>2
<1> QED
  BY <1>2, <1>3, <1>4 DEF HostTypes

\* Steps that leave the webview alone.
LEMMA HostSteps ==
    ASSUME HistoryInv, HostTypes', UNCHANGED viewVars
    PROVE  HistoryInv'
BY DEF HistoryInv, ViewTypes, Lines, viewVars, snapshotOf, Chain, Differ, Last

LEMMA PersistTypes ==
    ASSUME HostTypes, NEW s \in Documents, persistState(s)
    PROVE  HostTypes' /\ view' = s
<1>1. [type |-> "projectChanged", project |-> s] \in HostMessages
  BY DEF HostMessages
<1>2. toHost' \in Seq(HostMessages)
  BY <1>1, PostTypes DEF persistState, Post
<1> QED
  BY <1>2 DEF persistState, hostVars, HostTypes

LEMMA HistoryLocalEdit ==
    ASSUME HistoryInv, NEW s \in Edits, LocalEdit(s)
    PROVE  HistoryInv'
<1>1. s \in Documents
  BY DocumentEdits DEF HistoryInv, ViewTypes, Edits
<1>2. HostTypes' /\ view' = s
  BY <1>1, PersistTypes DEF HistoryInv, LocalEdit
<1>3. history' = recordUndoTransition(history, s) /\ outer' = outer
  BY DEF LocalEdit
<1>4. history' \in Histories /\ Chain(history)' /\ history'.base = snapshotOf(s)
  BY <1>1, <1>3, Recorded DEF HistoryInv, ViewTypes, Lines, Chain, Differ
<1> QED
  BY <1>1, <1>2, <1>3, <1>4 DEF HistoryInv, ViewTypes, Lines, snapshotOf, Chain

\* One version back, or forth: the same line, seen from its neighbour.
LEMMA HistoryUndo ==
    ASSUME HistoryInv, undo
    PROVE  HistoryInv'
<1> DEFINE x == Last(history.undo)
           s == [view EXCEPT !.comps = x.comps, !.topo.wires = x.wires, !.subs = x.subs]
<1>1. /\ history.undo \in Seq(Snapshots) /\ history.redo \in Seq(Snapshots)
      /\ history.base \in Snapshots /\ view \in Documents /\ Chain(history) /\ history.undo # <<>>
  BY DEF HistoryInv, ViewTypes, Histories, Lines, undo
<1>2. x \in Snapshots /\ Front(history.undo) \in Seq(Snapshots)
  BY <1>1, FrontSeq
<1>3. s \in Documents /\ snapshotOf(s) = x
  <2> HIDE DEF x
  <2> QED
    BY <1>1, <1>2, Restored
<1>4. HostTypes' /\ view' = s
  BY <1>3, PersistTypes DEF HistoryInv, undo, applyUndoSnapshot
<1>5. /\ history' = [undo |-> Front(history.undo), redo |-> Append(history.redo, history.base),
                     base |-> x]
      /\ outer' = outer
  BY DEF undo
<1>6. Differ(Front(history.undo)) /\ (Front(history.undo) # <<>> => Last(Front(history.undo)) # x)
  BY <1>1, DifferFront DEF Chain
<1>7. /\ Differ(Append(history.redo, history.base))
      /\ Append(history.redo, history.base) \in Seq(Snapshots)
      /\ Last(Append(history.redo, history.base)) = history.base
  BY <1>1, DifferAppend, AppendSeq DEF Chain, Last
<1>8. x # history.base
  BY <1>1 DEF Chain
<1> HIDE DEF x, s
<1>9. history' \in Histories /\ Chain(history)' /\ history'.base = x
  BY <1>2, <1>5, <1>6, <1>7, <1>8 DEF Histories, Chain
<1> QED
  BY <1>3, <1>4, <1>5, <1>9 DEF HistoryInv, ViewTypes, Lines, snapshotOf, Chain

LEMMA HistoryRedo ==
    ASSUME HistoryInv, redo
    PROVE  HistoryInv'
<1> DEFINE x == Last(history.redo)
           s == [view EXCEPT !.comps = x.comps, !.topo.wires = x.wires, !.subs = x.subs]
<1>1. /\ history.undo \in Seq(Snapshots) /\ history.redo \in Seq(Snapshots)
      /\ history.base \in Snapshots /\ view \in Documents /\ Chain(history) /\ history.redo # <<>>
  BY DEF HistoryInv, ViewTypes, Histories, Lines, redo
<1>2. x \in Snapshots /\ Front(history.redo) \in Seq(Snapshots)
  BY <1>1, FrontSeq
<1>3. s \in Documents /\ snapshotOf(s) = x
  <2> HIDE DEF x
  <2> QED
    BY <1>1, <1>2, Restored
<1>4. HostTypes' /\ view' = s
  BY <1>3, PersistTypes DEF HistoryInv, redo, applyUndoSnapshot
<1>5. /\ history' = [undo |-> Append(history.undo, history.base), redo |-> Front(history.redo),
                     base |-> x]
      /\ outer' = outer
  BY DEF redo
<1>6. Differ(Front(history.redo)) /\ (Front(history.redo) # <<>> => Last(Front(history.redo)) # x)
  BY <1>1, DifferFront DEF Chain
<1>7. /\ Differ(Append(history.undo, history.base))
      /\ Append(history.undo, history.base) \in Seq(Snapshots)
      /\ Last(Append(history.undo, history.base)) = history.base
  BY <1>1, DifferAppend, AppendSeq DEF Chain, Last
<1>8. x # history.base
  BY <1>1 DEF Chain
<1> HIDE DEF x, s
<1>9. history' \in Histories /\ Chain(history)' /\ history'.base = x
  BY <1>2, <1>5, <1>6, <1>7, <1>8 DEF Histories, Chain
<1> QED
  BY <1>3, <1>4, <1>5, <1>9 DEF HistoryInv, ViewTypes, Lines, snapshotOf, Chain

\* A patch applied to a document gives a document.
LEMMA MergedIsDocument ==
    ASSUME view \in Documents, NEW p \in Patches
    PROVE  Merged(p) \in Documents
<1> PICK F \in SUBSET Fields, d \in Documents : p = [f \in F |-> d[f]]
  BY DEF Patches
<1>1. DOMAIN p = F /\ DOMAIN view = Fields
  BY DocumentParts
<1>2. Merged(p) = [f \in Fields |-> IF f \in F THEN d[f] ELSE view[f]]
  BY <1>1 DEF Merged
<1> QED
  BY <1>2 DEF Fields, Documents

\* Whatever level the copy comes to.
LEMMA Switched ==
    ASSUME ViewTypes, Lines, NEW s \in Documents, NEW from, NEW to,
           switchUndoHistoryLevel(from, to, s)
    PROVE  /\ history' \in Histories /\ Chain(history') /\ history'.base = snapshotOf(s)
           /\ outer' \in Seq(Histories) /\ \A i \in DOMAIN outer' : Chain(outer'[i])
<1>1. /\ history \in Histories /\ outer \in Seq(Histories) /\ Chain(history)
      /\ \A i \in 1..Len(outer) : outer[i] \in Histories /\ Chain(outer[i])
  BY DEF ViewTypes, Lines
<1>2. \/ outer' = Append(outer, history) /\ history' = resetUndoHistory(s)
      \/ outer # <<>> /\ outer' = Front(outer) /\ history' = recordUndoTransition(Last(outer), s)
      \/ outer' = outer /\ history' = resetUndoHistory(s)
  BY DEF switchUndoHistoryLevel
<1>3. CASE outer' = Append(outer, history) /\ history' = resetUndoHistory(s)
  <2>1. /\ outer' \in Seq(Histories) /\ Len(outer') = Len(outer) + 1
        /\ \A i \in 1..Len(outer) : outer'[i] = outer[i]
        /\ outer'[Len(outer) + 1] = history
    BY <1>1, <1>3, AppendSeq
  <2>2. \A i \in DOMAIN outer' : Chain(outer'[i])
    BY <1>1, <2>1
  <2> QED
    BY <1>3, <2>1, <2>2, Begun
<1>4. CASE outer # <<>> /\ outer' = Front(outer) /\ history' = recordUndoTransition(Last(outer), s)
  <2>1. /\ Len(outer) \in Nat \ {0} /\ Last(outer) = outer[Len(outer)]
        /\ outer' \in Seq(Histories) /\ Len(outer') = Len(outer) - 1
        /\ \A i \in 1..Len(outer) - 1 : outer'[i] = outer[i]
    BY <1>1, <1>4, FrontSeq
  <2>2. Last(outer) \in Histories /\ Chain(Last(outer))
    BY <1>1, <2>1
  <2>3. \A i \in DOMAIN outer' : Chain(outer'[i])
    BY <1>1, <2>1
  <2> QED
    BY <1>4, <2>1, <2>2, <2>3, Recorded
<1>5. CASE outer' = outer /\ history' = resetUndoHistory(s)
  BY <1>1, <1>5, Begun
<1> QED
  BY <1>2, <1>3, <1>4, <1>5

LEMMA HistoryReceive ==
    ASSUME HistoryInv, Receive
    PROVE  HistoryInv'
<1> DEFINE m == Head(toView)
<1>1. toView # <<>> /\ toView' = Tail(toView) /\ UNCHANGED <<host, last, stack, awaiting, toHost>>
  BY DEF Receive, hostVars
<1>2. m \in ViewMessages /\ toView' \in Seq(ViewMessages)
  BY <1>1, TailSeq DEF HistoryInv, HostTypes
<1>3. HostTypes'
  BY <1>1, <1>2 DEF HistoryInv, HostTypes
<1>4. view \in Documents /\ history \in Histories /\ outer \in Seq(Histories) /\ Chain(history)
  BY DEF HistoryInv, ViewTypes, Lines
<1>5. CASE ReceivePatch
  <2> DEFINE s == Merged(m.patch)
  <2>1. m.patch \in Patches
    BY <1>2, <1>5, ViewMessageParts DEF ReceivePatch
  <2>2. s \in Documents
    BY <1>4, <2>1, MergedIsDocument
  <2>3. view' = s
    BY <1>5 DEF ReceivePatch
  <2>4. \/ switchUndoHistoryLevel(view.at.depth, s.at.depth, s)
        \/ history' = recordUndoTransition(history, s) /\ outer' = outer
    BY <1>5 DEF ReceivePatch
  <2> HIDE DEF s
  <2>5. /\ history' \in Histories /\ Chain(history') /\ history'.base = snapshotOf(s)
        /\ outer' \in Seq(Histories) /\ \A i \in DOMAIN outer' : Chain(outer'[i])
    <3>1. CASE switchUndoHistoryLevel(view.at.depth, s.at.depth, s)
      BY <2>2, <3>1, Switched DEF HistoryInv
    <3>2. CASE history' = recordUndoTransition(history, s) /\ outer' = outer
      BY <1>4, <2>2, <3>2, Recorded DEF HistoryInv, Lines
    <3> QED
      BY <2>4, <3>1, <3>2
  <2> QED
    BY <1>3, <2>2, <2>3, <2>5 DEF HistoryInv, ViewTypes, Lines, snapshotOf, Chain
<1>6. CASE ReceiveState
  <2>1. m.project \in Documents
    BY <1>2, <1>6, ViewMessageParts DEF ReceiveState
  <2>2. /\ view' = m.project /\ history' = recordUndoTransition(history, m.project)
        /\ outer' = outer
    BY <1>6 DEF ReceiveState
  <2>3. history' \in Histories /\ Chain(history') /\ history'.base = snapshotOf(m.project)
    BY <1>4, <2>1, <2>2, Recorded
  <2> QED
    BY <1>3, <2>1, <2>2, <2>3 DEF HistoryInv, ViewTypes, Lines, snapshotOf, Chain
<1>7. CASE ReceiveRevision
  <2>1. m.revision \in Nat
    BY <1>2, <1>7, ViewMessageParts DEF ReceiveRevision
  <2>2. view' = [view EXCEPT !.topo.rev = m.revision] /\ UNCHANGED <<history, outer>>
    BY <1>7 DEF ReceiveRevision
  <2>3. view' \in Documents /\ snapshotOf(view') = snapshotOf(view)
    BY <1>4, <2>1, <2>2, DocumentEdits
  <2> QED
    BY <1>3, <2>2, <2>3 DEF HistoryInv, ViewTypes, Lines, snapshotOf, Chain
<1> QED
  BY <1>5, <1>6, <1>7 DEF Receive

LEMMA HistoryRequest ==
    ASSUME HistoryInv, Request
    PROVE  HistoryInv'
<1> PICK m \in Requests : toHost' = Append(toHost, m)
  BY DEF Request, Post
<1>1. view \in Documents
  BY DEF HistoryInv, ViewTypes
<1>2. /\ view.comps.of \in Circuits /\ view.topo.wires.of \in Circuits /\ view.topo.rev \in Nat
      /\ Content(view) \in Contents
  BY <1>1, DocumentParts DEF Tagged
<1>3. m \in HostMessages
  BY <1>2 DEF Requests, HostMessages
<1>4. toHost' \in Seq(HostMessages)
  BY <1>3, PostTypes DEF HistoryInv
<1>5. HostTypes' /\ UNCHANGED viewVars
  BY <1>4 DEF HistoryInv, HostTypes, Request, hostVars
<1> QED
  BY <1>5, HostSteps

LEMMA HistoryPanels ==
    ASSUME HistoryInv, ClosePanel \/ OpenPanel \/ RevealPanel
    PROVE  HistoryInv'
<1>1. host \in Documents /\ <<host>> \in Seq(Documents) /\ Len(<<host>>) = 1
  BY DEF HistoryInv, HostTypes
<1>2. CASE ClosePanel
  <2>1. HostTypes' /\ UNCHANGED viewVars
    BY <1>2 DEF HistoryInv, HostTypes, ClosePanel
  <2> QED
    BY <2>1, HostSteps
<1>3. CASE OpenPanel
  <2>1. HostTypes'
    BY <1>1, <1>3 DEF HistoryInv, HostTypes, OpenPanel
  <2>2. view' = host /\ history' = resetUndoHistory(host) /\ outer' = <<>>
    BY <1>3 DEF OpenPanel
  <2>3. history' \in Histories /\ Chain(history') /\ history'.base = snapshotOf(host)
    BY <1>1, <2>2, Begun
  <2>4. outer' \in Seq(Histories) /\ DOMAIN outer' = {}
    BY <2>2
  <2> QED
    BY <1>1, <2>1, <2>2, <2>3, <2>4 DEF HistoryInv, ViewTypes, Lines, snapshotOf, Chain
<1>4. CASE RevealPanel
  <2>1. [type |-> "syncState", project |-> host] \in ViewMessages
    BY <1>1 DEF ViewMessages
  <2>2. toView' \in Seq(ViewMessages)
    BY <1>4, <2>1, AppendSeq DEF RevealPanel, HistoryInv, HostTypes
  <2>3. HostTypes' /\ UNCHANGED viewVars
    BY <1>1, <1>4, <2>2 DEF HistoryInv, HostTypes, RevealPanel
  <2> QED
    BY <2>3, HostSteps
<1> QED
  BY <1>2, <1>3, <1>4

LEMMA HistoryOtherPanelEdit ==
    ASSUME HistoryInv, NEW v \in Values, OtherPanelEdit(v)
    PROVE  HistoryInv'
<1>1. [host EXCEPT !.comps.v = v] \in Documents
  BY DocumentEdits DEF HistoryInv, HostTypes
<1>2. /\ host' \in Documents /\ last' \in Seq(Documents) /\ Len(last') <= 1
      /\ toView' \in Seq(ViewMessages)
  BY <1>1, SyncTypes DEF OtherPanelEdit, HistoryInv
<1>3. HostTypes' /\ UNCHANGED viewVars
  BY <1>2 DEF HistoryInv, HostTypes, OtherPanelEdit
<1> QED
  BY <1>3, HostSteps

LEMMA HistoryInit == Init => HistoryInv
<1> SUFFICES ASSUME Init
             PROVE  HistoryInv
  OBVIOUS
<1> PICK n \in Circuits :
        /\ host = Level(n)
        /\ last = <<Level(n)>>
        /\ stack = [i \in 1..n |-> [src |-> i, outer |-> Level(i - 1), init |-> Content(Level(i))]]
        /\ view = Level(n)
        /\ history = resetUndoHistory(Level(n))
        /\ outer = [i \in 1..n |-> resetUndoHistory(Level(i - 1))]
        /\ awaiting = <<>>
        /\ toHost = <<>> /\ toView = <<>>
  BY DEF Init
<1>1. n \in Nat /\ \A i \in 1..n : i \in Definitions /\ i \in Circuits /\ i - 1 \in Circuits
  BY BoundsAssumption DEF Circuits, Definitions
<1>2. ASSUME NEW c \in Circuits
      PROVE  Level(c) \in Documents
  <2>1. c \in Nat
    BY BoundsAssumption DEF Circuits
  <2>2. Of(c, 0) \in Tagged
    BY ValuesAssumption DEF Of, Tagged
  <2>3. Table \in Tables
    BY ValuesAssumption, BoundsAssumption
       DEF Table, Tables, Fresh, Of, Tagged, Topologies, Definitions, Circuits
  <2> QED
    BY <2>1, <2>2, <2>3 DEF Level, Documents, Topologies, Places
<1>3. HostTypes
  <2>1. Level(n) \in Documents
    BY <1>2
  <2>2. stack \in Seq(Sessions)
    <3>1. \A i \in 1..n :
             [src |-> i, outer |-> Level(i - 1), init |-> Content(Level(i))] \in Sessions
      BY <1>1, <1>2, DocumentParts DEF Sessions
    <3>2. stack \in [1..n -> Sessions]
      BY <3>1
    <3> QED
      BY <1>1, <3>2
  <2> QED
    BY <2>1, <2>2 DEF HostTypes
<1>4. ViewTypes /\ Lines
  <2>1. \A c \in Circuits : /\ resetUndoHistory(Level(c)) \in Histories
                            /\ Chain(resetUndoHistory(Level(c)))
                            /\ resetUndoHistory(Level(c)).base = snapshotOf(Level(c))
    BY <1>2, Begun
  <2>2. outer \in Seq(Histories) /\ \A i \in DOMAIN outer : Chain(outer[i])
    <3>1. outer \in [1..n -> Histories]
      BY <1>1, <2>1
    <3>2. \A i \in 1..n : Chain(outer[i])
      BY <1>1, <2>1
    <3> QED
      BY <1>1, <3>1, <3>2
  <2> QED
    BY <1>2, <2>1, <2>2 DEF ViewTypes, Lines
<1> QED
  BY <1>3, <1>4 DEF HistoryInv

LEMMA HistoryNext == HistoryInv /\ [Next]_vars => HistoryInv'
<1> SUFFICES ASSUME HistoryInv, [Next]_vars
             PROVE  HistoryInv'
  OBVIOUS
<1>1. CASE handleWebviewMessage
  <2>1. HostTypes' /\ UNCHANGED viewVars
    BY <1>1, HandleTypes DEF HistoryInv, handleWebviewMessage
  <2> QED
    BY <2>1, HostSteps
<1>2. CASE Continue
  <2>1. HostTypes' /\ UNCHANGED viewVars
    BY <1>2, ContinueTypes DEF HistoryInv, Continue
  <2> QED
    BY <2>1, HostSteps
<1>3. CASE UNCHANGED vars
  <2>1. HostTypes' /\ UNCHANGED viewVars
    BY <1>3 DEF HistoryInv, HostTypes, vars, viewVars
  <2> QED
    BY <2>1, HostSteps
<1> QED
  BY <1>1, <1>2, <1>3, HistoryLocalEdit, HistoryUndo, HistoryRedo, HistoryRequest, HistoryReceive,
     HistoryOtherPanelEdit, HistoryPanels DEF Next

\* The undo history of the webview (recordUndoTransition, undo, redo, switchUndoHistoryLevel in
\* main.ts) is a line of versions through the one on the screen, whatever arrives from the host
\* and in whatever order: every undo and every redo shows something else and leads back.
THEOREM UndoHistoryIsLinear == Spec => []HistoryIsLinear
BY HistoryInit, HistoryNext, LinesAreLinear, PTL DEF Spec

-----------------------------------------------------------------------------
(* The two copies *)

\* What a message can change in the copy of the webview: a patch carries whole fields, a
\* revision sent alone a part of one.
Cells == {"comps", "wires", "rev", "at", "subs"}
Get(d, c) == CASE c = "wires" -> d.topo.wires [] c = "rev" -> d.topo.rev [] OTHER -> d[c]
FieldOf(c) == IF c \in {"wires", "rev"} THEN "topo" ELSE c

Writes(m, c) ==
    \/ m.type = "patch" /\ FieldOf(c) \in DOMAIN m.patch
    \/ m.type = "syncState"
    \/ m.type = "revision" /\ c = "rev"

Written(m, c) ==
    CASE m.type = "patch" -> Get(m.patch, c)
      [] m.type = "syncState" -> Get(m.project, c)
      [] OTHER -> m.revision

\* What a cell of the copy s will hold when the messages q have arrived: the last of them that
\* writes it decides.
WillBe(s, q, c, x) ==
    \/ /\ Get(s, c) = x
       /\ \A i \in DOMAIN q : ~Writes(q[i], c)
    \/ \E i \in DOMAIN q :
          /\ Writes(q[i], c)
          /\ Written(q[i], c) = x
          /\ \A j \in DOMAIN q : j > i => ~Writes(q[j], c)

IsSnapshot(m) == m.type = "projectChanged"

\* No snapshot is under way: the webview will be where the host has last published, and what
\* it has not published a handler that awaits the Core will.
Following ==
    /\ \A i \in DOMAIN toHost : ~IsSnapshot(toHost[i])
    /\ \A c \in Cells : WillBe(view, toView, c, Get(last[1], c))
    /\ host # last[1] => awaiting # <<>>

\* Snapshots are under way, the last of them the k-th message: it is what the screen shows,
\* nothing else has come between, and the revision is right or will be sent again.
Leading(k) ==
    /\ \A i \in DOMAIN toHost : IsSnapshot(toHost[i]) <=> i <= k
    /\ \A c \in Cells \ {"rev"} : Get(toHost[k].project, c) = Get(view, c)
    /\ \A i \in DOMAIN toView : toView[i].type = "revision"
    /\ host = last[1]
    /\ \/ WillBe(view, toView, "rev", host.topo.rev)
       \/ \E i \in 1..k : Content(toHost[i].project) # Content(host)

Agreement ==
    /\ panel => last # <<>>
    /\ ~panel => toHost = <<>> /\ toView = <<>>
    /\ panel /\ ~crossed => Following \/ \E k \in DOMAIN toHost : Leading(k)

\* One more message.
LEMMA WillBeAppend ==
    ASSUME NEW S, NEW q \in Seq(S), NEW m \in S, NEW s, NEW c, NEW x
    PROVE  /\ Writes(m, c) /\ Written(m, c) = x => WillBe(s, Append(q, m), c, x)
           /\ ~Writes(m, c) /\ WillBe(s, q, c, x) => WillBe(s, Append(q, m), c, x)
<1> DEFINE a == Append(q, m)
           n == Len(q)
<1>1. /\ n \in Nat /\ DOMAIN q = 1..n /\ DOMAIN a = 1..n + 1
      /\ \A i \in 1..n : a[i] = q[i]
      /\ a[n + 1] = m
  BY AppendSeq
<1> HIDE DEF a, n
<1>2. ASSUME Writes(m, c), Written(m, c) = x
      PROVE  WillBe(s, a, c, x)
  <2>1. n + 1 \in DOMAIN a /\ \A j \in DOMAIN a : ~(j > n + 1)
    BY <1>1
  <2> QED
    BY <1>1, <1>2, <2>1 DEF WillBe
<1>3. ASSUME ~Writes(m, c), WillBe(s, q, c, x)
      PROVE  WillBe(s, a, c, x)
  <2>1. \A j \in DOMAIN a : (j \in DOMAIN q /\ a[j] = q[j]) \/ a[j] = m
    BY <1>1
  <2>2. CASE Get(s, c) = x /\ \A i \in DOMAIN q : ~Writes(q[i], c)
    BY <1>3, <2>1, <2>2 DEF WillBe
  <2>3. ASSUME NEW i \in DOMAIN q, Writes(q[i], c), Written(q[i], c) = x,
               \A j \in DOMAIN q : j > i => ~Writes(q[j], c)
        PROVE  WillBe(s, a, c, x)
    <3>1. i \in DOMAIN a /\ a[i] = q[i]
      BY <1>1
    <3>2. \A j \in DOMAIN a : j > i => ~Writes(a[j], c)
      BY <1>3, <2>1, <2>3
    <3> QED
      BY <2>3, <3>1, <3>2 DEF WillBe
  <2> QED
    BY <1>3, <2>2, <2>3 DEF WillBe
<1> QED
  BY <1>2, <1>3 DEF a

\* The first one has arrived.
LEMMA WillBeTail ==
    ASSUME NEW S, NEW q \in Seq(S), q # <<>>, NEW s, NEW t, NEW c, NEW x, WillBe(s, q, c, x),
           Get(t, c) = IF Writes(Head(q), c) THEN Written(Head(q), c) ELSE Get(s, c)
    PROVE  WillBe(t, Tail(q), c, x)
<1> DEFINE a == Tail(q)
           n == Len(q)
<1>1. /\ n \in Nat \ {0} /\ DOMAIN q = 1..n /\ DOMAIN a = 1..n - 1
      /\ \A i \in 1..n - 1 : a[i] = q[i + 1]
      /\ Head(q) = q[1]
  BY TailSeq
<1> HIDE DEF a, n
<1>2. \A i \in DOMAIN a : i + 1 \in DOMAIN q /\ a[i] = q[i + 1]
  BY <1>1
<1>3. CASE Get(s, c) = x /\ \A i \in DOMAIN q : ~Writes(q[i], c)
  <2>1. ~Writes(Head(q), c)
    BY <1>1, <1>3
  <2> QED
    BY <1>2, <1>3, <2>1 DEF WillBe, a
<1>4. ASSUME NEW i \in DOMAIN q, Writes(q[i], c), Written(q[i], c) = x,
             \A j \in DOMAIN q : j > i => ~Writes(q[j], c)
      PROVE  WillBe(t, a, c, x)
  <2>1. CASE i = 1
    <3>1. Get(t, c) = x
      BY <1>1, <1>4, <2>1
    <3>2. \A j \in DOMAIN a : ~Writes(a[j], c)
      BY <1>1, <1>2, <1>4, <2>1
    <3> QED
      BY <3>1, <3>2 DEF WillBe
  <2>2. CASE i # 1
    <3>1. i - 1 \in DOMAIN a /\ a[i - 1] = q[i]
      BY <1>1, <2>2
    <3>2. \A j \in DOMAIN a : j > i - 1 => ~Writes(a[j], c)
      BY <1>1, <1>2, <1>4
    <3> QED
      BY <1>4, <3>1, <3>2 DEF WillBe
  <2> QED
    BY <2>1, <2>2
<1> QED
  BY <1>3, <1>4 DEF WillBe, a

\* Only the cell itself matters.
LEMMA WillBeOf ==
    ASSUME NEW s, NEW t, NEW q, NEW c, NEW x, Get(s, c) = Get(t, c), WillBe(s, q, c, x)
    PROVE  WillBe(t, q, c, x)
BY DEF WillBe

\* Documents with equal cells are equal.
LEMMA CellsOf ==
    ASSUME NEW d \in Documents, NEW e \in Documents, \A c \in Cells : Get(d, c) = Get(e, c)
    PROVE  d = e
<1>1. /\ d.comps = e.comps /\ d.topo.wires = e.topo.wires /\ d.topo.rev = e.topo.rev
      /\ d.at = e.at /\ d.subs = e.subs
  BY DEF Cells, Get
<1> QED
  BY <1>1 DEF Documents, Topologies

\* A new revision changes no other cell.
LEMMA OtherRevision ==
    ASSUME NEW d \in Documents, NEW r \in Nat
    PROVE  /\ [d EXCEPT !.topo.rev = r] \in Documents
           /\ Content([d EXCEPT !.topo.rev = r]) = Content(d)
           /\ [d EXCEPT !.topo.rev = r].topo.rev = r
           /\ Get([d EXCEPT !.topo.rev = r], "rev") = r
           /\ \A c \in Cells \ {"rev"} : Get([d EXCEPT !.topo.rev = r], c) = Get(d, c)
BY DEF Documents, Topologies, Content, Cells, Get

\* With nothing on its way, both forms of the agreement say that the copies are equal.
LEMMA AgreeImplies == HistoryInv /\ Agreement => ReplicasAgree
<1> SUFFICES ASSUME HistoryInv, Agreement, Quiet, panel, ~crossed
             PROVE  view = host
  BY DEF ReplicasAgree
<1>1. toHost = <<>> /\ toView = <<>> /\ awaiting = <<>> /\ last # <<>>
  BY DEF Quiet, Agreement
<1>2. DOMAIN toHost = {} /\ DOMAIN toView = {}
  BY <1>1
<1>3. Following
  BY <1>2 DEF Agreement
<1>4. host = last[1]
  BY <1>1, <1>3 DEF Following
<1>5. \A c \in Cells : Get(view, c) = Get(host, c)
  BY <1>2, <1>3, <1>4 DEF Following, WillBe
<1> QED
  BY <1>5, CellsOf DEF HistoryInv, HostTypes, ViewTypes

-----------------------------------------------------------------------------
(* Publishing and receiving *)

\* A patch brings the webview where the host is.
LEMMA SyncAgrees ==
    ASSUME HostTypes, panel, last # <<>>, NEW h \in Documents, syncSchematicPanel(h),
           \A c \in Cells : WillBe(view, toView, c, Get(last[1], c))
    PROVE  /\ host' = last'[1] /\ last' # <<>>
           /\ \A c \in Cells : WillBe(view, toView', c, Get(last'[1], c))
<1> DEFINE r == Revised(h)
           p == computeProjectStatePatch(r)
           m == [type |-> "patch", patch |-> p]
<1>1. r \in Documents /\ p \in Patches /\ m \in ViewMessages
  BY RevisedTypes, PatchTypes DEF ViewMessages
<1>2. host' = r /\ last' = <<r>> /\ last'[1] = r /\ last' # <<>>
  BY DEF syncSchematicPanel
<1>3. toView' = IF DOMAIN p # {} THEN Append(toView, m) ELSE toView
  BY DEF syncSchematicPanel
<1>4. DOMAIN r = Fields
  BY <1>1, DocumentParts
<1>5. DOMAIN p = {g \in Fields : ~Same(r, g)} /\ \A f \in DOMAIN p : p[f] = r[f]
  BY <1>4 DEF computeProjectStatePatch
<1>6. \A f \in Fields \ DOMAIN p : r[f] = last[1][f]
  BY <1>5 DEF Same
<1>7. toView \in Seq(ViewMessages)
  BY DEF HostTypes
<1>8. m.type = "patch" /\ m.patch = p
  OBVIOUS
<1> HIDE DEF r, p, m
<1>9. ASSUME NEW c \in Cells
      PROVE  WillBe(view, toView', c, Get(r, c))
  <2>1. FieldOf(c) \in Fields
    BY DEF Cells, FieldOf, Fields
  <2>2. CASE FieldOf(c) \in DOMAIN p
    <3>1. Writes(m, c)
      BY <1>8, <2>2 DEF Writes
    <3>2. Written(m, c) = Get(p, c)
      BY <1>8 DEF Written
    <3>3. Get(p, c) = Get(r, c)
      BY <1>5, <2>2 DEF Cells, Get, FieldOf
    <3>4. toView' = Append(toView, m)
      BY <1>3, <2>2
    <3> QED
      BY <1>1, <1>7, <3>1, <3>2, <3>3, <3>4, WillBeAppend
  <2>3. CASE FieldOf(c) \notin DOMAIN p
    <3>1. Get(r, c) = Get(last[1], c)
      BY <1>6, <2>1, <2>3 DEF Cells, Get, FieldOf
    <3>2. ~Writes(m, c)
      BY <1>8, <2>3 DEF Writes
    <3>3. WillBe(view, toView, c, Get(r, c))
      BY <3>1
    <3> QED
      BY <1>1, <1>3, <1>7, <3>2, <3>3, WillBeAppend
  <2> QED
    BY <2>2, <2>3
<1> QED
  BY <1>2, <1>9

\* There is nothing to publish.
LEMMA SyncIdles ==
    ASSUME HostTypes, last # <<>>, host = last[1], syncSchematicPanel(host)
    PROVE  host' = host /\ last'[1] = last[1] /\ last' # <<>> /\ toView' = toView
<1>1. \A f : Same(host, f)
  BY DEF Same
<1>2. Revised(host) = host
  BY <1>1 DEF Revised
<1>3. computeProjectStatePatch(host) = [f \in {} |-> host[f]]
  BY <1>1 DEF computeProjectStatePatch
<1>4. DOMAIN computeProjectStatePatch(host) = {}
  BY <1>3
<1> QED
  BY <1>2, <1>4 DEF syncSchematicPanel

\* What a message does to the cells of the copy.
LEMMA ReceivedCells ==
    ASSUME HistoryInv, Receive, NEW c \in Cells
    PROVE  Get(view', c) = IF Writes(Head(toView), c) THEN Written(Head(toView), c)
                           ELSE Get(view, c)
<1> DEFINE m == Head(toView)
<1>1. m \in ViewMessages /\ view \in Documents
  BY TailSeq DEF HistoryInv, HostTypes, ViewTypes, Receive
<1>2. CASE ReceivePatch
  <2>1. m.type = "patch" /\ view' = Merged(m.patch)
    BY <1>2 DEF ReceivePatch
  <2>2. DOMAIN view = Fields /\ FieldOf(c) \in Fields
    BY <1>1, DocumentParts DEF Cells, FieldOf, Fields
  <2>3. \A f \in Fields : view'[f] = IF f \in DOMAIN m.patch THEN m.patch[f] ELSE view[f]
    BY <2>1, <2>2 DEF Merged
  <2>4. Writes(m, c) <=> FieldOf(c) \in DOMAIN m.patch
    BY <2>1 DEF Writes
  <2>5. Written(m, c) = Get(m.patch, c)
    BY <2>1 DEF Written
  <2> HIDE DEF m
  <2>6. CASE FieldOf(c) \in DOMAIN m.patch
    <3>1. Get(view', c) = Get(m.patch, c)
      BY <2>2, <2>3, <2>6 DEF Cells, Get, FieldOf
    <3> QED
      BY <2>4, <2>5, <2>6, <3>1 DEF m
  <2>7. CASE FieldOf(c) \notin DOMAIN m.patch
    <3>1. Get(view', c) = Get(view, c)
      BY <2>2, <2>3, <2>7 DEF Cells, Get, FieldOf
    <3> QED
      BY <2>4, <2>7, <3>1 DEF m
  <2> QED
    BY <2>6, <2>7
<1>3. CASE ReceiveState
  <2>1. m.type = "syncState" /\ view' = m.project
    BY <1>3 DEF ReceiveState
  <2> QED
    BY <2>1 DEF Writes, Written
<1>4. CASE ReceiveRevision
  <2>1. m.type = "revision" /\ view' = [view EXCEPT !.topo.rev = m.revision]
    BY <1>4 DEF ReceiveRevision
  <2>2. m.revision \in Nat
    BY <1>1, <2>1, ViewMessageParts
  <2>3. /\ Get(view', "rev") = m.revision
        /\ c # "rev" => Get(view', c) = Get(view, c)
    <3> HIDE DEF m
    <3>1. /\ Get([view EXCEPT !.topo.rev = m.revision], "rev") = m.revision
          /\ \A d \in Cells \ {"rev"} :
                Get([view EXCEPT !.topo.rev = m.revision], d) = Get(view, d)
      BY <1>1, <2>2, OtherRevision
    <3> QED
      BY <2>1, <3>1
  <2>4. /\ Writes(m, c) <=> c = "rev"
        /\ Written(m, c) = m.revision
    BY <2>1 DEF Writes, Written
  <2> QED
    BY <2>3, <2>4
<1> QED
  BY <1>2, <1>3, <1>4 DEF Receive

-----------------------------------------------------------------------------
(* Every step keeps the copies together *)

\* With a snapshot first the webview leads, otherwise it follows.
LEMMA HeadTells ==
    ASSUME HostTypes, toHost # <<>>, Following \/ \E k \in DOMAIN toHost : Leading(k)
    PROVE  /\ IsSnapshot(Head(toHost)) => \E k \in DOMAIN toHost : Leading(k)
           /\ ~IsSnapshot(Head(toHost)) => Following
<1>1. 1 \in DOMAIN toHost /\ Head(toHost) = toHost[1] /\ DOMAIN toHost = 1..Len(toHost)
      /\ Len(toHost) \in Nat
  BY DEF HostTypes
<1>2. \A k \in DOMAIN toHost : 1 <= k
  BY <1>1
<1> QED
  BY <1>1, <1>2 DEF Following, Leading

LEMMA AgreePersist ==
    ASSUME HistoryInv, Agreement, panel, NEW s \in Documents, s.topo.rev = view.topo.rev,
           persistState(s)
    PROVE  Agreement'
<1> DEFINE m == [type |-> "projectChanged", project |-> s]
<1>0. PICK k \in Nat : k = Len(toHost) + 1
  BY DEF HistoryInv, HostTypes
<1>1. /\ view' = s /\ toHost' = Append(toHost, m)
      /\ UNCHANGED <<host, last, awaiting, panel, toView>>
      /\ crossed' = (Disturbed \/ (crossed /\ Content(s) = Content(host)))
  BY DEF persistState, Post, hostVars
<1>2. last # <<>>
  BY DEF Agreement
<1> SUFFICES ASSUME ~crossed'
             PROVE  \E j \in DOMAIN toHost' : Leading(j)'
  BY <1>1, <1>2 DEF Agreement
<1>3. ~Disturbed /\ (crossed => Content(s) # Content(host))
  BY <1>1
<1>4. /\ Len(toHost) \in Nat /\ DOMAIN toHost = 1..Len(toHost) /\ DOMAIN toHost' = 1..k
      /\ \A i \in 1..Len(toHost) : toHost'[i] = toHost[i]
      /\ toHost'[k] = m
  <2>1. toHost \in Seq(HostMessages) /\ m \in HostMessages
    BY DEF HistoryInv, HostTypes, HostMessages
  <2> HIDE DEF m
  <2> QED
    BY <1>0, <1>1, <2>1, AppendSeq
<1>5. k \in Nat /\ k \in DOMAIN toHost' /\ m.type = "projectChanged" /\ m.project = s
  BY <1>0, <1>4
<1> HIDE DEF m
<1>6. \A i \in DOMAIN toHost : IsSnapshot(toHost[i])
  BY <1>3 DEF Disturbed, IsSnapshot
<1>7. \A i \in DOMAIN toHost' : IsSnapshot(toHost'[i]) <=> i <= k
  <2>1. \A i \in DOMAIN toHost' : i <= k
    BY <1>4, <1>5
  <2>2. \A i \in DOMAIN toHost' :
           (i \in DOMAIN toHost /\ toHost'[i] = toHost[i]) \/ toHost'[i] = m
    BY <1>0, <1>4
  <2> QED
    BY <1>5, <1>6, <2>1, <2>2 DEF IsSnapshot
<1>8. host = last[1] /\ \A i \in DOMAIN toView : toView[i].type = "revision"
  BY <1>2, <1>3 DEF Disturbed, Unsent
<1>9. \/ WillBe(s, toView, "rev", host.topo.rev)
      \/ \E i \in 1..k : Content(toHost'[i].project) # Content(host)
  <2>1. CASE crossed
    <3>1. k \in 1..k /\ Content(toHost'[k].project) # Content(host)
      BY <1>3, <1>4, <1>5, <2>1
    <3> QED
      BY <3>1
  <2>2. Get(s, "rev") = Get(view, "rev")
    BY DEF Get
  <2>3. CASE Following
    <3>1. WillBe(view, toView, "rev", Get(last[1], "rev"))
      BY <2>3 DEF Following, Cells
    <3>2. Get(last[1], "rev") = host.topo.rev
      BY <1>8 DEF Get
    <3> QED
      BY <2>2, <3>1, <3>2, WillBeOf
  <2>4. ASSUME NEW j \in DOMAIN toHost, Leading(j)
        PROVE  \/ WillBe(s, toView, "rev", host.topo.rev)
               \/ \E i \in 1..k : Content(toHost'[i].project) # Content(host)
    <3>1. \A i \in 1..j : i \in 1..k /\ toHost'[i] = toHost[i]
      BY <1>0, <1>4
    <3> QED
      BY <2>2, <2>4, <3>1, WillBeOf DEF Leading
  <2> QED
    BY <2>1, <2>3, <2>4 DEF Agreement
<1>10. \A c \in Cells \ {"rev"} : Get(toHost'[k].project, c) = Get(view', c)
  BY <1>1, <1>4, <1>5
<1>11. Leading(k)'
  BY <1>1, <1>7, <1>8, <1>9, <1>10 DEF Leading
<1> QED
  BY <1>5, <1>11

LEMMA AgreeRequest ==
    ASSUME HistoryInv, HistoryInv', Agreement, Request
    PROVE  Agreement'
<1> PICK m \in Requests : toHost' = Append(toHost, m)
  BY DEF Request, Post
<1>1. panel /\ UNCHANGED <<host, last, awaiting, view, panel, toView, crossed>>
  BY DEF Request, hostVars, viewVars
<1>2. ~IsSnapshot(m)
  BY DEF Requests, IsSnapshot
<1>3. /\ Len(toHost) \in Nat /\ DOMAIN toHost = 1..Len(toHost)
      /\ DOMAIN toHost' = 1..Len(toHost) + 1
      /\ \A i \in 1..Len(toHost) : toHost'[i] = toHost[i]
      /\ toHost'[Len(toHost) + 1] = m
  <2>1. toHost \in Seq(HostMessages)
    BY DEF HistoryInv, HostTypes
  <2> QED
    BY <2>1
<1>4. Following => Following'
  BY <1>1, <1>2, <1>3 DEF Following
<1>5. ASSUME NEW k \in DOMAIN toHost, Leading(k)
      PROVE  k \in DOMAIN toHost' /\ Leading(k)'
  <2>1. k \in Nat /\ k \in 1..Len(toHost) /\ k \in DOMAIN toHost'
    BY <1>3
  <2>2. \A i \in 1..k : toHost'[i] = toHost[i]
    BY <1>3, <2>1
  <2>3. \A i \in DOMAIN toHost' : IsSnapshot(toHost'[i]) <=> i <= k
    <3> TAKE i \in DOMAIN toHost'
    <3>1. CASE i = Len(toHost) + 1
      BY <1>2, <1>3, <2>1, <3>1
    <3>2. CASE i # Len(toHost) + 1
      BY <1>3, <1>5, <3>2 DEF Leading
    <3> QED
      BY <3>1, <3>2
  <2>4. toHost'[k] = toHost[k]
    BY <1>3, <2>1
  <2> QED
    BY <1>1, <1>5, <2>1, <2>2, <2>3, <2>4 DEF Leading
<1> QED
  BY <1>1, <1>4, <1>5 DEF Agreement

LEMMA AgreeReceive ==
    ASSUME HistoryInv, Agreement, Receive
    PROVE  Agreement'
<1>1. /\ toView # <<>> /\ toView' = Tail(toView)
      /\ UNCHANGED <<host, last, awaiting, panel, toHost, crossed>>
  BY DEF Receive, hostVars
<1>2. toView \in Seq(ViewMessages)
  BY DEF HistoryInv, HostTypes
<1>3. /\ Len(toView) \in Nat \ {0} /\ Head(toView) = toView[1] /\ DOMAIN toView = 1..Len(toView)
      /\ DOMAIN toView' = 1..Len(toView) - 1
      /\ \A i \in 1..Len(toView) - 1 : toView'[i] = toView[i + 1]
  BY <1>1, <1>2, TailSeq
<1>4. ASSUME NEW c \in Cells, NEW x, WillBe(view, toView, c, x)
      PROVE  WillBe(view', toView', c, x)
  <2>1. Get(view', c) = IF Writes(Head(toView), c) THEN Written(Head(toView), c) ELSE Get(view, c)
    BY ReceivedCells
  <2> QED
    BY <1>1, <1>2, <1>4, <2>1, WillBeTail
<1>5. Following => Following'
  BY <1>1, <1>4 DEF Following
<1>6. ASSUME NEW k \in DOMAIN toHost, Leading(k)
      PROVE  Leading(k)'
  <2>1. Head(toView).type = "revision"
    BY <1>3, <1>6 DEF Leading
  <2>2. \A c \in Cells \ {"rev"} : ~Writes(Head(toView), c)
    BY <2>1 DEF Writes
  <2>3. \A c \in Cells \ {"rev"} : Get(view', c) = Get(view, c)
    BY <2>2, ReceivedCells
  <2>4. \A i \in DOMAIN toView' : toView'[i].type = "revision"
    BY <1>3, <1>6 DEF Leading
  <2>5. WillBe(view, toView, "rev", host.topo.rev) => WillBe(view', toView', "rev", host.topo.rev)
    BY <1>4 DEF Cells
  <2> QED
    BY <1>1, <1>6, <2>3, <2>4, <2>5 DEF Leading
<1>7. panel
  BY <1>1 DEF Agreement
<1> QED
  BY <1>1, <1>5, <1>6, <1>7 DEF Agreement

\* The host takes over a snapshot.
LEMMA AgreeSnapshot ==
    ASSUME HistoryInv, Agreement, toHost # <<>>, toHost' = Tail(toHost),
           UNCHANGED <<view, panel>>, projectChanged(Head(toHost))
    PROVE  Agreement'
<1> DEFINE m == Head(toHost)
           changed == Content(host) # Content(m.project)
           r == host.topo.rev + (IF changed THEN 1 ELSE 0)
           next == [m.project EXCEPT !.topo.rev = r]
           msg == [type |-> "revision", revision |-> next.topo.rev]
<1>1. /\ m.type = "projectChanged" /\ host' = next /\ crossed' = crossed
      /\ last' = IF last = <<>> THEN <<>> ELSE <<next>>
      /\ toView' = IF changed THEN Append(toView, msg) ELSE toView
  BY DEF projectChanged
<1>2. /\ Len(toHost) \in Nat \ {0} /\ m = toHost[1] /\ DOMAIN toHost = 1..Len(toHost)
      /\ DOMAIN toHost' = 1..Len(toHost) - 1 /\ m \in HostMessages
      /\ \A i \in 1..Len(toHost) - 1 : toHost'[i] = toHost[i + 1]
  BY TailSeq DEF HistoryInv, HostTypes
<1>3. panel /\ last # <<>>
  BY DEF Agreement
<1>4. m.project \in Documents /\ host \in Documents /\ toView \in Seq(ViewMessages)
  BY <1>1, <1>2, MessageParts DEF HistoryInv, HostTypes
<1>5. r \in Nat /\ (~changed => r = host.topo.rev)
  BY <1>4, DocumentParts
<1> HIDE DEF r, m
<1>6. /\ next \in Documents /\ Content(next) = Content(m.project) /\ next.topo.rev = r
      /\ Get(next, "rev") = r
      /\ \A c \in Cells \ {"rev"} : Get(next, c) = Get(m.project, c)
  BY <1>4, <1>5, OtherRevision
<1>7. host' = last'[1] /\ last' # <<>>
  BY <1>1, <1>3
<1> HIDE DEF next
<1>8. msg \in ViewMessages /\ msg.type = "revision" /\ msg.revision = r
  BY <1>5, <1>6 DEF ViewMessages
<1> HIDE DEF msg
<1>9. changed => WillBe(view, toView', "rev", r)
  BY <1>1, <1>4, <1>8, WillBeAppend DEF Writes, Written
<1> SUFFICES ASSUME ~crossed'
             PROVE  Following' \/ \E j \in DOMAIN toHost' : Leading(j)'
  BY <1>3, <1>7 DEF Agreement
<1> PICK k \in DOMAIN toHost : Leading(k)
  BY <1>1, <1>3, HeadTells DEF HistoryInv, Agreement, IsSnapshot, m
<1>10. \A i \in DOMAIN toView' : toView'[i].type = "revision"
  <2>1. \A i \in DOMAIN toView : toView[i].type = "revision"
    BY DEF Leading
  <2>2. CASE toView' = toView
    BY <2>1, <2>2
  <2>3. CASE toView' = Append(toView, msg)
    <3>1. /\ Len(toView) \in Nat /\ DOMAIN toView = 1..Len(toView)
          /\ DOMAIN toView' = 1..Len(toView) + 1
          /\ \A i \in 1..Len(toView) : toView'[i] = toView[i]
          /\ toView'[Len(toView) + 1] = msg
      BY <1>4, <1>8, <2>3, AppendSeq
    <3>2. \A i \in DOMAIN toView' : i \in DOMAIN toView \/ i = Len(toView) + 1
      BY <3>1
    <3> QED
      BY <1>8, <2>1, <3>1, <3>2
  <2> QED
    BY <1>1, <2>2, <2>3
<1>11. k \in Nat \ {0}
  BY <1>2
<1>12. CASE k = 1
  <2>1. \A i \in DOMAIN toHost' : ~IsSnapshot(toHost'[i])
    <3> TAKE i \in DOMAIN toHost'
    <3>1. i + 1 \in DOMAIN toHost /\ ~(i + 1 <= k) /\ toHost'[i] = toHost[i + 1]
      BY <1>2, <1>12
    <3> QED
      BY <3>1 DEF Leading
  <2>2. ~changed => WillBe(view, toView', "rev", r)
    <3>1. \A i \in 1..k : i = 1
      BY <1>12
    <3>2. ~changed => WillBe(view, toView, "rev", host.topo.rev)
      BY <1>2, <3>1 DEF Leading
    <3> QED
      BY <1>1, <1>5, <3>2
  <2>3. ASSUME NEW c \in Cells
        PROVE  WillBe(view, toView', c, Get(next, c))
    <3>1. CASE c = "rev"
      BY <1>6, <1>9, <2>2, <3>1
    <3>2. CASE c # "rev"
      <4>1. Get(view, c) = Get(next, c)
        BY <1>2, <1>6, <1>12, <3>2 DEF Leading
      <4>2. \A i \in DOMAIN toView' : ~Writes(toView'[i], c)
        BY <1>10, <3>2 DEF Writes
      <4> QED
        BY <4>1, <4>2 DEF WillBe
    <3> QED
      BY <3>1, <3>2
  <2>4. last'[1] = next
    BY <1>1, <1>7
  <2> QED
    BY <1>7, <2>1, <2>3, <2>4 DEF Following
<1>13. CASE k # 1
  <2>1. k - 1 \in DOMAIN toHost' /\ toHost'[k - 1] = toHost[k]
    BY <1>2, <1>11, <1>13
  <2>2. \A i \in DOMAIN toHost' : IsSnapshot(toHost'[i]) <=> i <= k - 1
    <3> TAKE i \in DOMAIN toHost'
    <3>1. i + 1 \in DOMAIN toHost /\ toHost'[i] = toHost[i + 1] /\ (i + 1 <= k <=> i <= k - 1)
      BY <1>2, <1>11
    <3> QED
      BY <3>1 DEF Leading
  <2>3. \/ WillBe(view, toView', "rev", r)
        \/ \E i \in 1..k - 1 : Content(toHost'[i].project) # Content(next)
    <3>1. CASE changed
      BY <1>9, <3>1
    <3>2. CASE ~changed /\ WillBe(view, toView, "rev", host.topo.rev)
      BY <1>1, <1>5, <3>2
    <3>3. ASSUME ~changed, NEW i \in 1..k, Content(toHost[i].project) # Content(host)
          PROVE  \E j \in 1..k - 1 : Content(toHost'[j].project) # Content(next)
      <4>1. i # 1
        BY <1>2, <3>3
      <4>2. i - 1 \in 1..k - 1 /\ toHost'[i - 1] = toHost[i]
        BY <1>2, <1>11, <4>1
      <4>3. Content(next) = Content(host)
        BY <1>6, <3>3
      <4> QED
        BY <3>3, <4>2, <4>3
    <3> QED
      BY <3>1, <3>2, <3>3 DEF Leading
  <2>4. \A c \in Cells \ {"rev"} : Get(toHost'[k - 1].project, c) = Get(view, c)
    BY <2>1 DEF Leading
  <2>5. Leading(k - 1)'
    BY <1>1, <1>6, <1>7, <1>10, <2>2, <2>3, <2>4 DEF Leading
  <2> QED
    BY <2>1, <2>5
<1> QED
  BY <1>12, <1>13

\* The other handlers serve a webview that follows.
LEMMA AgreeHandlers ==
    ASSUME HistoryInv, Agreement, toHost # <<>>, toHost' = Tail(toHost),
           UNCHANGED <<view, panel>>, NEW m, m = Head(toHost),
           \/ requestUpdateProperty(m) \/ requestConnectEndpoints(m)
           \/ openSubcircuit(m) \/ closeSubcircuitEditor(m)
    PROVE  Agreement'
<1>1. panel /\ last # <<>> /\ HostTypes
  BY DEF Agreement, HistoryInv
<1>2. ~IsSnapshot(m) /\ m \in HostMessages
  BY <1>1, TailSeq DEF IsSnapshot, requestUpdateProperty, requestConnectEndpoints, openSubcircuit,
     closeSubcircuitEditor, HostTypes
<1>3. crossed => crossed'
  BY DEF requestUpdateProperty, requestConnectEndpoints, openSubcircuit, closeSubcircuitEditor,
     restoreOuterCircuit, StayInLevel
<1>4. last' # <<>>
  <2>1. CASE requestUpdateProperty(m)
    <3>1. \A x : <<x>> # <<>>
      OBVIOUS
    <3> QED
      BY <1>1, <2>1, <3>1 DEF requestUpdateProperty, syncSchematicPanel
  <2>2. CASE requestConnectEndpoints(m)
    BY <1>1, <2>2 DEF requestConnectEndpoints
  <2>3. CASE openSubcircuit(m)
    BY <1>1, <2>3 DEF openSubcircuit, StayInLevel
  <2>4. CASE closeSubcircuitEditor(m)
    BY <1>1, <2>4 DEF closeSubcircuitEditor, restoreOuterCircuit, StayInLevel
  <2> QED
    BY <2>1, <2>2, <2>3, <2>4
<1> SUFFICES ASSUME ~crossed'
             PROVE  Following'
  BY <1>1, <1>4 DEF Agreement
<1>5. Following
  BY <1>1, <1>2, <1>3, HeadTells DEF Agreement
<1>6. \A i \in DOMAIN toHost' : ~IsSnapshot(toHost'[i])
  <2>1. /\ Len(toHost) \in Nat \ {0} /\ DOMAIN toHost = 1..Len(toHost)
        /\ DOMAIN toHost' = 1..Len(toHost) - 1
        /\ \A i \in 1..Len(toHost) - 1 : toHost'[i] = toHost[i + 1]
    BY <1>1, TailSeq DEF HostTypes
  <2>2. \A i \in DOMAIN toHost' : i + 1 \in DOMAIN toHost /\ toHost'[i] = toHost[i + 1]
    BY <2>1
  <2> QED
    BY <1>5, <2>2 DEF Following
<1>7. ASSUME UNCHANGED <<last, toView>>,
             (host' = host /\ awaiting' = awaiting) \/ awaiting' # <<>>
      PROVE  Following'
  BY <1>5, <1>6, <1>7 DEF Following
<1>8. ASSUME NEW x
      PROVE  Append(awaiting, x) # <<>>
  <2>1. awaiting \in Seq({"open", "close", "connect", "subsystems"})
    BY <1>1 DEF HostTypes
  <2> QED
    BY <2>1
<1>9. CASE requestUpdateProperty(m)
  <2>1. CASE syncSchematicPanel([host EXCEPT !.comps.v = m.v])
    <3>1. [host EXCEPT !.comps.v = m.v] \in Documents
      BY <1>1, <1>2, <1>9, MessageParts, DocumentEdits DEF requestUpdateProperty, HostTypes
    <3>2. \A c \in Cells : WillBe(view, toView, c, Get(last[1], c))
      BY <1>5 DEF Following
    <3>3. host' = last'[1] /\ \A c \in Cells : WillBe(view, toView', c, Get(last'[1], c))
      BY <1>1, <2>1, <3>1, <3>2, SyncAgrees
    <3> QED
      BY <1>6, <3>3 DEF Following
  <2>2. CASE UNCHANGED <<host, last, toView>>
    BY <1>7, <1>9, <2>2 DEF requestUpdateProperty
  <2> QED
    BY <1>9, <2>1, <2>2 DEF requestUpdateProperty
<1>10. CASE requestConnectEndpoints(m)
  <2>1. CASE m.base # host.topo.rev
    <3> DEFINE msg == [type |-> "syncState", project |-> host]
    <3>1. toView' = Append(toView, msg) /\ ~Unsent /\ UNCHANGED <<host, last, awaiting>>
      BY <1>10, <2>1 DEF requestConnectEndpoints
    <3>2. host = last[1]
      BY <1>1, <3>1 DEF Unsent
    <3>3. msg \in ViewMessages /\ msg.type = "syncState" /\ msg.project = host
      BY <1>1 DEF ViewMessages, HostTypes
    <3> HIDE DEF msg
    <3>4. \A c \in Cells : Writes(msg, c) /\ Written(msg, c) = Get(host, c)
      BY <3>3 DEF Writes, Written
    <3>5. \A c \in Cells : WillBe(view, toView', c, Get(host, c))
      BY <1>1, <3>1, <3>3, <3>4, WillBeAppend DEF HostTypes
    <3> QED
      BY <1>6, <3>1, <3>2, <3>5 DEF Following
  <2>2. CASE m.base = host.topo.rev
    BY <1>7, <1>8, <1>10, <2>2 DEF requestConnectEndpoints
  <2> QED
    BY <2>1, <2>2
<1>11. CASE openSubcircuit(m)
  BY <1>7, <1>8, <1>11 DEF openSubcircuit
<1>12. CASE closeSubcircuitEditor(m)
  <2>1. UNCHANGED <<last, toView>>
    BY <1>12 DEF closeSubcircuitEditor
  <2>2. ASSUME NEW table, StayInLevel(table)
        PROVE  host' = host /\ awaiting' = awaiting
    <3>1. table = host.subs /\ host' = [host EXCEPT !.subs = table] /\ awaiting' = awaiting
      BY <2>2 DEF StayInLevel
    <3>2. host \in Documents
      BY <1>1 DEF HostTypes
    <3> QED
      BY <3>1, <3>2 DEF Documents
  <2>3. ASSUME NEW session, NEW table, restoreOuterCircuit(session, table)
        PROVE  awaiting' # <<>>
    BY <1>8, <2>3 DEF restoreOuterCircuit
  <2>4. (host' = host /\ awaiting' = awaiting) \/ awaiting' # <<>>
    BY <1>12, <2>2, <2>3 DEF closeSubcircuitEditor
  <2> QED
    BY <1>7, <2>1, <2>4
<1> QED
  BY <1>9, <1>10, <1>11, <1>12

LEMMA AgreeContinue ==
    ASSUME HistoryInv, Agreement, Continue
    PROVE  Agreement'
<1>1. syncSchematicPanel(host) /\ UNCHANGED <<view, panel, toHost, crossed>> /\ HostTypes
  BY DEF Continue, viewVars, HistoryInv
<1>2. last' # <<>> /\ (~panel => toView' = toView) /\ host \in Documents
  BY <1>1 DEF syncSchematicPanel, HostTypes
<1>3. ASSUME panel, Following
      PROVE  Following'
  <2>1. \A c \in Cells : WillBe(view, toView, c, Get(last[1], c))
    BY <1>3 DEF Following
  <2>2. host' = last'[1] /\ \A c \in Cells : WillBe(view, toView', c, Get(last'[1], c))
    BY <1>1, <1>2, <1>3, <2>1, SyncAgrees DEF Agreement
  <2> QED
    BY <1>1, <1>3, <2>2 DEF Following
<1>4. ASSUME panel, NEW k \in DOMAIN toHost, Leading(k)
      PROVE  Leading(k)'
  <2>1. host' = host /\ last'[1] = last[1] /\ toView' = toView
    BY <1>1, <1>4, SyncIdles DEF Agreement, Leading
  <2> QED
    BY <1>1, <1>4, <2>1 DEF Leading
<1> QED
  BY <1>1, <1>2, <1>3, <1>4 DEF Agreement

LEMMA AgreeOtherPanelEdit ==
    ASSUME HistoryInv, Agreement, NEW v \in Values, OtherPanelEdit(v)
    PROVE  Agreement'
<1>1. /\ syncSchematicPanel([host EXCEPT !.comps.v = v]) /\ UNCHANGED <<view, panel, toHost>>
      /\ crossed' = (crossed \/ SnapshotUnderWay) /\ HostTypes
  BY DEF OtherPanelEdit, viewVars, HistoryInv
<1>2. last' # <<>> /\ (~panel => toView' = toView) /\ [host EXCEPT !.comps.v = v] \in Documents
  BY <1>1, DocumentEdits DEF syncSchematicPanel, HostTypes
<1>3. ASSUME panel, ~crossed'
      PROVE  Following'
  <2>1. ~crossed /\ ~SnapshotUnderWay
    BY <1>1, <1>3
  <2>2. \A k \in DOMAIN toHost : ~Leading(k)
    <3> SUFFICES ASSUME NEW k \in DOMAIN toHost, Leading(k)
                 PROVE  FALSE
      OBVIOUS
    <3>1. k <= k
      BY <1>1 DEF HostTypes
    <3> QED
      BY <2>1, <3>1 DEF Leading, SnapshotUnderWay, IsSnapshot
  <2>3. Following
    BY <1>3, <2>1, <2>2 DEF Agreement
  <2>4. \A c \in Cells : WillBe(view, toView, c, Get(last[1], c))
    BY <2>3 DEF Following
  <2>5. host' = last'[1] /\ \A c \in Cells : WillBe(view, toView', c, Get(last'[1], c))
    BY <1>1, <1>2, <1>3, <2>4, SyncAgrees DEF Agreement
  <2> QED
    BY <1>1, <2>3, <2>5 DEF Following
<1> QED
  BY <1>1, <1>2, <1>3 DEF Agreement

LEMMA AgreePanels ==
    ASSUME HistoryInv, Agreement, ClosePanel \/ OpenPanel \/ RevealPanel
    PROVE  Agreement'
<1>1. CASE ClosePanel
  BY <1>1 DEF ClosePanel, Agreement
<1>2. CASE OpenPanel
  <2>1. toHost' = <<>> /\ toView' = <<>> /\ last' = <<host>> /\ view' = host /\ host' = host
    BY <1>2 DEF OpenPanel, Agreement
  <2>2. DOMAIN toHost' = {} /\ DOMAIN toView' = {} /\ last'[1] = host' /\ last' # <<>>
    BY <2>1
  <2>3. Following'
    BY <2>1, <2>2 DEF Following, WillBe
  <2> QED
    BY <1>2, <2>2, <2>3 DEF OpenPanel, Agreement
<1>3. CASE RevealPanel
  <2> DEFINE msg == [type |-> "syncState", project |-> host]
  <2>1. /\ panel /\ last' = <<host>> /\ toView' = Append(toView, msg)
        /\ crossed' = (crossed \/ SnapshotUnderWay) /\ UNCHANGED <<host, view, panel, toHost>>
    BY <1>3 DEF RevealPanel, viewVars
  <2>2. last'[1] = host /\ last' # <<>>
    BY <2>1
  <2>3. msg \in ViewMessages /\ msg.type = "syncState" /\ msg.project = host
    BY DEF ViewMessages, HistoryInv, HostTypes
  <2> HIDE DEF msg
  <2>4. \A c \in Cells : Writes(msg, c) /\ Written(msg, c) = Get(host, c)
    BY <2>3 DEF Writes, Written
  <2>5. \A c \in Cells : WillBe(view, toView', c, Get(host, c))
    BY <2>1, <2>3, <2>4, WillBeAppend DEF HistoryInv, HostTypes
  <2>6. ~SnapshotUnderWay => Following'
    BY <2>1, <2>2, <2>5 DEF Following, SnapshotUnderWay, IsSnapshot
  <2> QED
    BY <2>1, <2>2, <2>6 DEF Agreement
<1> QED
  BY <1>1, <1>2, <1>3

LEMMA AgreeInit == Init => Agreement
<1> SUFFICES ASSUME Init
             PROVE  Agreement
  OBVIOUS
<1>1. /\ panel /\ last # <<>> /\ last[1] = host /\ view = host
      /\ toHost = <<>> /\ toView = <<>>
  BY DEF Init
<1>2. DOMAIN toHost = {} /\ DOMAIN toView = {}
  BY <1>1
<1>3. Following
  BY <1>1, <1>2 DEF Following, WillBe
<1> QED
  BY <1>1, <1>3 DEF Agreement

LEMMA AgreeNext == HistoryInv /\ HistoryInv' /\ Agreement /\ [Next]_vars => Agreement'
<1> SUFFICES ASSUME HistoryInv, HistoryInv', Agreement, [Next]_vars
             PROVE  Agreement'
  OBVIOUS
<1>1. ASSUME NEW s \in Edits, LocalEdit(s)
      PROVE  Agreement'
  <2>1. view \in Documents
    BY DEF HistoryInv, ViewTypes
  <2>2. s \in Documents /\ s.topo.rev = view.topo.rev
    BY <2>1, DocumentEdits DEF Edits, Documents, Topologies
  <2> QED
    BY <1>1, <2>2, AgreePersist DEF LocalEdit
<1>2. ASSUME NEW x \in Snapshots, panel, applyUndoSnapshot(x)
      PROVE  Agreement'
  <2> DEFINE s == [view EXCEPT !.comps = x.comps, !.topo.wires = x.wires, !.subs = x.subs]
  <2>1. view \in Documents
    BY DEF HistoryInv, ViewTypes
  <2>2. s \in Documents /\ s.topo.rev = view.topo.rev
    BY <2>1, Restored DEF Documents, Topologies
  <2> QED
    BY <1>2, <2>2, AgreePersist DEF applyUndoSnapshot
<1>3. CASE undo
  <2>1. Last(history.undo) \in Snapshots
    BY <1>3, FrontSeq DEF HistoryInv, ViewTypes, Histories, undo
  <2> QED
    BY <1>2, <1>3, <2>1 DEF undo
<1>4. CASE redo
  <2>1. Last(history.redo) \in Snapshots
    BY <1>4, FrontSeq DEF HistoryInv, ViewTypes, Histories, redo
  <2> QED
    BY <1>2, <1>4, <2>1 DEF redo
<1>5. CASE handleWebviewMessage
  <2>1. toHost # <<>> /\ toHost' = Tail(toHost) /\ UNCHANGED <<view, panel>>
    BY <1>5 DEF handleWebviewMessage, viewVars
  <2> QED
    BY <1>5, <2>1, AgreeSnapshot, AgreeHandlers DEF handleWebviewMessage
<1>6. CASE UNCHANGED vars
  BY <1>6 DEF vars, Agreement, Following, Leading
<1> QED
  BY <1>1, <1>3, <1>4, <1>5, <1>6, AgreeRequest, AgreeReceive, AgreeContinue, AgreeOtherPanelEdit,
     AgreePanels DEF Next

\* The host and the webview agree (syncSchematicPanel and projectChanged in extension.ts, the
\* handlers of syncStatePatch, syncState and topologyRevision in main.ts): once nothing is on its
\* way the screen shows the document of the host, its level and its revision, unless a snapshot
\* has met a change of the host.
THEOREM CopiesAgree == Spec => []ReplicasAgree
<1>1. Spec => []HistoryInv
  BY HistoryInit, HistoryNext, PTL DEF Spec
<1>2. HistoryInv /\ HistoryInv' /\ Agreement /\ [Next]_vars => Agreement'
  BY AgreeNext
<1> QED
  BY <1>1, <1>2, AgreeInit, AgreeImplies, PTL DEF Spec

-----------------------------------------------------------------------------
(* The levels *)

\* A table of definitions, a document and a version, each with circuits of its own level only.
Proper(t) == \A k \in Definitions : t[k].comps.of = k /\ t[k].topo.wires.of = k
Coherent(d) == d.comps.of = d.at.src /\ d.topo.wires.of = d.at.src /\ Proper(d.subs)
Within(x, c) == x.comps.of = c /\ x.wires.of = c /\ Proper(x.subs)
Kept(h, c) ==
    /\ \A i \in DOMAIN h.undo : Within(h.undo[i], c)
    /\ \A i \in DOMAIN h.redo : Within(h.redo[i], c)
    /\ Within(h.base, c)

\* A path is the sequence of the circuits from the project to a level; a place p is its end.
EndsAt(p, x) == x # <<>> /\ p.src = x[Len(x)] /\ p.depth = Len(x) - 1

\* Paths at most one level apart.
Near(x, y) ==
    \/ y = x
    \/ \E c \in Circuits : y = Append(x, c)
    \/ Len(x) > 1 /\ y = Front(x)

\* The message m takes a copy from the path x to the path y.
Carries(m, x, y) ==
    /\ m.type # "patch" => x = y
    /\ m.type = "syncState" => Coherent(m.project) /\ EndsAt(m.project.at, y)
    /\ m.type = "patch" =>
          /\ Near(x, y)
          /\ "comps" \in DOMAIN m.patch => m.patch.comps.of = y[Len(y)]
          /\ "topo" \in DOMAIN m.patch => m.patch.topo.wires.of = y[Len(y)]
          /\ "subs" \in DOMAIN m.patch => Proper(m.patch.subs)
          /\ "at" \in DOMAIN m.patch =>
                EndsAt(m.patch.at, y) /\ "comps" \in DOMAIN m.patch /\ "topo" \in DOMAIN m.patch
          /\ "at" \notin DOMAIN m.patch => x = y

\* The histories o belong to levels of the path x: position p[j] is where the circuit of o[j]
\* is left for another one, and after p[1] no such position is left out.
Lies(o, x, p) ==
    /\ \A j \in DOMAIN o : p[j] \in 1..Len(x) - 1 /\ x[p[j]] # x[p[j] + 1] /\ Kept(o[j], x[p[j]])
    /\ \A i, j \in DOMAIN o : i < j => p[i] < p[j]
    /\ \A q \in 1..Len(x) - 1 :
          x[q] # x[q + 1] => (\E j \in DOMAIN o : q = p[j]) \/ (\A j \in DOMAIN o : q < p[j])
Fits(o, x) == \E p \in [DOMAIN o -> Nat] : Lies(o, x, p)

\* Whatever is pushed was in the history or is the new version.
LEMMA PushedFrom ==
    ASSUME NEW S, NEW s \in Seq(S), NEW x \in S
    PROVE  \A i \in DOMAIN Pushed(s, x) :
              Pushed(s, x)[i] = x \/ \E j \in DOMAIN s : Pushed(s, x)[i] = s[j]
<1> DEFINE a == Append(s, x)
<1>1. /\ a \in Seq(S) /\ Len(a) = Len(s) + 1 /\ Len(s) \in Nat /\ a # <<>>
      /\ \A i \in 1..Len(s) : a[i] = s[i]
      /\ a[Len(s) + 1] = x
  OBVIOUS
<1>2. \A i \in 1..Len(s) + 1 : a[i] = x \/ \E j \in DOMAIN s : a[i] = s[j]
  BY <1>1
<1>3. CASE Pushed(s, x) = a
  BY <1>1, <1>2, <1>3
<1>4. CASE Pushed(s, x) = Tail(a)
  <2> HIDE DEF a
  <2>1. Tail(a) \in Seq(S) /\ Len(Tail(a)) = Len(s) /\ \A i \in 1..Len(s) : Tail(a)[i] = a[i + 1]
    BY <1>1, TailSeq
  <2>2. \A i \in 1..Len(s) : i + 1 \in 1..Len(s) + 1
    BY <1>1
  <2> QED
    BY <1>2, <1>4, <2>1, <2>2
<1> QED
  BY <1>3, <1>4 DEF Pushed

\* A document of one level gives a version of its circuit.
LEMMA CoherentVersion ==
    ASSUME NEW s \in Documents, Coherent(s)
    PROVE  Within(snapshotOf(s), s.at.src)
BY DEF Coherent, Within, snapshotOf

\* Recording a version of the circuit keeps the history in it.
LEMMA RecordedKept ==
    ASSUME NEW h \in Histories, NEW s \in Documents, Coherent(s), Kept(h, s.at.src)
    PROVE  Kept(recordUndoTransition(h, s), s.at.src)
<1>1. CASE snapshotOf(s) = h.base
  BY <1>1 DEF recordUndoTransition
<1>2. CASE snapshotOf(s) # h.base
  <2> DEFINE p == Pushed(h.undo, h.base)
  <2>1. h.undo \in Seq(Snapshots) /\ h.base \in Snapshots
    BY DEF Histories
  <2>2. \A i \in DOMAIN p : p[i] = h.base \/ \E j \in DOMAIN h.undo : p[i] = h.undo[j]
    BY <2>1, PushedFrom
  <2>3. recordUndoTransition(h, s) = [undo |-> p, redo |-> <<>>, base |-> snapshotOf(s)]
    BY <1>2 DEF recordUndoTransition
  <2>4. Within(snapshotOf(s), s.at.src)
    BY CoherentVersion
  <2> HIDE DEF p
  <2>5. DOMAIN <<>> = {}
    OBVIOUS
  <2>6. \A i \in DOMAIN p : Within(p[i], s.at.src)
    BY <2>2 DEF Kept
  <2> QED
    BY <2>3, <2>4, <2>5, <2>6 DEF Kept
<1> QED
  BY <1>1, <1>2

\* A new history holds the circuit it begins with.
LEMMA BegunKept ==
    ASSUME NEW s \in Documents, Coherent(s)
    PROVE  Kept(resetUndoHistory(s), s.at.src)
<1>1. DOMAIN <<>> = {}
  OBVIOUS
<1> QED
  BY <1>1, CoherentVersion DEF resetUndoHistory, Kept

\* One version back or forth stays in the circuit.
LEMMA MovedKept ==
    ASSUME NEW c, NEW a \in Seq(Snapshots), NEW b \in Seq(Snapshots), NEW x \in Snapshots, a # <<>>,
           \A i \in DOMAIN a : Within(a[i], c), \A i \in DOMAIN b : Within(b[i], c), Within(x, c)
    PROVE  /\ \A i \in DOMAIN Front(a) : Within(Front(a)[i], c)
           /\ \A i \in DOMAIN Append(b, x) : Within(Append(b, x)[i], c)
           /\ Within(Last(a), c)
<1>1. /\ Len(a) \in Nat \ {0} /\ Last(a) = a[Len(a)]
      /\ Front(a) \in Seq(Snapshots) /\ Len(Front(a)) = Len(a) - 1
      /\ \A i \in 1..Len(a) - 1 : Front(a)[i] = a[i]
  BY FrontSeq
<1>2. /\ Append(b, x) \in Seq(Snapshots) /\ Len(Append(b, x)) = Len(b) + 1
      /\ \A i \in 1..Len(b) : Append(b, x)[i] = b[i]
      /\ Append(b, x)[Len(b) + 1] = x
  BY AppendSeq
<1>3. \A i \in DOMAIN Front(a) : i \in 1..Len(a) - 1 /\ i \in DOMAIN a
  BY <1>1
<1>4. \A i \in DOMAIN Append(b, x) : (i \in 1..Len(b) /\ i \in DOMAIN b) \/ i = Len(b) + 1
  BY <1>2
<1>5. Len(a) \in DOMAIN a
  BY <1>1
<1> QED
  BY <1>1, <1>2, <1>3, <1>4, <1>5

-----------------------------------------------------------------------------
(* Paths and the histories outside *)

\* Another place in the same circuit: no history is stored or brought back.
LEMMA FitsStay ==
    ASSUME NEW o \in Seq(Histories), NEW x \in Seq(Circuits), NEW y \in Seq(Circuits),
           x # <<>>, y # <<>>, Near(x, y), x[Len(x)] = y[Len(y)], Fits(o, x)
    PROVE  Fits(o, y)
<1> PICK p \in [DOMAIN o -> Nat] : Lies(o, x, p)
  BY DEF Fits
<1>0. Len(x) \in Nat \ {0} /\ Len(y) \in Nat \ {0}
  OBVIOUS
<1>1. CASE y = x
  BY <1>1
<1>2. CASE \E c \in Circuits : y = Append(x, c)
  <2>1. Len(y) = Len(x) + 1 /\ \A i \in 1..Len(x) : y[i] = x[i]
    BY <1>2, AppendSeq
  <2>2. y[Len(x)] = y[Len(x) + 1]
    BY <1>0, <2>1
  <2>3. \A j \in DOMAIN o :
           p[j] \in 1..Len(y) - 1 /\ p[j] \in 1..Len(x) /\ p[j] + 1 \in 1..Len(x)
    BY <1>0, <2>1 DEF Lies
  <2>4. \A q \in 1..Len(y) - 1 :
           q = Len(x) \/ (q \in 1..Len(x) - 1 /\ q \in 1..Len(x) /\ q + 1 \in 1..Len(x))
    BY <1>0, <2>1
  <2>5. Lies(o, y, p)
    BY <2>1, <2>2, <2>3, <2>4 DEF Lies
  <2> QED
    BY <2>5 DEF Fits
<1>3. CASE Len(x) > 1 /\ y = Front(x)
  <2>1. Len(y) = Len(x) - 1 /\ \A i \in 1..Len(x) - 1 : y[i] = x[i]
    BY <1>3, FrontSeq
  <2>2. x[Len(y)] = x[Len(y) + 1]
    BY <1>0, <2>1
  <2>3. \A j \in DOMAIN o : p[j] \in 1..Len(y) - 1 /\ p[j] \in 1..Len(y) /\ p[j] + 1 \in 1..Len(y)
    BY <1>0, <2>1, <2>2 DEF Lies
  <2>4. \A q \in 1..Len(y) - 1 : q \in 1..Len(x) - 1 /\ q \in 1..Len(y) /\ q + 1 \in 1..Len(y)
    BY <1>0, <2>1
  <2>5. Lies(o, y, p)
    BY <2>1, <2>2, <2>3, <2>4 DEF Lies
  <2> QED
    BY <2>5 DEF Fits
<1> QED
  BY <1>1, <1>2, <1>3 DEF Near

\* Entering another circuit stores the history of the one that is left.
LEMMA FitsPush ==
    ASSUME NEW o \in Seq(Histories), NEW h \in Histories, NEW x \in Seq(Circuits), x # <<>>,
           NEW c \in Circuits, c # x[Len(x)], Kept(h, x[Len(x)]), Fits(o, x)
    PROVE  Fits(Append(o, h), Append(x, c))
<1> PICK p \in [DOMAIN o -> Nat] : Lies(o, x, p)
  BY DEF Fits
<1> DEFINE y == Append(x, c)
           r == Append(o, h)
           s == [j \in DOMAIN r |-> IF j = Len(o) + 1 THEN Len(x) ELSE p[j]]
<1>1. Len(x) \in Nat \ {0} /\ Len(o) \in Nat /\ DOMAIN o = 1..Len(o)
  OBVIOUS
<1>2. /\ Len(y) = Len(x) + 1 /\ \A i \in 1..Len(x) : y[i] = x[i]
      /\ y[Len(x) + 1] = c
  BY AppendSeq
<1>3. /\ r \in Seq(Histories) /\ Len(r) = Len(o) + 1 /\ \A i \in 1..Len(o) : r[i] = o[i]
      /\ r[Len(o) + 1] = h
  BY AppendSeq
<1>4. DOMAIN r = 1..Len(o) + 1
  BY <1>3
<1> HIDE DEF y, r
<1>5. s \in [DOMAIN r -> Nat]
  BY <1>1, <1>4
<1>6. s[Len(o) + 1] = Len(x) /\ \A j \in 1..Len(o) : s[j] = p[j]
  BY <1>1, <1>4
<1> HIDE DEF s
<1>7. \A j \in 1..Len(o) : /\ p[j] \in 1..Len(x) - 1 /\ p[j] \in 1..Len(x)
                           /\ p[j] + 1 \in 1..Len(x) /\ p[j] < Len(x)
  BY <1>1 DEF Lies
<1>8. \A j \in DOMAIN r : j = Len(o) + 1 \/ j \in 1..Len(o)
  BY <1>1, <1>4
<1>9. \A j \in DOMAIN r : s[j] \in 1..Len(y) - 1 /\ y[s[j]] # y[s[j] + 1] /\ Kept(r[j], y[s[j]])
  <2> TAKE j \in DOMAIN r
  <2>1. CASE j = Len(o) + 1
    <3>1. Len(x) \in 1..Len(y) - 1 /\ Len(x) \in 1..Len(x)
      BY <1>1, <1>2
    <3> QED
      BY <1>2, <1>3, <1>6, <2>1, <3>1
  <2>2. CASE j \in 1..Len(o)
    <3>1. p[j] \in 1..Len(y) - 1
      BY <1>1, <1>2, <1>7, <2>2
    <3>2. x[p[j]] # x[p[j] + 1] /\ Kept(o[j], x[p[j]])
      BY <1>1, <2>2 DEF Lies
    <3>3. y[p[j]] = x[p[j]] /\ y[p[j] + 1] = x[p[j] + 1] /\ r[j] = o[j] /\ s[j] = p[j]
      BY <1>2, <1>3, <1>6, <1>7, <2>2
    <3> QED
      BY <3>1, <3>2, <3>3
  <2> QED
    BY <1>8, <2>1, <2>2
<1>10. \A i, j \in DOMAIN r : i < j => s[i] < s[j]
  <2> SUFFICES ASSUME NEW i \in DOMAIN r, NEW j \in DOMAIN r, i < j
               PROVE  s[i] < s[j]
    OBVIOUS
  <2>1. i \in 1..Len(o)
    BY <1>1, <1>4
  <2> QED
    BY <1>1, <1>6, <1>7, <1>8, <2>1 DEF Lies
<1>11. ASSUME NEW q \in 1..Len(y) - 1, y[q] # y[q + 1]
       PROVE  (\E j \in DOMAIN r : q = s[j]) \/ (\A j \in DOMAIN r : q < s[j])
  <2>1. CASE q = Len(x)
    <3>1. Len(o) + 1 \in DOMAIN r /\ q = s[Len(o) + 1]
      BY <1>1, <1>4, <1>6, <2>1
    <3> QED
      BY <3>1
  <2>2. CASE q # Len(x)
    <3>1. q \in 1..Len(x) - 1 /\ q \in 1..Len(x) /\ q + 1 \in 1..Len(x) /\ q < Len(x)
      BY <1>1, <1>2, <2>2
    <3>2. (\E j \in 1..Len(o) : q = p[j]) \/ (\A j \in 1..Len(o) : q < p[j])
      BY <1>1, <1>2, <1>11, <3>1 DEF Lies
    <3>3. \A j \in 1..Len(o) : j \in DOMAIN r
      BY <1>1, <1>4
    <3> QED
      BY <1>6, <1>8, <3>1, <3>2, <3>3
  <2> QED
    BY <2>1, <2>2
<1>12. Lies(r, y, s)
  BY <1>9, <1>10, <1>11 DEF Lies
<1> QED
  BY <1>5, <1>12 DEF Fits, y, r

\* Leaving for another circuit: the history that comes back is the one of that circuit.
LEMMA FitsPop ==
    ASSUME NEW o \in Seq(Histories), NEW x \in Seq(Circuits), Len(x) > 1,
           x[Len(x) - 1] # x[Len(x)], Fits(o, x)
    PROVE  /\ o # <<>> => Kept(Last(o), x[Len(x) - 1]) /\ Fits(Front(o), Front(x))
           /\ o = <<>> => Fits(o, Front(x))
<1> PICK p \in [DOMAIN o -> Nat] : Lies(o, x, p)
  BY DEF Fits
<1> DEFINE y == Front(x)
<1>1. Len(x) \in Nat /\ Len(x) > 1 /\ Len(o) \in Nat /\ DOMAIN o = 1..Len(o) /\ x # <<>>
  OBVIOUS
<1>2. y \in Seq(Circuits) /\ Len(y) = Len(x) - 1 /\ \A i \in 1..Len(x) - 1 : y[i] = x[i]
  BY <1>1, FrontSeq
<1> HIDE DEF y
<1>3. \A q \in 1..Len(y) - 1 : q \in 1..Len(x) - 1 /\ q + 1 \in 1..Len(x) - 1
  BY <1>1, <1>2
<1>4. CASE o = <<>>
  <2>1. DOMAIN o = {}
    BY <1>4
  <2>2. Lies(o, y, p)
    BY <2>1 DEF Lies
  <2> QED
    BY <1>4, <2>2 DEF Fits, y
<1>5. CASE o # <<>>
  <2> DEFINE n == Len(o)
             r == Front(o)
             s == [j \in DOMAIN r |-> p[j]]
  <2>1. /\ n \in Nat \ {0} /\ Last(o) = o[n] /\ r \in Seq(Histories) /\ Len(r) = n - 1
        /\ \A i \in 1..n - 1 : r[i] = o[i]
    BY <1>5, FrontSeq
  <2>2. DOMAIN r = 1..n - 1
    BY <2>1
  <2> HIDE DEF n, r
  <2>3. s \in [DOMAIN r -> Nat] /\ \A j \in 1..n - 1 : s[j] = p[j] /\ j \in 1..n
    <3>1. \A j \in 1..n - 1 : j \in 1..n
      BY <2>1
    <3> QED
      BY <1>1, <2>2, <3>1 DEF n
  <2> HIDE DEF s
  <2>4. n \in DOMAIN o /\ p[n] \in 1..Len(x) - 1
    BY <2>1, <1>1 DEF Lies, n
  <2>5. PICK j \in DOMAIN o : p[j] = Len(x) - 1
    <3>1. Len(x) - 1 \in 1..Len(x) - 1 /\ (Len(x) - 1) + 1 = Len(x)
      BY <1>1
    <3>2. (\E j \in DOMAIN o : Len(x) - 1 = p[j]) \/ (\A j \in DOMAIN o : Len(x) - 1 < p[j])
      BY <3>1 DEF Lies
    <3> QED
      BY <1>1, <2>4, <3>2
  <2>6. p[n] = Len(x) - 1
    <3>1. j = n \/ j < n
      BY <1>1 DEF n
    <3>2. j < n => p[j] < p[n]
      BY <2>4 DEF Lies
    <3> QED
      BY <1>1, <2>4, <2>5, <3>1, <3>2
  <2>7. Kept(Last(o), x[Len(x) - 1])
    BY <2>1, <2>4, <2>6 DEF Lies
  <2>8. \A i \in 1..n - 1 : p[i] < Len(x) - 1 /\ i \in DOMAIN o /\ p[i] \in 1..Len(x) - 1
    <3> TAKE i \in 1..n - 1
    <3>1. i \in DOMAIN o /\ i < n
      BY <1>1, <2>1 DEF n
    <3> QED
      BY <2>4, <2>6, <3>1 DEF Lies
  <2>9. \A i \in DOMAIN r : s[i] \in 1..Len(y) - 1 /\ y[s[i]] # y[s[i] + 1] /\ Kept(r[i], y[s[i]])
    <3> TAKE i \in DOMAIN r
    <3>1. /\ s[i] = p[i] /\ r[i] = o[i] /\ i \in DOMAIN o
          /\ p[i] \in 1..Len(x) - 1 /\ p[i] < Len(x) - 1
      BY <2>1, <2>2, <2>3, <2>8
    <3>2. p[i] \in 1..Len(y) - 1 /\ p[i] + 1 \in 1..Len(x) - 1
      BY <1>1, <1>2, <3>1
    <3>3. y[p[i]] = x[p[i]] /\ y[p[i] + 1] = x[p[i] + 1]
      BY <1>2, <3>1, <3>2
    <3>4. x[p[i]] # x[p[i] + 1] /\ Kept(o[i], x[p[i]])
      BY <3>1 DEF Lies
    <3> QED
      BY <3>1, <3>2, <3>3, <3>4
  <2>10. \A i, k \in DOMAIN r : i < k => s[i] < s[k]
    BY <1>1, <2>2, <2>3, <2>8 DEF Lies
  <2>11. ASSUME NEW q \in 1..Len(y) - 1, y[q] # y[q + 1]
         PROVE  (\E i \in DOMAIN r : q = s[i]) \/ (\A i \in DOMAIN r : q < s[i])
    <3>1. q \in 1..Len(x) - 1 /\ x[q] # x[q + 1] /\ q < Len(x) - 1
      BY <1>1, <1>2, <1>3, <2>11
    <3>2. (\E i \in DOMAIN o : q = p[i]) \/ (\A i \in DOMAIN o : q < p[i])
      BY <3>1 DEF Lies
    <3>3. ASSUME NEW i \in DOMAIN o, q = p[i]
          PROVE  i \in DOMAIN r
      <4>1. i # n
        BY <1>1, <2>6, <3>1, <3>3
      <4> QED
        BY <1>1, <2>2, <4>1 DEF n
    <3> QED
      BY <2>2, <2>3, <2>8, <3>2, <3>3
  <2>12. Lies(r, y, s)
    BY <2>9, <2>10, <2>11 DEF Lies
  <2> QED
    BY <1>5, <2>3, <2>7, <2>12 DEF Fits, y, r
<1> QED
  BY <1>4, <1>5

-----------------------------------------------------------------------------
(* Messages on their way *)

\* The paths C of a copy at place p, with the histories o outside: its own one, and the one
\* that each message of q in turn takes it to.
Travels(C, p, o, q) ==
    /\ Len(C) = Len(q) + 1
    /\ EndsAt(p, C[1])
    /\ Fits(o, C[1])
    /\ \A i \in 1..Len(q) : Carries(q[i], C[i], C[i + 1])

\* From the project down to a level.
Paths == Seq(Circuits)

\* One more message: one more path at the end.
LEMMA TravelsAppend ==
    ASSUME NEW C \in Seq(Paths), NEW p, NEW o, NEW q \in Seq(ViewMessages), NEW m \in ViewMessages,
           NEW y \in Paths, Travels(C, p, o, q), Carries(m, C[Len(C)], y)
    PROVE  /\ Travels(Append(C, y), p, o, Append(q, m))
           /\ Append(C, y) \in Seq(Paths)
           /\ Append(C, y)[Len(Append(C, y))] = y
<1> DEFINE D == Append(C, y)
           r == Append(q, m)
<1>1. Len(q) \in Nat /\ Len(C) = Len(q) + 1
  BY DEF Travels
<1>2. /\ D \in Seq(Paths) /\ Len(D) = Len(C) + 1 /\ D[Len(C) + 1] = y
      /\ \A i \in 1..Len(C) : D[i] = C[i]
  BY AppendSeq
<1>3. Len(r) = Len(q) + 1 /\ r[Len(q) + 1] = m /\ \A i \in 1..Len(q) : r[i] = q[i]
  BY AppendSeq
<1> HIDE DEF D, r
<1>4. D[1] = C[1]
  BY <1>1, <1>2
<1>5. ASSUME NEW i \in 1..Len(r)
      PROVE  Carries(r[i], D[i], D[i + 1])
  <2>1. CASE i = Len(q) + 1
    <3>1. i = Len(C) /\ i \in 1..Len(C)
      BY <1>1, <2>1
    <3> QED
      BY <1>2, <1>3, <2>1, <3>1
  <2>2. CASE i # Len(q) + 1
    <3>1. i \in 1..Len(q) /\ i \in 1..Len(C) /\ i + 1 \in 1..Len(C)
      BY <1>1, <1>3, <2>2
    <3> QED
      BY <1>2, <1>3, <3>1 DEF Travels
  <2> QED
    BY <2>1, <2>2
<1>6. Len(D) = Len(r) + 1
  BY <1>1, <1>2, <1>3
<1>7. Travels(D, p, o, r)
  BY <1>4, <1>5, <1>6 DEF Travels
<1> QED
  BY <1>2, <1>7 DEF D, r

\* The first message is read: the copy is on the second path.
LEMMA TravelsTail ==
    ASSUME NEW C \in Seq(Paths), NEW p, NEW o, NEW q \in Seq(ViewMessages), q # <<>>,
           Travels(C, p, o, q), NEW u, NEW w, EndsAt(u, C[2]), Fits(w, C[2])
    PROVE  /\ Travels(Tail(C), u, w, Tail(q))
           /\ Tail(C) \in Seq(Paths)
           /\ Tail(C)[Len(Tail(C))] = C[Len(C)]
<1> DEFINE D == Tail(C)
           r == Tail(q)
<1>1. Len(q) \in Nat \ {0} /\ Len(C) = Len(q) + 1 /\ C # <<>>
  BY DEF Travels
<1>2. D \in Seq(Paths) /\ Len(D) = Len(C) - 1 /\ \A i \in 1..Len(C) - 1 : D[i] = C[i + 1]
  BY <1>1, TailSeq
<1>3. Len(r) = Len(q) - 1 /\ \A i \in 1..Len(q) - 1 : r[i] = q[i + 1]
  BY TailSeq
<1> HIDE DEF D, r
<1>4. D[1] = C[2] /\ D[Len(D)] = C[Len(C)]
  BY <1>1, <1>2
<1>5. ASSUME NEW i \in 1..Len(r)
      PROVE  Carries(r[i], D[i], D[i + 1])
  <2>1. /\ i \in 1..Len(q) - 1 /\ i + 1 \in 1..Len(q)
        /\ i \in 1..Len(C) - 1 /\ i + 1 \in 1..Len(C) - 1
    BY <1>1, <1>3
  <2> QED
    BY <1>2, <1>3, <2>1 DEF Travels
<1>6. Len(D) = Len(r) + 1
  BY <1>1, <1>2, <1>3
<1>7. Travels(D, u, w, r)
  BY <1>4, <1>5, <1>6 DEF Travels
<1> QED
  BY <1>2, <1>4, <1>7 DEF D, r

\* The places of the levels the host has open, and their circuits.
Spots == [i \in 1..Len(stack) + 1 |-> IF i <= Len(stack) THEN stack[i].outer.at ELSE host.at]
Path == [i \in 1..Len(stack) + 1 |-> Spots[i].src]

\* The levels of the host: documents of one circuit each, linked by the sessions, each with its
\* own depth and its own reference.
Standing ==
    /\ Coherent(host)
    /\ \A i \in 1..Len(stack) : Coherent(stack[i].outer) /\ stack[i].src = Spots[i + 1].src
    /\ \A i \in 1..Len(stack) + 1 : Spots[i].depth = i - 1
    /\ \A i, j \in 1..Len(stack) + 1 : Spots[i].ref = Spots[j].ref => i = j

\* A reference tells a place; the webview knows of the last move unless one is being made.
Synced ==
    /\ last # <<>> => \A i \in 1..Len(stack) + 1 :
                         last[1].at.ref = Spots[i].ref => last[1].at = Spots[i]
    /\ ~Navigating /\ last # <<>> => last[1].at = host.at

\* Snapshots under way are of one circuit, and only an open panel has messages.
Posted ==
    /\ \A i \in 1..Len(toHost) : toHost[i].type = "projectChanged" => Coherent(toHost[i].project)
    /\ panel => last # <<>>
    /\ ~panel => toHost = <<>> /\ toView = <<>>

\* The copy of the webview and its history.
Screen == Coherent(view) /\ Kept(history, view.at.src)

\* A copy that has read everything is on the path x: where the host is, or one level away
\* from there and the host knows.
Arrives(x) ==
    /\ EndsAt(last[1].at, x)
    /\ Near(x, Path)
    /\ last[1].at = host.at => x = Path

\* The messages on their way lead the copy, level by level, to where the host is.
Journey ==
    panel => \E C \in Seq(Paths) : Travels(C, view.at, outer, toView) /\ Arrives(C[Len(C)])

LevelsInv == Standing /\ Synced /\ Posted /\ Screen /\ Journey

\* The places and the path, one by one.
LEMMA SpotsAre ==
    ASSUME HostTypes
    PROVE  /\ Len(stack) \in Nat
           /\ \A i \in 1..Len(stack) : stack[i] \in Sessions /\ stack[i].outer \in Documents
           /\ \A i \in 1..Len(stack) : Spots[i] = stack[i].outer.at
           /\ \A i \in 1..Len(stack) : i \in 1..Len(stack) + 1
           /\ Spots[Len(stack) + 1] = host.at /\ Len(stack) + 1 \in 1..Len(stack) + 1
           /\ \A i \in 1..Len(stack) + 1 : Spots[i] \in Places
           /\ \A i \in 1..Len(stack) + 1 : Path[i] = Spots[i].src
           /\ Path \in Paths /\ Len(Path) = Len(stack) + 1 /\ Path # <<>>
<1>1. stack \in Seq(Sessions) /\ Len(stack) \in Nat /\ host \in Documents
  BY DEF HostTypes
<1>2. \A i \in 1..Len(stack) : stack[i] \in Sessions /\ stack[i].outer \in Documents
  <2>1. \A i \in 1..Len(stack) : stack[i] \in Sessions
    BY <1>1
  <2> QED
    BY <2>1 DEF Sessions
<1>3. \A i \in 1..Len(stack) : Spots[i] = stack[i].outer.at /\ i \in 1..Len(stack) + 1
  BY <1>1 DEF Spots
<1>4. Spots[Len(stack) + 1] = host.at /\ Len(stack) + 1 \in 1..Len(stack) + 1
  BY <1>1 DEF Spots
<1>5. \A i \in 1..Len(stack) + 1 : Spots[i] \in Places
  <2> TAKE i \in 1..Len(stack) + 1
  <2>1. i \in 1..Len(stack) \/ i = Len(stack) + 1
    BY <1>1
  <2> QED
    BY <1>1, <1>2, <1>3, <1>4, <2>1, DocumentParts
<1>6. \A i \in 1..Len(stack) + 1 : Spots[i].src \in Circuits
  BY <1>5 DEF Places
<1>7. Path \in [1..Len(stack) + 1 -> Circuits]
  BY <1>6 DEF Path
<1>8. Path \in Paths /\ Len(Path) = Len(stack) + 1
  BY <1>1, <1>7 DEF Paths
<1>9. \A i \in 1..Len(stack) + 1 : Path[i] = Spots[i].src
  BY DEF Path
<1>10. Path # <<>>
  BY <1>1, <1>8
<1> QED
  BY <1>1, <1>2, <1>3, <1>4, <1>5, <1>8, <1>9, <1>10

\* The path of the host ends where the host is.
LEMMA HostEnds ==
    ASSUME HostTypes, Standing
    PROVE  EndsAt(host.at, Path) /\ host.at.src = Path[Len(Path)]
<1>1. /\ Len(stack) \in Nat /\ Spots[Len(stack) + 1] = host.at
      /\ Len(stack) + 1 \in 1..Len(stack) + 1
      /\ Len(Path) = Len(stack) + 1 /\ Path # <<>> /\ Path[Len(stack) + 1] = host.at.src
  BY SpotsAre
<1>2. host.at.depth = Len(stack) + 1 - 1
  BY <1>1 DEF Standing
<1> QED
  BY <1>1, <1>2 DEF EndsAt

\* A change of the document that stays where it is.
LEMMA SpotsStay ==
    ASSUME HostTypes, HostTypes', Standing, host'.at = host.at, Coherent(host'),
           Len(stack') = Len(stack),
           \A i \in 1..Len(stack) : stack'[i].outer = stack[i].outer /\ stack'[i].src = stack[i].src
    PROVE  Spots' = Spots /\ Path' = Path /\ Standing'
<1>1. Spots' = Spots
  BY DEF Spots
<1>2. Path' = Path
  BY <1>1 DEF Path
<1>3. \A i \in 1..Len(stack') : Coherent(stack'[i].outer)
  BY DEF Standing
<1>4. Coherent(host)' /\ (\A i \in 1..Len(stack) : Coherent(stack[i].outer))'
  BY <1>3, Zenon DEF Coherent, Proper
<1>5. /\ (\A i \in 1..Len(stack) : stack[i].src = Spots[i + 1].src)'
      /\ (\A i \in 1..Len(stack) + 1 : Spots[i].depth = i - 1)'
      /\ (\A i, j \in 1..Len(stack) + 1 : Spots[i].ref = Spots[j].ref => i = j)'
  BY <1>1 DEF Standing
<1> QED
  BY <1>1, <1>2, <1>4, <1>5 DEF Standing

\* A step that moves neither the host nor what it has published nor the copy of the webview.
LEMMA LevelsStay ==
    ASSUME HostTypes, HostTypes', Standing, Synced, Journey, host'.at = host.at, Coherent(host'),
           Len(stack') = Len(stack),
           \A i \in 1..Len(stack) : stack'[i].outer = stack[i].outer /\ stack'[i].src = stack[i].src,
           last' = last, toView' = toView, panel' = panel, view'.at = view.at, outer' = outer,
           Navigating => Navigating'
    PROVE  Standing' /\ Synced' /\ Journey'
<1>1. Spots' = Spots /\ Path' = Path /\ Standing'
  BY SpotsStay
<1>2. Synced'
  BY <1>1 DEF Synced
<1>3. Journey'
  <2> SUFFICES ASSUME panel'
               PROVE  \E C \in Seq(Paths) : (Travels(C, view.at, outer, toView) /\ Arrives(C[Len(C)]))'
    BY DEF Journey
  <2>1. PICK C \in Seq(Paths) : Travels(C, view.at, outer, toView) /\ Arrives(C[Len(C)])
    BY DEF Journey
  <2>2. Travels(C, view'.at, outer', toView')
    BY <2>1
  <2>3. Arrives(C[Len(C)])'
    BY <1>1, <2>1 DEF Arrives, EndsAt, Near
  <2> QED
    BY <2>2, <2>3 DEF Travels, EndsAt, Fits, Lies, Carries
<1> QED
  BY <1>1, <1>2, <1>3

\* A copy whose way ends where the host is, and everything is published.
LEMMA JourneyEnds ==
    ASSUME HostTypes', Standing', last'[1].at = host'.at, NEW D \in Seq(Paths),
           Travels(D, view'.at, outer', toView'), D[Len(D)] = Path'
    PROVE  Journey'
<1>1. EndsAt(host'.at, Path')
  <2>1. EndsAt(host.at, Path)'
    BY HostEnds, PTL
  <2> QED
    BY <2>1 DEF EndsAt
<1>2. Arrives(D[Len(D)])'
  BY <1>1 DEF Arrives, EndsAt, Near
<1> QED
  BY <1>2 DEF Journey, Travels, EndsAt, Fits, Lies, Carries

\* A message that takes the copy there.
LEMMA JourneyArrives ==
    ASSUME HostTypes, HostTypes', Standing', UNCHANGED <<outer>>, view'.at = view.at,
           last'[1].at = host'.at, NEW C \in Seq(Paths), Travels(C, view.at, outer, toView),
           \/ toView' = toView /\ C[Len(C)] = Path'
           \/ \E m \in ViewMessages : toView' = Append(toView, m) /\ Carries(m, C[Len(C)], Path')
    PROVE  Journey'
<1> DEFINE y == Path'
<1>1. CASE toView' = toView /\ C[Len(C)] = y
  BY <1>1, JourneyEnds
<1>2. CASE \E m \in ViewMessages : toView' = Append(toView, m) /\ Carries(m, C[Len(C)], y)
  <2> PICK m \in ViewMessages : toView' = Append(toView, m) /\ Carries(m, C[Len(C)], y)
    BY <1>2
  <2>1. (Path \in Paths)'
    BY SpotsAre, PTL
  <2> DEFINE D == Append(C, y)
  <2>2. Travels(D, view.at, outer, Append(toView, m)) /\ D \in Seq(Paths) /\ D[Len(D)] = y
    BY <2>1, TravelsAppend DEF HostTypes
  <2> HIDE DEF D
  <2> QED
    BY <2>2, JourneyEnds
<1> QED
  BY <1>1, <1>2

\* The revision a document gets is not of its level.
LEMMA RevisedLevel ==
    ASSUME HostTypes, NEW h \in Documents, Coherent(h)
    PROVE  Revised(h) \in Documents /\ Coherent(Revised(h)) /\ Revised(h).at = h.at
<1>1. Revised(h) \in Documents
  BY RevisedTypes
<1>2. /\ Revised(h).at = h.at /\ Revised(h).comps = h.comps /\ Revised(h).subs = h.subs
      /\ Revised(h).topo.wires = h.topo.wires
  BY DEF Revised, Documents, Topologies
<1> QED
  BY <1>1, <1>2 DEF Coherent

\* What a patch holds: the fields that are not the ones published last.
LEMMA PatchHolds ==
    ASSUME NEW h \in Documents, last # <<>>
    PROVE  LET p == computeProjectStatePatch(h)
           IN  /\ DOMAIN p \subseteq Fields
               /\ \A f \in Fields : f \in DOMAIN p <=> ~Same(h, f)
               /\ \A f \in DOMAIN p : p[f] = h[f]
<1>1. DOMAIN h = Fields
  BY DocumentParts
<1> QED
  BY <1>1 DEF computeProjectStatePatch

\* syncSchematicPanel leaves the document where it is and tells the webview the way there.
LEMMA SyncLevels ==
    ASSUME HistoryInv, HostTypes', LevelsInv, NEW h \in Documents, h.at = host.at, Coherent(h),
           syncSchematicPanel(h), Len(stack') = Len(stack),
           \A i \in 1..Len(stack) : stack'[i].outer = stack[i].outer /\ stack'[i].src = stack[i].src,
           UNCHANGED <<panel, view, outer>>
    PROVE  Standing' /\ Synced' /\ Journey'
<1> DEFINE r == Revised(h)
           p == computeProjectStatePatch(r)
           m == [type |-> "patch", patch |-> p]
<1>1. r \in Documents /\ Coherent(r) /\ r.at = host.at /\ HostTypes
  BY RevisedLevel DEF HistoryInv
<1>2. host' = r /\ last' = <<r>>
  BY DEF syncSchematicPanel
<1>3. Spots' = Spots /\ Path' = Path /\ Standing'
  <2> HIDE DEF r
  <2> QED
    BY <1>1, <1>2, SpotsStay DEF LevelsInv
<1>4. last'[1].at = host'.at /\ last' # <<>>
  BY <1>2
<1>5. Synced'
  <2>1. /\ (Len(stack) \in Nat)' /\ (Spots[Len(stack) + 1] = host.at)'
        /\ (Len(stack) + 1 \in 1..Len(stack) + 1)'
    BY SpotsAre, PTL
  <2>2. ASSUME NEW i \in 1..Len(stack') + 1, last'[1].at.ref = Spots'[i].ref
        PROVE  last'[1].at = Spots'[i]
    <3>1. i = Len(stack') + 1
      BY <1>3, <1>4, <2>1, <2>2 DEF Standing
    <3> QED
      BY <1>4, <2>1, <3>1
  <2> QED
    BY <1>4, <2>2 DEF Synced
<1>6. ASSUME panel'
      PROVE  Journey'
  <2>1. panel /\ last # <<>>
    BY <1>6 DEF LevelsInv, Posted
  <2>2. PICK C \in Seq(Paths) : Travels(C, view.at, outer, toView) /\ Arrives(C[Len(C)])
    BY <2>1 DEF LevelsInv, Journey
  <2>3. last[1].at.ref = host.at.ref => last[1].at = host.at
    <3>1. Spots[Len(stack) + 1] = host.at /\ Len(stack) + 1 \in 1..Len(stack) + 1
      BY <1>1, SpotsAre
    <3> QED
      BY <2>1, <3>1 DEF LevelsInv, Synced
  <2>4. /\ DOMAIN p \subseteq Fields
        /\ \A f \in Fields : f \in DOMAIN p <=> ~Same(r, f)
        /\ \A f \in DOMAIN p : p[f] = r[f]
    BY <1>1, <2>1, PatchHolds
  <2>5. p \in Patches
    BY <1>1, PatchTypes
  <2>6. toView' = IF DOMAIN p # {} THEN Append(toView, m) ELSE toView
    BY <2>1 DEF syncSchematicPanel
  <2>7. EndsAt(r.at, Path) /\ r.at.src = Path[Len(Path)]
    BY <1>1, HostEnds DEF LevelsInv
  <2> HIDE DEF r, p
  <2>8. "at" \notin DOMAIN p => last[1].at = host.at
    BY <1>1, <2>4 DEF Same, Fields
  <2>9. "at" \in DOMAIN p => "comps" \in DOMAIN p /\ "topo" \in DOMAIN p
    BY <1>1, <2>3, <2>4 DEF Same, Fields
  <2>10. Carries(m, C[Len(C)], Path)
    <3>1. Near(C[Len(C)], Path) /\ ("at" \notin DOMAIN p => C[Len(C)] = Path)
      BY <2>2, <2>8 DEF Arrives
    <3>2. /\ "comps" \in DOMAIN p => p.comps.of = Path[Len(Path)]
          /\ "topo" \in DOMAIN p => p.topo.wires.of = Path[Len(Path)]
          /\ "subs" \in DOMAIN p => Proper(p.subs)
          /\ "at" \in DOMAIN p => EndsAt(p.at, Path)
      BY <1>1, <2>4, <2>7 DEF Coherent
    <3> QED
      BY <2>9, <3>1, <3>2 DEF Carries
  <2>11. m \in ViewMessages
    BY <2>5 DEF ViewMessages
  <2>12. \/ toView' = toView /\ C[Len(C)] = Path
         \/ toView' = Append(toView, m) /\ Carries(m, C[Len(C)], Path)
    BY <2>2, <2>6, <2>8, <2>10 DEF Arrives
  <2> HIDE DEF m
  <2> QED
    BY <1>1, <1>3, <1>4, <1>6, <2>2, <2>11, <2>12, JourneyArrives
<1> QED
  BY <1>3, <1>5, <1>6 DEF Journey

-----------------------------------------------------------------------------
(* Steps of the host *)

\* What awaits the Core goes on awaiting it.
LEMMA AwaitingMore ==
    ASSUME HostTypes, NEW a, awaiting' = Append(awaiting, a)
    PROVE  /\ Navigating => Navigating'
           /\ a \in {"open", "close"} => Navigating'
<1>1. awaiting \in Seq({"open", "close", "connect", "subsystems"})
  BY DEF HostTypes
<1>2. /\ DOMAIN awaiting' = 1..Len(awaiting) + 1 /\ Len(awaiting) \in Nat
      /\ \A i \in 1..Len(awaiting) : awaiting'[i] = awaiting[i] /\ i \in 1..Len(awaiting) + 1
      /\ awaiting'[Len(awaiting) + 1] = a /\ Len(awaiting) + 1 \in 1..Len(awaiting) + 1
      /\ DOMAIN awaiting = 1..Len(awaiting)
  BY <1>1
<1> QED
  BY <1>2 DEF Navigating

\* The rest of the queue to the host.
LEMMA PostedTail ==
    ASSUME HostTypes, Posted, toHost # <<>>, toHost' = Tail(toHost), panel' = panel,
           panel => last' # <<>>
    PROVE  Posted'
<1>1. /\ Len(toHost) \in Nat \ {0} /\ Len(toHost') = Len(toHost) - 1
      /\ \A i \in 1..Len(toHost) - 1 : toHost'[i] = toHost[i + 1]
  BY TailSeq DEF HostTypes
<1>2. \A i \in 1..Len(toHost') : i \in 1..Len(toHost) - 1 /\ i + 1 \in 1..Len(toHost)
  BY <1>1
<1>3. panel
  BY DEF Posted
<1> QED
  BY <1>1, <1>2, <1>3 DEF Posted, Coherent, Proper

\* A snapshot of the level the host is in.
LEMMA LevelsSnapshot ==
    ASSUME HistoryInv, HostTypes', LevelsInv, UNCHANGED <<panel, view, outer>>,
           NEW m \in HostMessages, projectChanged(m), ~tangled', panel,
           m.type = "projectChanged" => Coherent(m.project)
    PROVE  Standing' /\ Synced' /\ Journey' /\ last' # <<>>
<1> DEFINE changed == Content(host) # Content(m.project)
           rev == host.topo.rev + (IF changed THEN 1 ELSE 0)
           next == [m.project EXCEPT !.topo.rev = rev]
           msg == [type |-> "revision", revision |-> next.topo.rev]
<1>1. /\ m.project \in Documents /\ host \in Documents /\ Coherent(m.project) /\ HostTypes
      /\ ~Navigating /\ m.project.at = host.at /\ last # <<>>
  BY MessageParts DEF projectChanged, HistoryInv, HostTypes, LevelsInv, Posted
<1>2. rev \in Nat
  BY <1>1, DocumentParts
<1>3. /\ next \in Documents /\ next.at = host.at /\ next.comps = m.project.comps
      /\ next.topo.wires = m.project.topo.wires /\ next.subs = m.project.subs
  <2> HIDE DEF rev
  <2> QED
    BY <1>1, <1>2 DEF Documents, Topologies
<1>4. msg \in ViewMessages
  BY <1>3, DocumentParts DEF ViewMessages
<1>5. /\ host' = next /\ last' = <<next>> /\ stack' = stack
      /\ toView' = IF changed THEN Append(toView, msg) ELSE toView
  BY <1>1 DEF projectChanged
<1>6. Carries(msg, Path, Path)
  BY DEF Carries
<1> HIDE DEF changed, next, msg
<1>7. Coherent(host')
  BY <1>1, <1>3, <1>5 DEF Coherent
<1>8. Spots' = Spots /\ Path' = Path /\ Standing'
  BY <1>1, <1>3, <1>5, <1>7, SpotsStay DEF LevelsInv
<1>9. last'[1].at = host'.at /\ last' # <<>> /\ last[1].at = host.at /\ last'[1].at = last[1].at
  BY <1>1, <1>3, <1>5 DEF LevelsInv, Synced
<1>10. Synced'
  BY <1>1, <1>5, <1>8, <1>9 DEF LevelsInv, Synced
<1>11. Journey'
  <2>1. PICK C \in Seq(Paths) : Travels(C, view.at, outer, toView) /\ Arrives(C[Len(C)])
    BY DEF LevelsInv, Journey
  <2>2. C[Len(C)] = Path'
    BY <1>8, <1>9, <2>1 DEF Arrives
  <2>3. \/ toView' = toView
        \/ toView' = Append(toView, msg) /\ Carries(msg, C[Len(C)], Path')
    BY <1>5, <1>6, <1>8, <2>2
  <2> QED
    BY <1>1, <1>4, <1>8, <1>9, <2>1, <2>2, <2>3, JourneyArrives
<1> QED
  BY <1>8, <1>9, <1>10, <1>11

\* A property is set in the level the host is in.
LEMMA LevelsUpdate ==
    ASSUME HistoryInv, HostTypes', LevelsInv, UNCHANGED <<panel, view, outer>>, panel,
           NEW m \in HostMessages, requestUpdateProperty(m)
    PROVE  Standing' /\ Synced' /\ Journey' /\ last' # <<>>
<1>1. HostTypes /\ host \in Documents /\ Coherent(host) /\ stack' = stack /\ awaiting' = awaiting
      /\ last # <<>>
  BY DEF HistoryInv, HostTypes, LevelsInv, Standing, requestUpdateProperty, Posted
<1>2. CASE UNCHANGED <<host, last, toView>>
  <2>1. Navigating => Navigating'
    BY <1>1 DEF Navigating
  <2>2. Coherent(host')
    BY <1>1, <1>2
  <2> QED
    BY <1>1, <1>2, <2>1, <2>2, LevelsStay DEF LevelsInv
<1>3. CASE syncSchematicPanel([host EXCEPT !.comps.v = m.v])
  <2> DEFINE h == [host EXCEPT !.comps.v = m.v]
  <2>1. h \in Documents
    BY <1>1, MessageParts, DocumentEdits DEF requestUpdateProperty
  <2>2. h.at = host.at /\ Coherent(h)
    BY <1>1 DEF Documents, Tagged, Coherent
  <2>3. last' # <<>>
    BY <1>3 DEF syncSchematicPanel
  <2> HIDE DEF h
  <2> QED
    BY <1>1, <1>3, <2>1, <2>2, <2>3, SyncLevels DEF h
<1> QED
  BY <1>2, <1>3 DEF requestUpdateProperty

\* A gesture is refused with the whole document, or accepted.
LEMMA LevelsConnect ==
    ASSUME HistoryInv, HostTypes', LevelsInv, UNCHANGED <<panel, view, outer>>, panel,
           NEW m \in HostMessages, requestConnectEndpoints(m), ~tangled'
    PROVE  Standing' /\ Synced' /\ Journey' /\ last' # <<>>
<1>1. HostTypes /\ host \in Documents /\ Coherent(host) /\ stack' = stack /\ last' = last
      /\ last # <<>>
  BY DEF HistoryInv, HostTypes, LevelsInv, Standing, requestConnectEndpoints, Posted
<1>2. CASE m.base # host.topo.rev
  <2> DEFINE msg == [type |-> "syncState", project |-> host]
  <2>1. toView' = Append(toView, msg) /\ UNCHANGED <<host, awaiting>> /\ ~Navigating
    BY <1>2 DEF requestConnectEndpoints
  <2>2. msg \in ViewMessages
    BY <1>1 DEF ViewMessages
  <2>3. Spots' = Spots /\ Path' = Path /\ Standing'
    BY <1>1, <2>1, SpotsStay DEF LevelsInv
  <2>4. last[1].at = host.at
    BY <1>1, <2>1 DEF LevelsInv, Synced
  <2>5. Synced'
    BY <1>1, <2>1, <2>3, <2>4 DEF LevelsInv, Synced
  <2>6. PICK C \in Seq(Paths) : Travels(C, view.at, outer, toView) /\ Arrives(C[Len(C)])
    BY DEF LevelsInv, Journey
  <2>7. C[Len(C)] = Path
    BY <2>4, <2>6 DEF Arrives
  <2>8. Carries(msg, Path, Path)
    BY <1>1, HostEnds DEF Carries, LevelsInv
  <2> HIDE DEF msg
  <2>9. Journey'
    BY <1>1, <2>1, <2>2, <2>3, <2>4, <2>6, <2>7, <2>8, JourneyArrives
  <2> QED
    BY <1>1, <2>3, <2>5, <2>9
<1>3. CASE m.base = host.topo.rev
  <2> DEFINE new == [host EXCEPT !.topo = [wires |-> Of(m.c, m.v), rev |-> @.rev + 1]]
  <2>1. /\ toView' = toView
        /\ \/ UNCHANGED <<host, awaiting>>
           \/ host' = new /\ m.c = host.topo.wires.of /\ awaiting' = Append(awaiting, "connect")
    BY <1>3 DEF requestConnectEndpoints
  <2>2. m.c = host.topo.wires.of => Coherent(new) /\ new.at = host.at
    BY <1>1 DEF Coherent, Documents, Of
  <2> HIDE DEF new
  <2>3. Coherent(host') /\ host'.at = host.at
    BY <1>1, <2>1, <2>2
  <2>4. Navigating => Navigating'
    <3>1. CASE awaiting' = awaiting
      BY <3>1 DEF Navigating
    <3> QED
      BY <1>1, <2>1, <3>1, AwaitingMore
  <2> QED
    BY <1>1, <2>1, <2>3, <2>4, LevelsStay DEF LevelsInv
<1> QED
  BY <1>2, <1>3

\* The host has gone one level further or back and nobody has been told.
LEMMA JourneyLeft ==
    ASSUME HostTypes, Journey, panel, UNCHANGED <<panel, view, outer, toView, last>>,
           last[1].at = host.at, last[1].at # host'.at, Near(Path, Path')
    PROVE  Journey'
<1>1. PICK C \in Seq(Paths) : Travels(C, view.at, outer, toView) /\ Arrives(C[Len(C)])
  BY DEF Journey
<1>2. C[Len(C)] = Path /\ EndsAt(last[1].at, C[Len(C)])
  BY <1>1 DEF Arrives
<1>3. Near(C[Len(C)], Path')
  BY <1>2
<1>4. Arrives(C[Len(C)])'
  BY <1>2, <1>3 DEF Arrives, EndsAt, Near
<1>5. Travels(C, view'.at, outer', toView')
  BY <1>1
<1> QED
  BY <1>4, <1>5 DEF Journey, Travels, EndsAt, Fits, Lies, Carries

\* The host goes one level further: a place with a reference that no other has.
LEMMA LevelsOpen ==
    ASSUME HistoryInv, HostTypes', LevelsInv, UNCHANGED <<panel, view, outer>>, panel,
           NEW m \in HostMessages, openSubcircuit(m), ~tangled'
    PROVE  Standing' /\ Synced' /\ Journey' /\ last' # <<>>
<1> DEFINE n == Len(stack)
           def == host.subs[m.src]
           at == [src |-> m.src, depth |-> Len(stack) + 1, ref |-> NewRef]
           session == [src |-> m.src, outer |-> host,
                       init |-> [comps |-> def.comps, wires |-> def.topo.wires]]
<1>1. /\ HostTypes /\ host \in Documents /\ Coherent(host) /\ last # <<>> /\ ~Navigating
      /\ UNCHANGED <<last, toView>> /\ awaiting' = Append(awaiting, "open")
  BY DEF HistoryInv, HostTypes, LevelsInv, Standing, openSubcircuit, Posted
<1>2. m.src \in Definitions /\ m.src \in Circuits
  BY MessageParts, BoundsAssumption DEF openSubcircuit, Definitions, Circuits
<1>3. Coherent(host') /\ host'.at = at
  <2>1. host' = [host EXCEPT !.comps = def.comps, !.topo = def.topo, !.at = at]
    BY DEF openSubcircuit
  <2>2. def.comps.of = m.src /\ def.topo.wires.of = m.src
    BY <1>1, <1>2 DEF Coherent, Proper
  <2> HIDE DEF def
  <2>3. /\ host'.comps = def.comps /\ host'.topo = def.topo /\ host'.at = at
        /\ host'.subs = host.subs
    BY <1>1, <2>1 DEF Documents
  <2> QED
    BY <1>1, <2>2, <2>3 DEF Coherent
<1>4. /\ n \in Nat /\ Len(stack') = n + 1 /\ stack'[n + 1] = session
      /\ \A i \in 1..n : stack'[i] = stack[i]
  <2>1. stack' = Append(stack, session) /\ stack \in Seq(Sessions)
    BY <1>1 DEF openSubcircuit, HostTypes
  <2> HIDE DEF session
  <2> QED
    BY <2>1
<1>5. /\ \A i \in 1..n : Spots[i] = stack[i].outer.at /\ i \in 1..n + 1
      /\ Spots[n + 1] = host.at /\ n + 1 \in 1..n + 1
      /\ \A i \in 1..n + 1 : Path[i] = Spots[i].src
      /\ Path \in Paths /\ Len(Path) = n + 1
  BY <1>1, SpotsAre
<1>6. /\ (\A i \in 1..Len(stack) : Spots[i] = stack[i].outer.at)'
      /\ (Spots[Len(stack) + 1] = host.at)'
      /\ (\A i \in 1..Len(stack) + 1 : Path[i] = Spots[i].src)'
      /\ (Path \in Paths)' /\ (Len(Path) = Len(stack) + 1)'
  BY SpotsAre, PTL
<1>7. /\ session.outer = host /\ session.src = m.src
      /\ at.src = m.src /\ at.depth = n + 1 /\ at.ref = NewRef
  OBVIOUS
<1> HIDE DEF n, session, def, at
<1>8. Spots'[(n + 1) + 1] = at /\ \A i \in 1..n + 1 : Spots'[i] = Spots[i]
  <2>1. Spots'[(n + 1) + 1] = at
    BY <1>3, <1>4, <1>6
  <2>2. ASSUME NEW i \in 1..n + 1
        PROVE  Spots'[i] = Spots[i]
    <3>1. i \in 1..n \/ i = n + 1
      BY <1>4
    <3>2. i \in 1..Len(stack')
      BY <1>4
    <3> QED
      BY <1>4, <1>5, <1>6, <1>7, <3>1, <3>2
  <2> QED
    BY <2>1, <2>2
<1>9. \A i \in 1..(n + 1) + 1 : i \in 1..n + 1 \/ i = (n + 1) + 1
  BY <1>4
<1>10. Path' = Append(Path, m.src)
  <2>1. /\ Len(Append(Path, m.src)) = (n + 1) + 1 /\ Append(Path, m.src) \in Paths
        /\ \A i \in 1..n + 1 : Append(Path, m.src)[i] = Path[i]
        /\ Append(Path, m.src)[(n + 1) + 1] = m.src
    BY <1>2, <1>5, AppendSeq DEF Paths
  <2>2. Path' \in Paths /\ Len(Path') = (n + 1) + 1
    BY <1>4, <1>6
  <2>3. \A i \in 1..(n + 1) + 1 : Path'[i] = Append(Path, m.src)[i]
    BY <1>4, <1>5, <1>6, <1>7, <1>8, <1>9, <2>1
  <2> DEFINE a == Append(Path, m.src)
  <2> HIDE DEF a
  <2>4. Path' = a
    BY <2>1, <2>2, <2>3 DEF Paths, a
  <2> QED
    BY <2>4 DEF a
<1>11. \A i \in 1..n + 1 : Spots[i].ref # NewRef
  <2>1. /\ NewRef # host.at.ref /\ \A i \in 1..n : NewRef # stack[i].outer.at.ref
    <3>1. DOMAIN stack = 1..n
      BY <1>1 DEF HostTypes, n
    <3> QED
      BY <1>1, <3>1, NewRefIsNew
  <2>2. \A i \in 1..n + 1 : i \in 1..n \/ i = n + 1
    BY <1>4
  <2> QED
    BY <1>5, <2>1, <2>2
<1>12. last[1].at = host.at /\ last[1].at.ref # NewRef /\ last[1].at # at
  <2>1. last[1].at = host.at
    BY <1>1 DEF LevelsInv, Synced
  <2> QED
    BY <1>5, <1>7, <1>11, <2>1
<1>13. Standing'
  <2>1. \A i \in 1..n + 1 : Coherent(stack'[i].outer) /\ stack'[i].src = Spots'[i + 1].src
    <3> TAKE i \in 1..n + 1
    <3>1. CASE i = n + 1
      BY <1>1, <1>4, <1>7, <1>8, <3>1
    <3>2. CASE i \in 1..n
      <4>1. i + 1 \in 1..n + 1
        BY <1>4, <3>2
      <4> QED
        BY <1>4, <1>8, <3>2, <4>1 DEF LevelsInv, Standing, n
    <3> QED
      BY <1>4, <3>1, <3>2
  <2>2. \A i \in 1..(n + 1) + 1 : Spots'[i].depth = i - 1
    <3>1. \A i \in 1..n + 1 : Spots[i].depth = i - 1
      BY DEF LevelsInv, Standing, n
    <3>2. Spots'[(n + 1) + 1].depth = ((n + 1) + 1) - 1
      BY <1>4, <1>7, <1>8
    <3>3. \A i \in 1..n + 1 : Spots'[i].depth = i - 1
      BY <1>8, <3>1
    <3> QED
      BY <1>9, <3>2, <3>3
  <2>3. \A i, j \in 1..(n + 1) + 1 : Spots'[i].ref = Spots'[j].ref => i = j
    <3>1. \A i, j \in 1..n + 1 : Spots[i].ref = Spots[j].ref => i = j
      BY DEF LevelsInv, Standing, n
    <3> QED
      BY <1>7, <1>8, <1>9, <1>11, <3>1
  <2> QED
    BY <1>3, <1>4, <2>1, <2>2, <2>3 DEF Standing, Coherent, Proper
<1>14. Synced'
  <2>1. Navigating'
    BY <1>1, AwaitingMore
  <2>2. \A i \in 1..(n + 1) + 1 : last'[1].at.ref = Spots'[i].ref => last'[1].at = Spots'[i]
    <3>1. \A i \in 1..n + 1 : last[1].at.ref = Spots[i].ref => last[1].at = Spots[i]
      BY <1>1 DEF LevelsInv, Synced, n
    <3> QED
      BY <1>1, <1>7, <1>8, <1>9, <1>12, <3>1
  <2> QED
    BY <1>4, <2>1, <2>2 DEF Synced
<1>15. Journey'
  <2>1. Near(Path, Path')
    BY <1>2, <1>10 DEF Near
  <2> QED
    BY <1>1, <1>3, <1>12, <2>1, JourneyLeft DEF LevelsInv
<1> QED
  BY <1>1, <1>13, <1>14, <1>15

\* A level that is left is written to its own definition.
LEMMA WrittenBack ==
    ASSUME HostTypes, Standing, stack # <<>>
    PROVE  /\ writeSubcircuitEditingSessionBack(Last(stack)) \in Tables
           /\ Proper(writeSubcircuitEditingSessionBack(Last(stack)))
<1> DEFINE session == Last(stack)
<1>1. /\ Len(stack) \in Nat \ {0} /\ session = stack[Len(stack)] /\ session \in Sessions
      /\ Len(stack) \in 1..Len(stack)
  BY FrontSeq DEF HostTypes
<1>2. /\ host \in Documents /\ host.subs \in Tables /\ host.comps \in Tagged
      /\ host.topo \in Topologies /\ session.src \in Definitions
  BY <1>1, DocumentParts DEF HostTypes, Sessions
<1>3. session.src = host.at.src
  <2>1. Spots[Len(stack) + 1] = host.at
    BY SpotsAre
  <2> QED
    BY <1>1, <2>1 DEF Standing
<1> HIDE DEF session
<1>4. Coherent(host)
  BY DEF Standing
<1> QED
  BY <1>2, <1>3, <1>4 DEF writeSubcircuitEditingSessionBack, Tables, Coherent, Proper, session

\* The host goes one level back, to the place that waited outside.
LEMMA LevelsRestore ==
    ASSUME HistoryInv, HostTypes', LevelsInv, UNCHANGED <<panel, view, outer, last, toView>>, panel,
           stack # <<>>, ~Navigating, NEW table \in Tables, Proper(table),
           restoreOuterCircuit(Last(stack), table)
    PROVE  Standing' /\ Synced' /\ Journey'
<1> DEFINE n == Len(stack)
<1>1. /\ HostTypes /\ last # <<>> /\ awaiting' = Append(awaiting, "close")
      /\ last[1].at = host.at
  BY DEF HistoryInv, LevelsInv, restoreOuterCircuit, Posted, Synced
<1>2. /\ n \in Nat \ {0} /\ Last(stack) = stack[n] /\ Len(stack') = n - 1
      /\ \A i \in 1..n - 1 : stack'[i] = stack[i]
  <2>1. stack \in Seq(Sessions) /\ stack' = Front(stack)
    BY <1>1 DEF HostTypes, restoreOuterCircuit
  <2> QED
    BY <2>1, FrontSeq
<1>3. /\ \A i \in 1..n : /\ stack[i].outer \in Documents /\ Spots[i] = stack[i].outer.at
                         /\ i \in 1..n + 1
      /\ Spots[n + 1] = host.at /\ n + 1 \in 1..n + 1
      /\ \A i \in 1..n + 1 : Path[i] = Spots[i].src
      /\ Path \in Paths /\ Len(Path) = n + 1 /\ Path # <<>>
  BY <1>1, SpotsAre
<1>4. /\ (\A i \in 1..Len(stack) : Spots[i] = stack[i].outer.at)'
      /\ (Spots[Len(stack) + 1] = host.at)'
      /\ (\A i \in 1..Len(stack) + 1 : Path[i] = Spots[i].src)'
      /\ (Path \in Paths)' /\ (Len(Path) = Len(stack) + 1)'
  BY SpotsAre, PTL
<1>5. Len(stack') + 1 = n /\ n \in 1..n /\ n + 1 \in 1..n + 1 /\ n \in 1..n + 1
  BY <1>2
<1>6. \A i \in 1..n : Coherent(stack[i].outer) /\ stack[i].src = Spots[i + 1].src
  BY DEF LevelsInv, Standing, n
<1>7. host'.at = Spots[n] /\ Coherent(host')
  <2>1. host' = [stack[n].outer EXCEPT !.subs = table] /\ stack[n].outer \in Documents
    BY <1>2, <1>3, <1>5 DEF restoreOuterCircuit
  <2>2. /\ host'.at = stack[n].outer.at /\ host'.comps = stack[n].outer.comps
        /\ host'.topo = stack[n].outer.topo /\ host'.subs = table
    BY <2>1 DEF Documents
  <2> QED
    BY <1>3, <1>5, <1>6, <2>2 DEF Coherent
<1>8. \A i \in 1..n : i \in 1..n - 1 \/ i = n
  BY <1>2
<1> HIDE DEF n
<1>9. \A i \in 1..n : Spots'[i] = Spots[i]
  <2> TAKE i \in 1..n
  <2>1. CASE i = n
    BY <1>4, <1>5, <1>7, <2>1
  <2>2. CASE i \in 1..n - 1
    BY <1>2, <1>3, <1>4, <2>2
  <2> QED
    BY <1>8, <2>1, <2>2
<1>10. Path' = Front(Path)
  <2>1. /\ Front(Path) \in Paths /\ Len(Front(Path)) = n /\ \A i \in 1..n : Front(Path)[i] = Path[i]
    <3>1. /\ Front(Path) \in Paths /\ Len(Front(Path)) = Len(Path) - 1
          /\ \A i \in 1..Len(Path) - 1 : Front(Path)[i] = Path[i]
      BY <1>3, FrontSeq DEF Paths
    <3>2. Len(Path) - 1 = n
      BY <1>2, <1>3
    <3> QED
      BY <3>1, <3>2
  <2>2. Path' \in Paths /\ Len(Path') = n
    BY <1>4, <1>5
  <2>3. \A i \in 1..n : Path'[i] = Front(Path)[i]
    BY <1>3, <1>4, <1>5, <1>9, <2>1
  <2> DEFINE a == Front(Path)
  <2> HIDE DEF a
  <2>4. Path' = a
    BY <2>1, <2>2, <2>3 DEF Paths, a
  <2> QED
    BY <2>4 DEF a
<1>11. /\ \A i \in 1..n + 1 : Spots[i].depth = i - 1
       /\ \A i, j \in 1..n + 1 : Spots[i].ref = Spots[j].ref => i = j
  BY DEF LevelsInv, Standing, n
<1>12. last[1].at # host'.at
  BY <1>1, <1>2, <1>3, <1>5, <1>7, <1>11
<1>13. Standing'
  <2>1. \A i \in 1..n - 1 : Coherent(stack'[i].outer) /\ stack'[i].src = Spots'[i + 1].src
    <3> TAKE i \in 1..n - 1
    <3>1. i \in 1..n /\ i + 1 \in 1..n
      BY <1>2
    <3> QED
      BY <1>2, <1>6, <1>9, <3>1
  <2>2. /\ \A i \in 1..n : Spots'[i].depth = i - 1
        /\ \A i, j \in 1..n : Spots'[i].ref = Spots'[j].ref => i = j
    BY <1>3, <1>9, <1>11
  <2> QED
    BY <1>2, <1>5, <1>7, <2>1, <2>2 DEF Standing, Coherent, Proper
<1>14. Synced'
  <2>1. Navigating'
    BY <1>1, AwaitingMore
  <2>2. \A i \in 1..n + 1 : last[1].at.ref = Spots[i].ref => last[1].at = Spots[i]
    BY <1>1 DEF LevelsInv, Synced, n
  <2> QED
    BY <1>3, <1>5, <1>9, <2>1, <2>2 DEF Synced
<1>15. Near(Path, Path')
  BY <1>2, <1>3, <1>10 DEF Near
<1> QED
  BY <1>1, <1>12, <1>13, <1>14, <1>15, JourneyLeft DEF LevelsInv

\* A level is closed, or stays open because it cannot be written.
LEMMA LevelsClose ==
    ASSUME HistoryInv, HostTypes', LevelsInv, UNCHANGED <<panel, view, outer>>, panel,
           NEW m \in HostMessages, closeSubcircuitEditor(m), ~tangled'
    PROVE  Standing' /\ Synced' /\ Journey' /\ last' # <<>>
<1>1. /\ HostTypes /\ host \in Documents /\ Coherent(host) /\ last # <<>> /\ ~Navigating
      /\ UNCHANGED <<last, toView>> /\ host.subs \in Tables /\ Proper(host.subs)
  BY DocumentParts
     DEF HistoryInv, HostTypes, LevelsInv, Standing, closeSubcircuitEditor, Posted, Coherent
<1>2. CASE stack = <<>>
  <2>1. UNCHANGED <<host, stack, awaiting>>
    BY <1>2 DEF closeSubcircuitEditor
  <2>2. Coherent(host')
    BY <1>1, <2>1
  <2> QED
    BY <1>1, <2>1, <2>2, LevelsStay DEF LevelsInv
<1>3. CASE stack # <<>>
  <2> DEFINE written == writeSubcircuitEditingSessionBack(Last(stack))
  <2>1. written \in Tables /\ Proper(written)
    BY <1>1, <1>3, WrittenBack DEF LevelsInv
  <2>2. \E table \in {host.subs, written} :
           restoreOuterCircuit(Last(stack), table) \/ StayInLevel(table)
    BY <1>3 DEF closeSubcircuitEditor
  <2>3. PICK table \in Tables : /\ Proper(table)
                                /\ restoreOuterCircuit(Last(stack), table) \/ StayInLevel(table)
    <3> HIDE DEF written
    <3> QED
      BY <1>1, <2>1, <2>2
  <2>4. CASE restoreOuterCircuit(Last(stack), table)
    BY <1>1, <1>3, <2>3, <2>4, LevelsRestore
  <2>5. CASE StayInLevel(table)
    <3>1. host' = [host EXCEPT !.subs = table] /\ UNCHANGED <<stack, awaiting>>
      BY <2>5 DEF StayInLevel
    <3>2. Coherent(host') /\ host'.at = host.at
      BY <1>1, <2>3, <3>1 DEF Coherent, Documents
    <3> QED
      BY <1>1, <3>1, <3>2, LevelsStay DEF LevelsInv
  <2> QED
    BY <2>3, <2>4, <2>5
<1> QED
  BY <1>2, <1>3

\* The copy on the screen after a step, and its history.
LEMMA ScreenIs ==
    ASSUME Coherent(view'), Kept(history', view'.at.src)
    PROVE  Screen'
<1>1. Coherent(view)'
  BY Zenon DEF Coherent, Proper
<1>2. Kept(history, view.at.src)'
  BY Zenon DEF Kept, Within, Proper
<1> QED
  BY <1>1, <1>2 DEF Screen

\* A step that leaves the copy alone.
LEMMA ScreenStays ==
    ASSUME Screen, UNCHANGED <<view, history>>
    PROVE  Screen'
<1>1. Coherent(view') /\ Kept(history', view'.at.src)
  BY DEF Screen
<1> QED
  BY <1>1, ScreenIs

\* The host serves a message.
LEMMA LevelsHandle ==
    ASSUME HistoryInv, HostTypes', LevelsInv, handleWebviewMessage, ~tangled'
    PROVE  LevelsInv'
<1> DEFINE m == Head(toHost)
<1>1. /\ toHost # <<>> /\ toHost' = Tail(toHost) /\ HostTypes
      /\ UNCHANGED <<view, history, outer, panel>>
  BY DEF handleWebviewMessage, viewVars, HistoryInv
<1>2. panel
  BY <1>1 DEF LevelsInv, Posted
<1>3. m \in HostMessages /\ (m.type = "projectChanged" => Coherent(m.project))
  <2>1. m \in HostMessages /\ m = toHost[1] /\ 1 \in 1..Len(toHost)
    BY <1>1, TailSeq DEF HostTypes
  <2> QED
    BY <2>1 DEF LevelsInv, Posted
<1> HIDE DEF m
<1>4. Standing' /\ Synced' /\ Journey' /\ last' # <<>>
  BY <1>1, <1>2, <1>3, LevelsSnapshot, LevelsUpdate, LevelsConnect, LevelsOpen, LevelsClose
     DEF handleWebviewMessage, m
<1>5. Posted'
  BY <1>1, <1>4, PostedTail DEF LevelsInv
<1>6. Screen'
  BY <1>1, ScreenStays DEF LevelsInv
<1> QED
  BY <1>4, <1>5, <1>6 DEF LevelsInv

\* Nothing is posted while the host publishes.
LEMMA PostedStays ==
    ASSUME Posted, UNCHANGED <<toHost, panel>>, last' # <<>>, ~panel => toView' = toView
    PROVE  Posted'
BY DEF Posted, Coherent, Proper

\* What awaited the Core goes on and publishes.
LEMMA LevelsContinue ==
    ASSUME HistoryInv, HostTypes', LevelsInv, Continue
    PROVE  LevelsInv'
<1> PICK i \in DOMAIN awaiting :
        /\ stack' = IF awaiting[i] = "open" /\ stack # <<>>
                    THEN [stack EXCEPT ![Len(stack)].init.comps = host.comps] ELSE stack
        /\ syncSchematicPanel(host)
        /\ UNCHANGED <<view, history, outer, panel, toHost>>
  BY DEF Continue, viewVars
<1>1. host \in Documents /\ stack \in Seq(Sessions) /\ Coherent(host)
  BY DEF HistoryInv, HostTypes, LevelsInv, Standing
<1>2. /\ Len(stack') = Len(stack)
      /\ \A k \in 1..Len(stack) : stack'[k].outer = stack[k].outer /\ stack'[k].src = stack[k].src
  <2>1. CASE stack' = stack
    BY <2>1
  <2>2. CASE stack # <<>> /\ stack' = [stack EXCEPT ![Len(stack)].init.comps = host.comps]
    <3>1. Len(stack) \in 1..Len(stack) /\ stack[Len(stack)] \in Sessions
      BY <1>1, <2>2
    <3> DEFINE t == [stack[Len(stack)] EXCEPT !.init.comps = host.comps]
    <3>2. t.outer = stack[Len(stack)].outer /\ t.src = stack[Len(stack)].src
      BY <3>1 DEF Sessions
    <3>3. stack' = [stack EXCEPT ![Len(stack)] = t]
      BY <1>1, <2>2, <3>1
    <3> HIDE DEF t
    <3> QED
      BY <1>1, <3>1, <3>2, <3>3
  <2> QED
    BY <2>1, <2>2
<1>3. Standing' /\ Synced' /\ Journey'
  BY <1>1, <1>2, SyncLevels
<1>4. last' # <<>> /\ (~panel => toView' = toView)
  BY DEF syncSchematicPanel
<1>5. Posted' /\ Screen'
  BY <1>4, PostedStays, ScreenStays DEF LevelsInv
<1> QED
  BY <1>3, <1>5 DEF LevelsInv

\* Another panel changes the level the host is in.
LEMMA LevelsOtherPanelEdit ==
    ASSUME HistoryInv, HostTypes', LevelsInv, NEW v \in Values, OtherPanelEdit(v)
    PROVE  LevelsInv'
<1> DEFINE h == [host EXCEPT !.comps.v = v]
<1>1. host \in Documents /\ Coherent(host) /\ stack' = stack
      /\ UNCHANGED <<view, history, outer, panel, toHost>> /\ syncSchematicPanel(h)
  BY DEF HistoryInv, HostTypes, LevelsInv, Standing, OtherPanelEdit, viewVars
<1>2. h \in Documents /\ h.at = host.at /\ Coherent(h)
  BY <1>1, DocumentEdits DEF Documents, Tagged, Coherent
<1> HIDE DEF h
<1>3. Standing' /\ Synced' /\ Journey'
  BY <1>1, <1>2, SyncLevels
<1>4. last' # <<>> /\ (~panel => toView' = toView)
  BY <1>1 DEF syncSchematicPanel
<1>5. Posted' /\ Screen'
  BY <1>1, <1>4, PostedStays, ScreenStays DEF LevelsInv
<1> QED
  BY <1>3, <1>5 DEF LevelsInv

\* A new webview begins where the host is; a closed one loses what was on its way.
LEMMA LevelsPanels ==
    ASSUME HistoryInv, HostTypes', LevelsInv, ClosePanel \/ OpenPanel \/ RevealPanel, ~tangled'
    PROVE  LevelsInv'
<1>1. /\ HostTypes /\ host \in Documents /\ Coherent(host) /\ UNCHANGED <<host, stack, awaiting>>
  BY DEF HistoryInv, HostTypes, LevelsInv, Standing, ClosePanel, OpenPanel, RevealPanel
<1>2. Spots' = Spots /\ Path' = Path /\ Standing'
  BY <1>1, SpotsStay DEF LevelsInv
<1>3. ASSUME last' = <<host>>
      PROVE  Synced' /\ last' # <<>> /\ last'[1].at = host'.at
  <2>1. last' # <<>> /\ last'[1] = host
    BY <1>3
  <2>2. /\ Len(stack) \in Nat /\ Spots[Len(stack) + 1] = host.at
        /\ Len(stack) + 1 \in 1..Len(stack) + 1
    BY <1>1, SpotsAre
  <2>3. ASSUME NEW i \in 1..Len(stack) + 1, host.at.ref = Spots[i].ref
        PROVE  host.at = Spots[i]
    <3>1. i = Len(stack) + 1
      BY <2>2, <2>3 DEF LevelsInv, Standing
    <3> QED
      BY <2>2, <3>1
  <2> QED
    BY <1>1, <1>2, <2>1, <2>3 DEF Synced
<1>4. CASE ClosePanel
  <2>1. ~panel' /\ last' = <<>> /\ toHost' = <<>> /\ toView' = <<>> /\ UNCHANGED <<view, history>>
    BY <1>4 DEF ClosePanel, viewVars
  <2>2. Synced' /\ Journey'
    BY <2>1 DEF Synced, Journey
  <2>3. Len(<<>>) = 0 /\ 1..0 = {}
    OBVIOUS
  <2>4. Posted'
    BY <2>1, <2>3 DEF Posted
  <2>5. Screen'
    BY <2>1, ScreenStays DEF LevelsInv
  <2> QED
    BY <1>2, <2>2, <2>4, <2>5 DEF LevelsInv
<1>5. CASE OpenPanel
  <2>1. /\ ~panel /\ panel' /\ last' = <<host>> /\ view' = host /\ history' = resetUndoHistory(host)
        /\ outer' = <<>> /\ UNCHANGED <<toHost, toView>>
    BY <1>5 DEF OpenPanel
  <2>2. toHost' = <<>> /\ toView' = <<>>
    BY <2>1 DEF LevelsInv, Posted
  <2>3. Len(<<>>) = 0 /\ 1..0 = {} /\ DOMAIN <<>> = {}
    OBVIOUS
  <2>4. Posted'
    BY <1>3, <2>1, <2>2, <2>3 DEF Posted
  <2>5. Kept(resetUndoHistory(host), host.at.src)
    BY <1>1, BegunKept
  <2>6. Screen'
    BY <1>1, <2>1, <2>5, ScreenIs
  <2>7. Journey'
    <3>1. Path \in Paths /\ EndsAt(host.at, Path)
      BY <1>1, SpotsAre, HostEnds DEF LevelsInv
    <3> DEFINE C == <<Path>>
    <3>2. C \in Seq(Paths) /\ Len(C) = 1 /\ C[1] = Path
      BY <3>1
    <3> HIDE DEF C
    <3>3. Fits(<<>>, Path)
      <4> DEFINE p == [j \in DOMAIN <<>> |-> 0]
      <4>1. p \in [DOMAIN <<>> -> Nat]
        BY <2>3
      <4> HIDE DEF p
      <4>2. Lies(<<>>, Path, p)
        BY <2>3 DEF Lies
      <4> QED
        BY <4>1, <4>2 DEF Fits
    <3>4. Travels(C, view'.at, outer', toView')
      BY <2>1, <2>2, <2>3, <3>1, <3>2, <3>3 DEF Travels
    <3> QED
      BY <1>2, <1>3, <2>1, <3>2, <3>4, JourneyEnds
  <2> QED
    BY <1>2, <1>3, <2>1, <2>4, <2>6, <2>7 DEF LevelsInv
<1>6. CASE RevealPanel
  <2> DEFINE msg == [type |-> "syncState", project |-> host]
  <2>1. /\ panel /\ last' = <<host>> /\ toView' = Append(toView, msg) /\ ~Navigating
        /\ UNCHANGED <<view, history, outer, panel, toHost>>
    BY <1>6 DEF RevealPanel, viewVars
  <2>2. msg \in ViewMessages
    BY <1>1 DEF ViewMessages
  <2>3. last[1].at = host.at
    BY <2>1 DEF LevelsInv, Synced, Posted
  <2>4. PICK C \in Seq(Paths) : Travels(C, view.at, outer, toView) /\ Arrives(C[Len(C)])
    BY <2>1 DEF LevelsInv, Journey
  <2>5. C[Len(C)] = Path
    BY <2>3, <2>4 DEF Arrives
  <2>6. Carries(msg, Path, Path)
    BY <1>1, HostEnds DEF Carries, LevelsInv
  <2> HIDE DEF msg
  <2>7. Journey'
    BY <1>1, <1>2, <1>3, <2>1, <2>2, <2>4, <2>5, <2>6, JourneyArrives
  <2>8. Posted' /\ Screen'
    BY <1>3, <2>1, PostedStays, ScreenStays DEF LevelsInv
  <2> QED
    BY <1>2, <1>3, <2>1, <2>7, <2>8 DEF LevelsInv
<1> QED
  BY <1>4, <1>5, <1>6

-----------------------------------------------------------------------------
(* Steps of the webview *)

\* The queue to the host grows.
LEMMA PostedMore ==
    ASSUME HostTypes, Posted, panel, UNCHANGED <<panel, last>>, NEW m,
           toHost' = Append(toHost, m), m.type = "projectChanged" => Coherent(m.project)
    PROVE  Posted'
<1>1. /\ Len(toHost) \in Nat /\ Len(toHost') = Len(toHost) + 1 /\ toHost'[Len(toHost) + 1] = m
      /\ \A i \in 1..Len(toHost) : toHost'[i] = toHost[i]
  BY DEF HostTypes
<1>2. \A i \in 1..Len(toHost') : i \in 1..Len(toHost) \/ i = Len(toHost) + 1
  BY <1>1
<1>3. \A i \in 1..Len(toHost') : toHost'[i].type = "projectChanged" => Coherent(toHost'[i].project)
  BY <1>1, <1>2 DEF Posted
<1> QED
  BY <1>3 DEF Posted, Coherent, Proper

\* persistState: a copy of the same level goes out.
LEMMA LevelsPersist ==
    ASSUME HistoryInv, HostTypes', LevelsInv, panel, NEW s \in Documents, Coherent(s),
           s.at = view.at, persistState(s), outer' = outer, Kept(history', s.at.src)
    PROVE  LevelsInv'
<1>1. /\ UNCHANGED <<host, last, stack, awaiting, panel, toView>> /\ view' = s
      /\ toHost' = Append(toHost, [type |-> "projectChanged", project |-> s]) /\ HostTypes
  BY DEF persistState, hostVars, Post, HistoryInv
<1>2. Coherent(host') /\ (Navigating => Navigating')
  BY <1>1 DEF LevelsInv, Standing, Navigating
<1>3. Standing' /\ Synced' /\ Journey'
  BY <1>1, <1>2, LevelsStay DEF LevelsInv
<1>4. Posted'
  BY <1>1, PostedMore DEF LevelsInv
<1>5. Screen'
  BY <1>1, ScreenIs
<1> QED
  BY <1>3, <1>4, <1>5 DEF LevelsInv

\* An edit of the circuit on the screen.
LEMMA LevelsLocalEdit ==
    ASSUME HistoryInv, HostTypes', LevelsInv, NEW s \in Edits, LocalEdit(s)
    PROVE  LevelsInv'
<1>1. view \in Documents /\ Coherent(view) /\ history \in Histories /\ Kept(history, view.at.src)
  BY DEF HistoryInv, ViewTypes, LevelsInv, Screen
<1>2. s \in Documents
  BY <1>1, DocumentEdits DEF Edits
<1>3. s.at = view.at /\ Coherent(s)
  <2>1. /\ s.at = view.at /\ s.comps.of = view.comps.of /\ s.subs = view.subs
        /\ s.topo.wires.of = view.topo.wires.of
    BY <1>1 DEF Edits, Documents, Tagged, Topologies
  <2> QED
    BY <1>1, <2>1 DEF Coherent
<1>4. history' = recordUndoTransition(history, s) /\ panel /\ persistState(s) /\ outer' = outer
  BY DEF LocalEdit
<1>5. Kept(history', s.at.src)
  BY <1>1, <1>2, <1>3, <1>4, RecordedKept
<1> QED
  BY <1>2, <1>3, <1>4, <1>5, LevelsPersist

\* A version of the same circuit is restored.
LEMMA RestoredLevel ==
    ASSUME NEW d \in Documents, NEW x \in Snapshots, Within(x, d.at.src)
    PROVE  LET s == [d EXCEPT !.comps = x.comps, !.topo.wires = x.wires, !.subs = x.subs]
           IN  s \in Documents /\ s.at = d.at /\ Coherent(s)
<1> DEFINE s == [d EXCEPT !.comps = x.comps, !.topo.wires = x.wires, !.subs = x.subs]
<1>1. s \in Documents
  BY Restored
<1>2. s.at = d.at /\ s.comps = x.comps /\ s.topo.wires = x.wires /\ s.subs = x.subs
  BY DEF Documents, Topologies
<1> QED
  BY <1>1, <1>2 DEF Within, Coherent

\* One version back or forth of the circuit on the screen.
LEMMA LevelsUndo ==
    ASSUME HistoryInv, HostTypes', LevelsInv, undo \/ redo
    PROVE  LevelsInv'
<1>1. /\ view \in Documents /\ Kept(history, view.at.src) /\ panel
      /\ history.undo \in Seq(Snapshots) /\ history.redo \in Seq(Snapshots)
      /\ history.base \in Snapshots
  BY DEF HistoryInv, ViewTypes, Histories, LevelsInv, Screen, undo, redo
<1>2. /\ \A i \in DOMAIN history.undo : Within(history.undo[i], view.at.src)
      /\ \A i \in DOMAIN history.redo : Within(history.redo[i], view.at.src)
      /\ Within(history.base, view.at.src)
  BY <1>1 DEF Kept
<1>3. ASSUME NEW x \in Snapshots, Within(x, view.at.src), applyUndoSnapshot(x), outer' = outer,
             Kept(history', view.at.src)
      PROVE  LevelsInv'
  <2> DEFINE s == [view EXCEPT !.comps = x.comps, !.topo.wires = x.wires, !.subs = x.subs]
  <2>1. s \in Documents /\ s.at = view.at /\ Coherent(s)
    BY <1>1, <1>3, RestoredLevel
  <2>2. persistState(s)
    BY <1>3 DEF applyUndoSnapshot
  <2> HIDE DEF s
  <2> QED
    BY <1>1, <1>3, <2>1, <2>2, LevelsPersist
<1>4. CASE undo
  <2> DEFINE f == Front(history.undo)
             a == Append(history.redo, history.base)
             x == Last(history.undo)
  <2>1. history.undo # <<>> /\ x \in Snapshots
    BY <1>1, <1>4, FrontSeq DEF undo
  <2>2. /\ \A i \in DOMAIN f : Within(f[i], view.at.src)
        /\ \A i \in DOMAIN a : Within(a[i], view.at.src)
        /\ Within(x, view.at.src)
    BY <1>1, <1>2, <2>1, MovedKept
  <2>3. /\ history' = [undo |-> f, redo |-> a, base |-> x]
        /\ applyUndoSnapshot(x) /\ outer' = outer
    BY <1>4 DEF undo
  <2> HIDE DEF f, a, x
  <2>4. Kept(history', view.at.src)
    BY <2>2, <2>3 DEF Kept
  <2> QED
    BY <1>3, <2>1, <2>2, <2>3, <2>4
<1>5. CASE redo
  <2> DEFINE f == Front(history.redo)
             a == Append(history.undo, history.base)
             x == Last(history.redo)
  <2>1. history.redo # <<>> /\ x \in Snapshots
    BY <1>1, <1>5, FrontSeq DEF redo
  <2>2. /\ \A i \in DOMAIN f : Within(f[i], view.at.src)
        /\ \A i \in DOMAIN a : Within(a[i], view.at.src)
        /\ Within(x, view.at.src)
    BY <1>1, <1>2, <2>1, MovedKept
  <2>3. /\ history' = [undo |-> a, redo |-> f, base |-> x]
        /\ applyUndoSnapshot(x) /\ outer' = outer
    BY <1>5 DEF redo
  <2> HIDE DEF f, a, x
  <2>4. Kept(history', view.at.src)
    BY <2>2, <2>3 DEF Kept
  <2> QED
    BY <1>3, <2>1, <2>2, <2>3, <2>4
<1> QED
  BY <1>4, <1>5

\* A request changes no level by itself.
LEMMA LevelsRequest ==
    ASSUME HistoryInv, HostTypes', LevelsInv, Request
    PROVE  LevelsInv'
<1>1. /\ UNCHANGED <<host, last, stack, awaiting, panel, toView, view, history, outer>> /\ panel
      /\ HostTypes
  BY DEF Request, hostVars, viewVars, HistoryInv
<1>2. PICK m \in Requests : toHost' = Append(toHost, m)
  BY DEF Request, Post
<1>3. m.type # "projectChanged"
  BY DEF Requests
<1>4. Coherent(host') /\ (Navigating => Navigating')
  BY <1>1 DEF LevelsInv, Standing, Navigating
<1>5. Standing' /\ Synced' /\ Journey'
  BY <1>1, <1>4, LevelsStay DEF LevelsInv
<1>6. Posted' /\ Screen'
  BY <1>1, <1>2, <1>3, PostedMore, ScreenStays DEF LevelsInv
<1> QED
  BY <1>5, <1>6 DEF LevelsInv

\* switchUndoHistoryLevel goes with the path: what it stores is of the circuit that is left,
\* what it brings back of the circuit that is entered.
LEMMA SwitchedKept ==
    ASSUME ViewTypes, Screen, NEW s \in Documents, Coherent(s), NEW x \in Paths, NEW y \in Paths,
           EndsAt(view.at, x), EndsAt(s.at, y), Near(x, y), Fits(outer, x),
           s.at.src # view.at.src, switchUndoHistoryLevel(view.at.depth, s.at.depth, s)
    PROVE  Kept(history', s.at.src) /\ Fits(outer', y)
<1>1. /\ x # <<>> /\ y # <<>> /\ view.at.src = x[Len(x)] /\ s.at.src = y[Len(y)]
      /\ view.at.depth = Len(x) - 1 /\ s.at.depth = Len(y) - 1
      /\ x \in Seq(Circuits) /\ y \in Seq(Circuits)
  BY DEF EndsAt, Paths
<1>2. Len(x) \in Nat \ {0} /\ Len(y) \in Nat \ {0}
  BY <1>1
<1>3. history \in Histories /\ outer \in Seq(Histories) /\ Kept(history, x[Len(x)])
  BY <1>1 DEF ViewTypes, Screen
<1>4. Kept(resetUndoHistory(s), s.at.src)
  BY BegunKept
<1>5. y # x
  BY <1>1
<1>6. CASE \E c \in Circuits : y = Append(x, c)
  <2> PICK c \in Circuits : y = Append(x, c)
    BY <1>6
  <2>1. Len(y) = Len(x) + 1 /\ y[Len(x) + 1] = c
    BY <1>1, AppendSeq
  <2>2. /\ c # x[Len(x)] /\ s.at.depth > view.at.depth /\ ~(s.at.depth < view.at.depth)
    BY <1>1, <1>2, <2>1
  <2>3. outer' = Append(outer, history) /\ history' = resetUndoHistory(s)
    BY <2>2 DEF switchUndoHistoryLevel
  <2>4. Fits(Append(outer, history), Append(x, c))
    BY <1>1, <1>3, <2>2, FitsPush
  <2> QED
    BY <1>4, <2>3, <2>4
<1>7. CASE Len(x) > 1 /\ y = Front(x)
  <2>1. Len(y) = Len(x) - 1 /\ \A i \in 1..Len(x) - 1 : y[i] = x[i]
    BY <1>1, <1>7, FrontSeq
  <2>2. /\ x[Len(x) - 1] = s.at.src /\ x[Len(x) - 1] # x[Len(x)]
        /\ ~(s.at.depth > view.at.depth) /\ s.at.depth < view.at.depth
    BY <1>1, <1>2, <1>7, <2>1
  <2>3. /\ outer # <<>> => Kept(Last(outer), x[Len(x) - 1]) /\ Fits(Front(outer), Front(x))
        /\ outer = <<>> => Fits(outer, Front(x))
    BY <1>1, <1>3, <1>7, <2>2, FitsPop
  <2>4. CASE outer # <<>>
    <3>1. outer' = Front(outer) /\ history' = recordUndoTransition(Last(outer), s)
      BY <2>2, <2>4 DEF switchUndoHistoryLevel
    <3>2. Last(outer) \in Histories /\ Kept(Last(outer), s.at.src)
      BY <1>3, <2>2, <2>3, <2>4, FrontSeq
    <3>3. Kept(history', s.at.src)
      BY <3>1, <3>2, RecordedKept
    <3> QED
      BY <1>7, <2>3, <2>4, <3>1, <3>3
  <2>5. CASE outer = <<>>
    <3>1. outer' = outer /\ history' = resetUndoHistory(s)
      BY <2>2, <2>5 DEF switchUndoHistoryLevel
    <3> QED
      BY <1>4, <1>7, <2>3, <2>5, <3>1
  <2> QED
    BY <2>4, <2>5
<1> QED
  BY <1>5, <1>6, <1>7 DEF Near

\* A patch takes the copy to a level as a whole.
LEMMA MergedLevel ==
    ASSUME view \in Documents, Coherent(view), NEW p \in Patches, NEW x, NEW y,
           EndsAt(view.at, x), Carries([type |-> "patch", patch |-> p], x, y)
    PROVE  Merged(p) \in Documents /\ Coherent(Merged(p)) /\ EndsAt(Merged(p).at, y) /\ Near(x, y)
<1> DEFINE s == Merged(p)
<1>1. s \in Documents /\ DOMAIN view = Fields
  BY MergedIsDocument, DocumentParts
<1>2. /\ s.comps = IF "comps" \in DOMAIN p THEN p.comps ELSE view.comps
      /\ s.topo = IF "topo" \in DOMAIN p THEN p.topo ELSE view.topo
      /\ s.at = IF "at" \in DOMAIN p THEN p.at ELSE view.at
      /\ s.subs = IF "subs" \in DOMAIN p THEN p.subs ELSE view.subs
  BY <1>1 DEF Merged, Fields
<1>3. /\ Near(x, y)
      /\ "comps" \in DOMAIN p => p.comps.of = y[Len(y)]
      /\ "topo" \in DOMAIN p => p.topo.wires.of = y[Len(y)]
      /\ "subs" \in DOMAIN p => Proper(p.subs)
      /\ "at" \in DOMAIN p => EndsAt(p.at, y) /\ "comps" \in DOMAIN p /\ "topo" \in DOMAIN p
      /\ "at" \notin DOMAIN p => x = y
  BY DEF Carries
<1> HIDE DEF s
<1>4. EndsAt(s.at, y)
  BY <1>2, <1>3
<1>5. s.at.src = y[Len(y)] /\ ("at" \notin DOMAIN p => view.at.src = y[Len(y)])
  BY <1>3, <1>4 DEF EndsAt
<1>6. Coherent(s)
  BY <1>2, <1>3, <1>5 DEF Coherent
<1> QED
  BY <1>1, <1>3, <1>4, <1>6 DEF s

\* A message takes the copy, and its histories, one step along its way.
LEMMA LevelsReceive ==
    ASSUME HistoryInv, HostTypes', LevelsInv, Receive
    PROVE  LevelsInv'
<1> DEFINE m == Head(toView)
<1>1. /\ toView # <<>> /\ toView' = Tail(toView) /\ HostTypes
      /\ UNCHANGED <<host, last, stack, awaiting, panel, toHost>>
  BY DEF Receive, hostVars, HistoryInv
<1>2. panel /\ last # <<>>
  BY <1>1 DEF LevelsInv, Posted
<1>3. PICK C \in Seq(Paths) : Travels(C, view.at, outer, toView) /\ Arrives(C[Len(C)])
  BY <1>2 DEF LevelsInv, Journey
<1> DEFINE x == C[1]
           y == C[2]
<1>4. m \in ViewMessages /\ toView \in Seq(ViewMessages) /\ m = toView[1] /\ 1 \in 1..Len(toView)
  BY <1>1, TailSeq DEF HostTypes
<1>5. x \in Paths /\ y \in Paths
  BY <1>3, <1>4 DEF Travels
<1>6. EndsAt(view.at, x) /\ Fits(outer, x) /\ Carries(m, x, y)
  BY <1>3, <1>4 DEF Travels
<1>7. /\ view \in Documents /\ history \in Histories /\ outer \in Seq(Histories) /\ Coherent(view)
      /\ Kept(history, view.at.src) /\ ViewTypes /\ Screen
  BY DEF HistoryInv, ViewTypes, LevelsInv, Screen
<1> HIDE DEF x, y, m
<1>8. /\ view' \in Documents /\ Coherent(view') /\ EndsAt(view'.at, y)
      /\ Kept(history', view'.at.src) /\ Fits(outer', y)
  <2>1. CASE ReceivePatch
    <3> DEFINE s == Merged(m.patch)
    <3>1. m.patch \in Patches /\ m = [type |-> "patch", patch |-> m.patch]
      BY <1>4, <2>1 DEF ReceivePatch, ViewMessages, m
    <3>2. s \in Documents /\ Coherent(s) /\ EndsAt(s.at, y) /\ Near(x, y)
      BY <1>6, <1>7, <3>1, MergedLevel
    <3>3. /\ view' = s
          /\ IF s.at.src # view.at.src
             THEN switchUndoHistoryLevel(view.at.depth, s.at.depth, s)
             ELSE history' = recordUndoTransition(history, s) /\ outer' = outer
      BY <2>1 DEF ReceivePatch, m
    <3> HIDE DEF s
    <3>4. CASE s.at.src # view.at.src
      BY <1>5, <1>6, <1>7, <3>2, <3>3, <3>4, SwitchedKept
    <3>5. CASE s.at.src = view.at.src
      <4>1. history' = recordUndoTransition(history, s) /\ outer' = outer
        BY <3>3, <3>5
      <4>2. Kept(history', s.at.src)
        BY <1>7, <3>2, <3>5, <4>1, RecordedKept
      <4>3. x # <<>> /\ y # <<>> /\ x[Len(x)] = y[Len(y)]
        BY <1>6, <3>2, <3>5 DEF EndsAt
      <4>4. Fits(outer, y)
        BY <1>5, <1>6, <1>7, <3>2, <4>3, FitsStay DEF Paths
      <4> QED
        BY <3>2, <3>3, <4>1, <4>2, <4>4
    <3> QED
      BY <3>4, <3>5
  <2>2. CASE ReceiveState
    <3>1. /\ m.type = "syncState" /\ view' = m.project /\ outer' = outer
          /\ history' = recordUndoTransition(history, m.project)
      BY <2>2 DEF ReceiveState, m
    <3>2. m.project \in Documents /\ x = y /\ Coherent(m.project) /\ EndsAt(m.project.at, y)
      BY <1>4, <1>6, <3>1, ViewMessageParts DEF Carries
    <3>3. m.project.at.src = view.at.src
      BY <1>6, <3>2 DEF EndsAt
    <3> QED
      BY <1>6, <1>7, <3>1, <3>2, <3>3, RecordedKept
  <2>3. CASE ReceiveRevision
    <3>1. /\ m.type = "revision" /\ view' = [view EXCEPT !.topo.rev = m.revision]
          /\ outer' = outer /\ history' = history
      BY <2>3 DEF ReceiveRevision, m
    <3>2. m.revision \in Nat /\ x = y
      BY <1>4, <1>6, <3>1, ViewMessageParts DEF Carries
    <3>3. /\ view' \in Documents /\ view'.at = view.at /\ view'.comps = view.comps
          /\ view'.subs = view.subs /\ view'.topo.wires = view.topo.wires
      BY <1>7, <3>1, <3>2 DEF Documents, Topologies
    <3>4. Coherent(view')
      BY <1>7, <3>3 DEF Coherent
    <3> QED
      BY <1>6, <1>7, <3>1, <3>2, <3>3, <3>4
  <2> QED
    BY <2>1, <2>2, <2>3 DEF Receive
<1>9. Screen'
  BY <1>8, ScreenIs
<1>10. Spots' = Spots /\ Path' = Path /\ Standing'
  <2>1. Coherent(host')
    BY <1>1 DEF LevelsInv, Standing
  <2> QED
    BY <1>1, <2>1, SpotsStay DEF LevelsInv
<1>11. Synced'
  BY <1>1, <1>10 DEF LevelsInv, Synced, Navigating
<1>12. Posted'
  BY <1>1, <1>2, PostedStays DEF LevelsInv
<1>13. Journey'
  <2> DEFINE D == Tail(C)
  <2>1. Travels(D, view'.at, outer', toView') /\ D \in Seq(Paths) /\ D[Len(D)] = C[Len(C)]
    BY <1>1, <1>3, <1>4, <1>8, TravelsTail DEF y
  <2> HIDE DEF D
  <2>2. Arrives(C[Len(C)])'
    BY <1>1, <1>3, <1>10 DEF Arrives, EndsAt, Near
  <2>3. Arrives(D[Len(D)])'
    BY <2>1, <2>2
  <2> QED
    BY <2>1, <2>3 DEF Journey, Travels, EndsAt, Fits, Lies, Carries
<1> QED
  BY <1>9, <1>10, <1>11, <1>12, <1>13 DEF LevelsInv

-----------------------------------------------------------------------------
(* Levels apart *)

\* The chain of definitions that is open at first.
LEMMA LevelsInit == Init => LevelsInv
<1> SUFFICES ASSUME Init
             PROVE  LevelsInv
  OBVIOUS
<1> PICK n \in Circuits :
        /\ host = Level(n)
        /\ last = <<Level(n)>>
        /\ stack = [i \in 1..n |-> [src |-> i, outer |-> Level(i - 1), init |-> Content(Level(i))]]
        /\ view = Level(n)
        /\ history = resetUndoHistory(Level(n))
        /\ outer = [i \in 1..n |-> resetUndoHistory(Level(i - 1))]
        /\ awaiting = <<>>
        /\ panel
        /\ toHost = <<>> /\ toView = <<>>
  BY DEF Init
<1>1. /\ n \in Nat
      /\ \A i \in 1..n : i \in Definitions /\ i \in Circuits /\ i - 1 \in Circuits /\ i \in Nat
  BY BoundsAssumption DEF Circuits, Definitions
<1>2. \A c \in Circuits : /\ Coherent(Level(c)) /\ Level(c).at.src = c /\ Level(c).at.depth = c
                          /\ Level(c).at.ref = c
  <2>1. Proper(Table)
    BY DEF Proper, Table, Fresh, Of
  <2> QED
    BY <2>1 DEF Coherent, Level, Of
<1>3. HistoryInv /\ HostTypes
  BY HistoryInit DEF HistoryInv
<1>4. Len(stack) = n /\ \A i \in 1..n : stack[i].src = i /\ stack[i].outer = Level(i - 1)
  <2>1. \A i \in 1..n : stack[i].src = i /\ stack[i].outer = Level(i - 1)
    OBVIOUS
  <2>2. DOMAIN stack = 1..n /\ stack \in Seq(Sessions)
    BY <1>3 DEF HostTypes
  <2>3. Len(stack) = n
    BY <1>1, <2>2
  <2> QED
    BY <2>1, <2>3
<1>5. \A i \in 1..n + 1 : i - 1 \in Circuits /\ Spots[i] = Level(i - 1).at
  <2> TAKE i \in 1..n + 1
  <2>1. CASE i = n + 1
    BY <1>1, <1>3, <1>4, <2>1, SpotsAre
  <2>2. CASE i \in 1..n
    BY <1>1, <1>3, <1>4, <2>2, SpotsAre
  <2> QED
    BY <1>1, <2>1, <2>2
<1>6. \A i \in 1..n + 1 : Spots[i].src = i - 1 /\ Spots[i].depth = i - 1 /\ Spots[i].ref = i - 1
  BY <1>2, <1>5
<1>7. Standing
  <2>1. \A i \in 1..n : Coherent(stack[i].outer) /\ stack[i].src = Spots[i + 1].src
    <3> TAKE i \in 1..n
    <3>1. i + 1 \in 1..n + 1 /\ (i + 1) - 1 = i
      BY <1>1
    <3> QED
      BY <1>1, <1>2, <1>4, <1>6, <3>1
  <2>2. \A i, j \in 1..n + 1 : Spots[i].ref = Spots[j].ref => i = j
    BY <1>1, <1>6
  <2> QED
    BY <1>2, <1>4, <1>6, <2>1, <2>2 DEF Standing
<1>8. last # <<>> /\ last[1] = host
  OBVIOUS
<1>9. Synced
  <2>1. ASSUME NEW i \in 1..n + 1, last[1].at.ref = Spots[i].ref
        PROVE  last[1].at = Spots[i]
    <3>1. i - 1 = n
      BY <1>1, <1>2, <1>6, <1>8, <2>1
    <3> QED
      BY <1>5, <1>8, <3>1
  <2> QED
    BY <1>4, <1>8, <2>1 DEF Synced
<1>10. Len(<<>>) = 0 /\ 1..0 = {} /\ DOMAIN <<>> = {}
  OBVIOUS
<1>11. Posted
  BY <1>8, <1>10 DEF Posted
<1>12. \A c \in Circuits : Level(c) \in Documents
  <2> TAKE c \in Circuits
  <2>1. c \in Nat
    BY BoundsAssumption DEF Circuits
  <2>2. Of(c, 0) \in Tagged
    BY ValuesAssumption DEF Of, Tagged
  <2>3. Table \in Tables
    BY <1>3, DocumentParts DEF HostTypes, Level
  <2> QED
    BY <2>1, <2>2, <2>3 DEF Level, Documents, Topologies, Places
<1>13. \A c \in Circuits : Kept(resetUndoHistory(Level(c)), c)
  BY <1>2, <1>12, BegunKept
<1>14. Screen
  BY <1>2, <1>13 DEF Screen
<1>15. Journey
  <2>1. Path \in Paths /\ EndsAt(host.at, Path) /\ Len(Path) = n + 1
        /\ \A i \in 1..n + 1 : Path[i] = i - 1
    BY <1>3, <1>4, <1>6, <1>7, SpotsAre, HostEnds
  <2> DEFINE C == <<Path>>
             p == [j \in DOMAIN outer |-> j]
  <2>2. C \in Seq(Paths) /\ Len(C) = 1 /\ C[1] = Path
    BY <2>1
  <2>3. DOMAIN outer = 1..n /\ p \in [DOMAIN outer -> Nat] /\ \A j \in 1..n : p[j] = j
    BY <1>1
  <2> HIDE DEF C, p
  <2>4. \A j \in 1..n : Path[j] = j - 1 /\ Path[j + 1] = j
    <3> TAKE j \in 1..n
    <3>1. j \in 1..n + 1 /\ j + 1 \in 1..n + 1 /\ (j + 1) - 1 = j
      BY <1>1
    <3> QED
      BY <2>1, <3>1
  <2>5. Len(Path) - 1 = n
    BY <1>1, <2>1
  <2>6. Lies(outer, Path, p)
    <3>1. ASSUME NEW j \in 1..n
          PROVE  p[j] \in 1..n /\ Path[p[j]] # Path[p[j] + 1] /\ Kept(outer[j], Path[p[j]])
      <4>1. j - 1 # j /\ outer[j] = resetUndoHistory(Level(j - 1)) /\ j - 1 \in Circuits
        BY <1>1
      <4> QED
        BY <1>13, <2>3, <2>4, <4>1
    <3> QED
      BY <2>3, <2>5, <3>1 DEF Lies
  <2>7. Travels(C, view.at, outer, toView)
    <3>1. Fits(outer, Path)
      BY <2>3, <2>6 DEF Fits
    <3>2. view.at = host.at /\ Len(toView) = 0 /\ 1..Len(toView) = {}
      OBVIOUS
    <3>3. EndsAt(view.at, Path)
      BY <2>1, <3>2
    <3>4. Len(C) = Len(toView) + 1
      BY <2>2, <3>2
    <3> QED
      BY <2>2, <3>1, <3>2, <3>3, <3>4 DEF Travels
  <2>8. Arrives(C[Len(C)])
    BY <1>8, <2>1, <2>2 DEF Arrives, Near
  <2> QED
    BY <2>2, <2>7, <2>8 DEF Journey
<1> QED
  BY <1>7, <1>9, <1>11, <1>14, <1>15 DEF LevelsInv

\* Every step that does not tangle the levels.
LEMMA LevelsNext ==
    ASSUME HistoryInv, HistoryInv', tangled \/ LevelsInv, [Next]_vars
    PROVE  tangled' \/ LevelsInv'
<1>1. tangled => tangled'
  BY DEF Next, vars, LocalEdit, persistState, undo, redo, applyUndoSnapshot, Request, Receive,
         handleWebviewMessage, projectChanged, requestUpdateProperty, requestConnectEndpoints,
         openSubcircuit, closeSubcircuitEditor, Continue, OtherPanelEdit, ClosePanel, OpenPanel,
         RevealPanel
<1> SUFFICES ASSUME ~tangled', LevelsInv
             PROVE  LevelsInv'
  BY <1>1
<1>2. HostTypes'
  BY DEF HistoryInv
<1>3. CASE UNCHANGED vars
  <2>1. /\ UNCHANGED <<host, last, stack, awaiting, panel, view, history, outer, toHost, toView>>
        /\ Coherent(host) /\ HostTypes
    BY <1>3 DEF vars, LevelsInv, Standing, HistoryInv
  <2>2. Coherent(host') /\ (Navigating => Navigating')
    BY <2>1 DEF Navigating
  <2>3. Standing' /\ Synced' /\ Journey'
    BY <1>2, <2>1, <2>2, LevelsStay DEF LevelsInv
  <2>4. Posted' /\ Screen'
    BY <2>1, ScreenStays DEF LevelsInv, Posted, Coherent, Proper
  <2> QED
    BY <2>3, <2>4 DEF LevelsInv
<1> QED
  BY <1>2, <1>3, LevelsLocalEdit, LevelsUndo, LevelsRequest, LevelsReceive, LevelsHandle,
     LevelsContinue, LevelsOtherPanelEdit, LevelsPanels DEF Next

\* The property, from the invariant.
LEMMA LevelsAreApart == HistoryInv /\ (tangled \/ LevelsInv) => LevelsApart
<1> SUFFICES ASSUME HistoryInv, LevelsInv
             PROVE  LevelsApart
  BY DEF LevelsApart
<1>1. InCircuit(history, view.at.src)
  <2>1. /\ Kept(history, view.at.src)
        /\ history.undo \in Seq(Snapshots) /\ history.redo \in Seq(Snapshots)
    BY DEF LevelsInv, Screen, HistoryInv, ViewTypes, Histories
  <2>2. /\ \A x \in ToSet(history.undo) : \E i \in DOMAIN history.undo : x = history.undo[i]
        /\ \A x \in ToSet(history.redo) : \E i \in DOMAIN history.redo : x = history.redo[i]
    BY DEF ToSet
  <2> QED
    BY <2>1, <2>2 DEF InCircuit, Kept, Within
<1>2. \A k \in Definitions : host.subs[k].comps.of = k /\ host.subs[k].topo.wires.of = k
  BY DEF LevelsInv, Standing, Coherent, Proper
<1>3. \A i \in DOMAIN stack : stack[i].outer.comps.of = stack[i].outer.at.src
  <2>1. DOMAIN stack = 1..Len(stack)
    BY DEF HistoryInv, HostTypes
  <2> QED
    BY <2>1 DEF LevelsInv, Standing, Coherent
<1> QED
  BY <1>1, <1>2, <1>3 DEF LevelsApart

\* Levels never mix (openSubcircuitForEditingCommand, closeSubcircuitEditorCommand and
\* syncSchematicPanel in extension.ts; switchUndoHistoryLevel and the handler of syncStatePatch in
\* main.ts), for any depth, histories and number of gestures: the undo history on the screen holds
\* versions of the circuit shown only, and every definition and every level that waits outside
\* keeps its own circuit, as long as nothing else was served while a level was opened or closed.
THEOREM LevelsStayApart == Spec => []LevelsApart
<1>1. Init => HistoryInv /\ (tangled \/ LevelsInv)
  BY HistoryInit, LevelsInit
<1>2. HistoryInv /\ (tangled \/ LevelsInv) /\ [Next]_vars => (HistoryInv /\ (tangled \/ LevelsInv))'
  BY HistoryNext, LevelsNext
<1> QED
  BY <1>1, <1>2, LevelsAreApart, PTL DEF Spec

====
