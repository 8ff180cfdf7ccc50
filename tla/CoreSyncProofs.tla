---------------------------- MODULE CoreSyncProofs ---------------------------
(***************************************************************************)
(* What the queue of mutations leaves in the Core                           *)
(* (extension/src/core/coreLifecycle.ts): CoreSync's NoOrphans and           *)
(* CommitWins, for every project, every set of values and every number of    *)
(* edits.                                                                   *)
(*                                                                         *)
(* NoOrphans speaks of empty queues.  While they are not, an instance that   *)
(* lives is in the map or is the subject of one queued removal; during the   *)
(* removals of a rebuild it is one of those still to be removed.  For that   *)
(* to survive an add, what is added must not have an instance already; for   *)
(* it to survive a rebuild, no removal or paste may wait behind it, and what *)
(* is added there must not be in the document the rebuild reads.            *)
(*                                                                         *)
(* CommitWins speaks of empty queues too.  While they are not, the instance  *)
(* of a committed component has the value of the document or some job of the *)
(* queue gives it that value, and no later job sets another one.            *)
(***************************************************************************)
EXTENDS CoreSync, FiniteSetTheorems, SequenceTheorems, TLAPS

\* What a job can be, and how far it can have come.
Kinds == {"add", "insert", "remove", "property", "preview", "transaction", "wire",
          "rebuild", "stop"}
\* The jobs that give a component its instance.
Structural == {"add", "insert"}
Phases == {"queued", "sent", "stopping", "prepare", "halt", "remove", "add", "wire", "resume"}

\* The values of the state.
Docs == [comps : SUBSET Components, val : [Components -> Values], wired : BOOLEAN]
Instances == [of : Components, val : Values, live : BOOLEAN, denied : Values \cup {-1}]
Jobs ==
    {j \in [k : Kinds, phase : Phases, c : Components \cup {0}, v : Values, id : Nat,
            ids : Seq(Nat \cup (Components \X Values)), connect : BOOLEAN,
            resume : BOOLEAN, awaited : BOOLEAN, undisturbed : BOOLEAN] :
        j.k \in Structural \cup {"property", "preview"} => j.c \in Components}

\* The instances the map knows, and those a queued removal is for.
Known == {map[c] : c \in Components} \ {0}
Doomed == {queue[i].id : i \in {j \in DOMAIN queue : queue[j].k = "remove"}}
\* The rebuild in progress removes the instances, or adds the components again.
Emptying == Rebuilding("remove")
Filling == Rebuilding("add")

\* The state has its types; what a rebuild still has to do depends on its phase.
Types ==
    /\ doc \in Docs
    /\ map \in [Components -> Nat]
    /\ inst \in Seq(Instances)
    /\ queue \in Seq(Jobs)
    /\ previews \in [Components -> Values \cup {-1}]
    /\ snaps \in Seq([prev : Docs, next : Docs])
    /\ born \in SUBSET Components
    /\ leaked \in BOOLEAN
    /\ Emptying => Current.ids \in Seq(Nat)
    /\ Filling => Current.ids \in Seq(Components \X Values)

\* Only the first job has begun.
OneAtATime == \A i \in DOMAIN queue : i # 1 => queue[i].phase = "queued"

\* A rebuild that has not begun.
Waits(j) == j.k = "rebuild" /\ j.phase = "queued"
\* A snapshot is awaited by one job at most, and one rebuild at most waits its turn: the
\* one that rebuildScheduled stands for.
Awaits ==
    /\ \A i, j \in DOMAIN queue : queue[i].awaited /\ queue[j].awaited => i = j
    /\ \A i, j \in DOMAIN queue : Waits(queue[i]) /\ Waits(queue[j]) => i = j
    /\ \A i \in DOMAIN queue : Waits(queue[i]) => rebuildScheduled
    /\ \A i \in DOMAIN queue : queue[i].awaited => snapWait # "none"
    /\ snapWait # "none" => snaps # <<>>

\* Every component is born once, and an add or a paste is for one of its own.
Births ==
    /\ doc.comps \subseteq born
    /\ \A c \in Components \ born : map[c] = 0
    /\ \A i \in DOMAIN queue : queue[i].k \in Structural => queue[i].c \in born
    /\ \A i, j \in DOMAIN queue :
          /\ queue[i].k \in Structural /\ queue[j].k \in Structural
          /\ queue[i].c = queue[j].c
          => i = j
    /\ Filling => \A i \in DOMAIN Current.ids : Current.ids[i][1] \in born

\* What is to be added has no instance; behind a rebuild nothing is removed or pasted,
\* and what is added there is not in the document the rebuild reads.
Ordered ==
    /\ \A i \in DOMAIN queue : queue[i].k \in Structural => map[queue[i].c] = 0
    /\ \A i, j \in DOMAIN queue : i < j /\ IsRebuild(queue[i]) =>
          /\ queue[j].k \notin {"remove", "insert"}
          /\ queue[j].k = "add" => queue[j].c \notin doc.comps
    /\ Filling => \A i \in DOMAIN queue : queue[i].k = "add" =>
          \A n \in DOMAIN Current.ids : Current.ids[n][1] # queue[i].c

\* Every living instance is in the map, once, or a queued removal is for it, one; a
\* rebuild that empties the Core still has all of them before it.
Owned ==
    /\ \A c, e \in Components : map[c] = map[e] /\ map[c] # 0 => c = e
    /\ \A i, j \in DOMAIN queue :
          queue[i].k = "remove" /\ queue[j].k = "remove" /\ queue[i].id = queue[j].id => i = j
    /\ Known \cap Doomed = {}
    /\ Emptying => Live = ToSet(Current.ids) /\ IsInjective(Current.ids)
    /\ ~Emptying => Live = Known \cup Doomed
    /\ Filling => /\ \A i \in DOMAIN Current.ids : map[Current.ids[i][1]] = 0
                  /\ \A i, j \in DOMAIN Current.ids :
                        Current.ids[i][1] = Current.ids[j][1] => i = j

\* The inductive invariant.
Sound == Types /\ OneAtATime /\ Awaits /\ Births /\ (~leaked => Ordered /\ Owned)

-----------------------------------------------------------------------------
\* SetToSeq lists the elements of a finite set, each of them once.
LEMMA SetToSeqIs ==
  ASSUME NEW S, IsFiniteSet(S)
  PROVE  /\ SetToSeq(S) \in Seq(S)
         /\ ToSet(SetToSeq(S)) = S
         /\ \A i, j \in DOMAIN SetToSeq(S) : SetToSeq(S)[i] = SetToSeq(S)[j] => i = j
<1> DEFINE n == Cardinality(S)
           P(f) == f \in [1..n -> S] /\ IsInjective(f)
           f == SetToSeq(S)
<1>1. n \in Nat /\ ExistsBijection(1..n, S)
  BY FS_CardinalityType
<1>2. PICK g \in Bijection(1..n, S) : TRUE
  BY <1>1 DEF ExistsBijection
<1>3. g \in [1..n -> S] /\ IsInjective(g)
  BY <1>2 DEF Bijection, Injection, IsInjective
<1>4. f \in [1..n -> S] /\ IsInjective(f)
  BY <1>3 DEF SetToSeq
<1> HIDE DEF f
<1>5. f \in Seq(S) /\ DOMAIN f = 1..n
  BY <1>1, <1>4, SeqDef
<1>6. \A i, j \in DOMAIN f : f[i] = f[j] => i = j
  BY <1>4 DEF IsInjective
<1>7. f \in Injection(1..n, S)
  BY <1>4, <1>6, <1>5 DEF Injection, IsInjective
<1>8. Cardinality(1..n) = n /\ IsFiniteSet(1..n)
  BY <1>1, FS_Interval
<1>9. f \in Surjection(1..n, S)
  BY <1>7, <1>8, FS_Injection
<1>10. ToSet(f) = S
  BY <1>5, <1>9, <1>4 DEF ToSet, Surjection
<1> QED BY <1>5, <1>6, <1>10 DEF f

\* A sequence over a set is one over any larger set.
LEMMA SeqOfMore ==
  ASSUME NEW S, NEW T, S \subseteq T, NEW s \in Seq(S)
  PROVE  s \in Seq(T)
<1>1. s \in [1..Len(s) -> S] /\ Len(s) \in Nat
  BY LenProperties
<1>2. s \in [1..Len(s) -> T]
  BY <1>1
<1> QED BY <1>1, <1>2, SeqDef

-----------------------------------------------------------------------------
(* How the queue changes *)

\* What the invariant tells apart in a job that has not begun.
Alike(a, b) ==
    /\ a.k = b.k
    /\ b.k = "remove" => a.id = b.id
    /\ b.k \in Structural => a.c = b.c

\* The jobs of the queue, without the first d, begin the new queue; what follows is new.
Shifted(d) ==
    /\ queue' \in Seq(Jobs)
    /\ Len(queue') >= Len(queue) - d
    /\ \A i \in 1..(Len(queue) - d) :
          /\ Alike(queue'[i], queue[i + d])
          /\ i + d # 1 => queue'[i].phase = queue[i + d].phase
    /\ \A i \in 1..Len(queue') : i > Len(queue) - d => queue'[i].phase = "queued"

\* The job in progress is where it was.
SameHead ==
    /\ queue # <<>> /\ queue' # <<>>
    /\ Current'.k = Current.k /\ Current'.phase = Current.phase /\ Current'.ids = Current.ids

\* Jobs that concern no instance.
Plain == {"property", "preview", "transaction", "wire"}

\* What is new concerns no instance, or is a rebuild with nothing after it.
Added(d) ==
    \A i \in 1..Len(queue') : i > Len(queue) - d =>
        queue'[i].k \in Plain \/ (i = Len(queue') /\ queue'[i].k \in {"rebuild", "stop"})

\* The queue as a function, and its head.
LEMMA QueueFacts ==
  ASSUME Types
  PROVE  /\ Len(queue) \in Nat /\ DOMAIN queue = 1..Len(queue)
         /\ \A i \in 1..Len(queue) : queue[i] \in Jobs
         /\ queue # <<>> => Len(queue) >= 1 /\ Current = queue[1] /\ Current \in Jobs
         /\ queue = <<>> => Len(queue) = 0
<1>1. queue \in Seq(Jobs)
  BY DEF Types
<1>2. Len(queue) \in Nat /\ DOMAIN queue = 1..Len(queue)
  BY <1>1, LenProperties
<1>3. \A i \in 1..Len(queue) : queue[i] \in Jobs
  BY <1>1, ElementOfSeq
<1>4. queue # <<>> => Len(queue) >= 1
  BY <1>1, <1>2, EmptySeq
<1>5. queue # <<>> => Current = queue[1]
  BY DEF Current
<1> QED BY <1>2, <1>3, <1>4, <1>5, EmptySeq

\* Proceed replaces the head.
LEMMA ProceedShape ==
  ASSUME Types, queue # <<>>, NEW j \in Jobs, queue' = [queue EXCEPT ![1] = j], Alike(j, Current)
  PROVE  Shifted(0) /\ Added(0) /\ queue' # <<>> /\ Current' = j /\ Len(queue') = Len(queue)
<1>1. queue \in Seq(Jobs) /\ Len(queue) \in Nat /\ Len(queue) >= 1 /\ Current = queue[1]
  BY QueueFacts DEF Types
<1>2. queue' \in Seq(Jobs) /\ Len(queue') = Len(queue)
      /\ \A i \in 1..Len(queue) : queue'[i] = IF i = 1 THEN j ELSE queue[i]
  BY <1>1
<1>3. queue' # <<>> /\ Head(queue') = j
  BY <1>1, <1>2
<1>4. ASSUME NEW i \in 1..(Len(queue) - 0)
      PROVE  Alike(queue'[i], queue[i + 0]) /\ (i + 0 # 1 => queue'[i].phase = queue[i + 0].phase)
  <2>1. i \in 1..Len(queue) /\ i + 0 = i
    BY <1>1
  <2>2. CASE i = 1
    <3>1. queue'[i] = j /\ queue[i + 0] = Current
      BY <1>1, <1>2, <2>1, <2>2
    <3> QED BY <3>1, <2>1, <2>2
  <2>3. CASE i # 1
    <3>1. queue'[i] = queue[i + 0]
      BY <1>1, <1>2, <2>1, <2>3
    <3> QED BY <3>1 DEF Alike
  <2> QED BY <2>2, <2>3
<1>5. Shifted(0)
  BY <1>1, <1>2, <1>4 DEF Shifted
<1>6. Added(0)
  <2>1. \A i \in 1..Len(queue') : ~(i > Len(queue) - 0)
    BY <1>1, <1>2
  <2> QED BY <2>1 DEF Added
<1>7. Current' = j
  BY <1>3 DEF Current
<1> QED BY <1>2, <1>3, <1>5, <1>6, <1>7

\* Finish drops the head.
LEMMA FinishShape ==
  ASSUME Types, queue # <<>>, queue' = Tail(queue)
  PROVE  Shifted(1) /\ Added(1) /\ Len(queue') = Len(queue) - 1
         /\ \A i \in 1..(Len(queue) - 1) : queue'[i] = queue[i + 1]
<1>1. queue \in Seq(Jobs) /\ Len(queue) \in Nat /\ Len(queue) >= 1
  BY QueueFacts DEF Types
<1>2. queue' \in Seq(Jobs) /\ Len(queue') = Len(queue) - 1
      /\ \A i \in 1..(Len(queue) - 1) : queue'[i] = queue[i + 1]
  BY <1>1, HeadTailProperties
<1>3. \A i \in 1..(Len(queue) - 1) :
         Alike(queue'[i], queue[i + 1]) /\ queue'[i].phase = queue[i + 1].phase
  BY <1>2 DEF Alike
<1>4. Shifted(1)
  BY <1>1, <1>2, <1>3 DEF Shifted
<1>5. Added(1)
  <2>1. \A i \in 1..Len(queue') : ~(i > Len(queue) - 1)
    BY <1>1, <1>2
  <2> QED BY <2>1 DEF Added
<1> QED BY <1>2, <1>4, <1>5

\* The history in a job can be rewritten without touching what the job is.
LEMMA UndisturbedShape ==
  ASSUME Types, NEW b \in BOOLEAN
  PROVE  LET u == [i \in DOMAIN queue |-> [queue[i] EXCEPT !.undisturbed = @ /\ b]]
         IN /\ u \in Seq(Jobs) /\ Len(u) = Len(queue)
            /\ \A i \in 1..Len(queue) : u[i] = [queue[i] EXCEPT !.undisturbed = @ /\ b]
            /\ \A i \in 1..Len(queue) :
                  /\ u[i].k = queue[i].k /\ u[i].phase = queue[i].phase /\ u[i].c = queue[i].c
                  /\ u[i].id = queue[i].id /\ u[i].ids = queue[i].ids /\ u[i].v = queue[i].v
                  /\ u[i].awaited = queue[i].awaited
<1> DEFINE u == [i \in DOMAIN queue |-> [queue[i] EXCEPT !.undisturbed = @ /\ b]]
<1>1. Len(queue) \in Nat /\ DOMAIN queue = 1..Len(queue) /\ \A i \in 1..Len(queue) : queue[i] \in Jobs
  BY QueueFacts
<1>2. \A j \in Jobs :
         LET x == [j EXCEPT !.undisturbed = @ /\ b]
         IN /\ x \in Jobs /\ x.k = j.k /\ x.phase = j.phase /\ x.c = j.c /\ x.id = j.id
            /\ x.ids = j.ids /\ x.awaited = j.awaited /\ x.v = j.v
  BY DEF Jobs
<1>3. u \in Seq(Jobs) /\ Len(u) = Len(queue)
  BY <1>1, <1>2, SeqDef
<1> QED BY <1>1, <1>2, <1>3

\* An edit adds its job at the end.
LEMMA EnqueuedShape ==
  ASSUME Types, NEW b \in BOOLEAN, NEW j \in Jobs, j.phase = "queued", Enqueued(j, b)
  PROVE  /\ Shifted(0) /\ Len(queue') = Len(queue) + 1 /\ queue'[Len(queue) + 1] = j
         /\ queue # <<>> => SameHead
         /\ j.k \in Plain \cup {"rebuild", "stop"} => Added(0)
         /\ \A i \in 1..Len(queue) : queue'[i].awaited = queue[i].awaited
<1> DEFINE u == [i \in DOMAIN queue |-> [queue[i] EXCEPT !.undisturbed = @ /\ ~b]]
<1>1. Len(queue) \in Nat
  BY QueueFacts
<1>2. /\ u \in Seq(Jobs) /\ Len(u) = Len(queue)
      /\ \A i \in 1..Len(queue) :
                  /\ u[i].k = queue[i].k /\ u[i].phase = queue[i].phase /\ u[i].c = queue[i].c
                  /\ u[i].id = queue[i].id /\ u[i].ids = queue[i].ids /\ u[i].v = queue[i].v
                  /\ u[i].awaited = queue[i].awaited
  <2>1. (~b) \in BOOLEAN
    OBVIOUS
  <2> QED BY <2>1, UndisturbedShape
<1>3. queue' = Append(u, j)
  BY DEF Enqueued, enqueueCoreMutation
<1> HIDE DEF u
<1>4. /\ queue' \in Seq(Jobs) /\ Len(queue') = Len(queue) + 1 /\ queue'[Len(queue) + 1] = j
      /\ \A i \in 1..Len(queue) : queue'[i] = u[i]
  BY <1>2, <1>3, AppendProperties
<1>5. Shifted(0)
  BY <1>1, <1>2, <1>4 DEF Shifted, Alike
<1>6. ASSUME queue # <<>> PROVE SameHead
  <2>1. Len(queue) >= 1 /\ Current = queue[1]
    BY <1>6, QueueFacts
  <2>2. queue' # <<>> /\ Current' = queue'[1]
    BY <1>1, <1>4, <2>1 DEF Current
  <2> QED BY <1>1, <1>2, <1>4, <1>6, <2>1, <2>2 DEF SameHead
<1>7. j.k \in Plain \cup {"rebuild", "stop"} => Added(0)
  BY <1>1, <1>4 DEF Added
<1> QED BY <1>1, <1>2, <1>4, <1>5, <1>6, <1>7

-----------------------------------------------------------------------------
(* What a change of the queue keeps *)

\* Every job of the new queue was in the old one, or is new and has not begun.
LEMMA Origin ==
  ASSUME Types, NEW d \in {0, 1}, Shifted(d), NEW i \in DOMAIN queue'
  PROVE  /\ Len(queue) \in Nat /\ Len(queue') \in Nat /\ i \in 1..Len(queue')
         /\ \/ /\ i + d \in DOMAIN queue /\ Alike(queue'[i], queue[i + d])
               /\ i + d # 1 => queue'[i].phase = queue[i + d].phase
            \/ i > Len(queue) - d /\ queue'[i].phase = "queued"
<1>1. Len(queue) \in Nat /\ DOMAIN queue = 1..Len(queue)
  BY QueueFacts
<1>2. queue' \in Seq(Jobs) /\ Len(queue') \in Nat /\ DOMAIN queue' = 1..Len(queue')
  BY LenProperties DEF Shifted
<1>3. CASE i \in 1..(Len(queue) - d)
  <2>1. i + d \in 1..Len(queue)
    BY <1>1, <1>3
  <2> QED BY <1>1, <1>2, <1>3, <2>1 DEF Shifted
<1>4. CASE i > Len(queue) - d
  BY <1>1, <1>2, <1>4 DEF Shifted
<1> QED BY <1>1, <1>2, <1>3, <1>4

\* Positions shift together.
LEMMA SameShift ==
  ASSUME NEW d \in {0, 1}, NEW i \in Int, NEW j \in Int, i + d = j + d
  PROVE  i = j
OBVIOUS

\* Shifting the queue keeps OneAtATime.
LEMMA KeptOneAtATime ==
  ASSUME Types, OneAtATime, NEW d \in {0, 1}, Shifted(d)
  PROVE  OneAtATime'
<1> SUFFICES ASSUME NEW i \in DOMAIN queue', i # 1
             PROVE  queue'[i].phase = "queued"
  BY DEF OneAtATime
<1>1. i \in Nat /\ i >= 1
  BY Origin
<1>2. CASE i + d \in DOMAIN queue /\ (i + d # 1 => queue'[i].phase = queue[i + d].phase)
  BY <1>1, <1>2 DEF OneAtATime
<1> QED BY <1>2, Origin

\* Adding jobs that concern no instance keeps Births.
LEMMA KeptBirths ==
  ASSUME Types, Births, NEW d \in {0, 1}, Shifted(d), Added(d), UNCHANGED born,
         \A c \in Components \ born : map'[c] = 0, doc'.comps \subseteq born,
         Filling' => SameHead \/ \A i \in DOMAIN Current'.ids : Current'.ids[i][1] \in born
  PROVE  Births'
<1>1. ASSUME NEW i \in DOMAIN queue', queue'[i].k \in Structural
      PROVE  i + d \in DOMAIN queue /\ queue[i + d].k \in Structural
             /\ queue'[i].c = queue[i + d].c /\ i \in Int
  <2>1. ~(i > Len(queue) - d)
    BY <1>1, Origin DEF Added, Plain, Structural
  <2> QED BY <1>1, <2>1, Origin DEF Alike
<1>2. \A i \in DOMAIN queue' : queue'[i].k \in Structural => queue'[i].c \in born
  BY <1>1 DEF Births
<1>3. ASSUME NEW i \in DOMAIN queue', NEW j \in DOMAIN queue',
             queue'[i].k \in Structural, queue'[j].k \in Structural, queue'[i].c = queue'[j].c
      PROVE  i = j
  <2>1. i + d = j + d /\ i \in Int /\ j \in Int
    BY <1>1, <1>3 DEF Births
  <2> QED BY <2>1, SameShift, Zenon
<1>4. ASSUME Filling' PROVE \A i \in DOMAIN Current'.ids : Current'.ids[i][1] \in born
  <2>1. CASE SameHead
    <3>1. Filling
      BY <1>4, <2>1 DEF Filling, Rebuilding, SameHead, IsRebuild
    <3> QED BY <2>1, <3>1 DEF Births, SameHead
  <2> QED BY <1>4, <2>1
<1> QED BY <1>2, <1>3, <1>4 DEF Births

\* It keeps Ordered while what is to be added has no instance and enters no document.
LEMMA KeptOrdered ==
  ASSUME Types, Ordered, NEW d \in {0, 1}, Shifted(d), Added(d),
         \A i \in DOMAIN queue : i > d /\ queue[i].k \in Structural => map'[queue[i].c] = 0,
         \A i \in DOMAIN queue :
             i > d /\ queue[i].k = "add" /\ queue[i].c \in doc'.comps => queue[i].c \in doc.comps,
         Filling' => \/ SameHead /\ d = 0
                     \/ \A i \in DOMAIN queue' : queue'[i].k = "add" =>
                           \A n \in DOMAIN Current'.ids : Current'.ids[n][1] # queue'[i].c
  PROVE  Ordered'
<1>1. ASSUME NEW i \in DOMAIN queue', queue'[i].k \in Structural \cup {"remove"}
      PROVE  i + d \in DOMAIN queue /\ queue[i + d].k = queue'[i].k
             /\ (queue'[i].k \in Structural => queue'[i].c = queue[i + d].c)
             /\ i \in Int /\ i + d > d
  <2>1. ~(i > Len(queue) - d)
    BY <1>1, Origin DEF Added, Plain, Structural
  <2> QED BY <1>1, <2>1, Origin DEF Alike
<1>2. \A i \in DOMAIN queue' : queue'[i].k \in Structural => map'[queue'[i].c] = 0
  BY <1>1
<1>3. ASSUME NEW i \in DOMAIN queue', NEW j \in DOMAIN queue', i < j, IsRebuild(queue'[i]),
             queue'[j].k \in Structural \cup {"remove"}
      PROVE  queue'[j].k = "add" /\ queue'[j].c \notin doc'.comps
  <2>1. j + d \in DOMAIN queue /\ queue[j + d].k = queue'[j].k /\ j \in Int /\ j + d > d
        /\ (queue'[j].k \in Structural => queue'[j].c = queue[j + d].c)
    BY <1>1, <1>3
  <2>2. i + d \in DOMAIN queue /\ i \in Int /\ i + d < j + d /\ IsRebuild(queue[i + d])
    <3>1. ~(i > Len(queue) - d)
      BY <1>3, <2>1, QueueFacts, Origin
    <3>2. i + d \in DOMAIN queue /\ Alike(queue'[i], queue[i + d]) /\ i \in Int
      BY <3>1, Origin
    <3> QED BY <1>3, <2>1, <3>2 DEF Alike, IsRebuild
  <2> QED BY <1>3, <2>1, <2>2 DEF Ordered, Structural
<1>4. ASSUME Filling', NEW i \in DOMAIN queue', queue'[i].k = "add", NEW n \in DOMAIN Current'.ids
      PROVE  Current'.ids[n][1] # queue'[i].c
  <2>1. CASE SameHead /\ d = 0
    <3>1. Filling
      BY <1>4, <2>1 DEF Filling, Rebuilding, SameHead, IsRebuild
    <3>2. i \in DOMAIN queue /\ queue[i].k = "add" /\ queue'[i].c = queue[i].c
      BY <1>1, <1>4, <2>1 DEF Structural
    <3> QED BY <1>4, <2>1, <3>1, <3>2 DEF Ordered, SameHead
  <2> QED BY <1>4, <2>1
<1> QED BY <1>2, <1>3, <1>4 DEF Ordered, Structural

\* It dooms no instance and saves none.
LEMMA KeptDoomed ==
  ASSUME Types, NEW d \in {0, 1}, Shifted(d), Added(d),
         d = 1 => queue # <<>> /\ Current.k # "remove"
  PROVE  /\ Doomed' = Doomed
         /\ \A i \in DOMAIN queue' : queue'[i].k = "remove" =>
               i + d \in DOMAIN queue /\ queue[i + d].k = "remove" /\ i \in Int
               /\ queue'[i].id = queue[i + d].id
<1>1. ASSUME NEW i \in DOMAIN queue', queue'[i].k = "remove"
      PROVE  i + d \in DOMAIN queue /\ queue[i + d].k = "remove" /\ i \in Int
             /\ queue'[i].id = queue[i + d].id
  <2>1. ~(i > Len(queue) - d)
    BY <1>1, Origin DEF Added, Plain
  <2> QED BY <1>1, <2>1, Origin DEF Alike
<1>2. ASSUME NEW i \in DOMAIN queue, queue[i].k = "remove"
      PROVE  i - d \in DOMAIN queue' /\ queue'[i - d].k = "remove" /\ queue'[i - d].id = queue[i].id
  <2>1. Len(queue) \in Nat /\ i \in 1..Len(queue) /\ i > d
    BY <1>2, QueueFacts
  <2>2. i - d \in 1..(Len(queue) - d) /\ (i - d) + d = i
    BY <2>1
  <2>3. Alike(queue'[i - d], queue[i])
    BY <2>2 DEF Shifted
  <2>4. i - d \in DOMAIN queue'
    BY <2>1, <2>2, LenProperties DEF Shifted
  <2> QED BY <1>2, <2>3, <2>4 DEF Alike
<1>3. Doomed' \subseteq Doomed
  BY <1>1 DEF Doomed
<1>4. Doomed \subseteq Doomed'
  BY <1>2 DEF Doomed
<1> QED BY <1>1, <1>3, <1>4

\* It keeps Owned while the map and the instances stay.
LEMMA KeptOwned ==
  ASSUME Types, Owned, NEW d \in {0, 1}, Shifted(d), Added(d),
         d = 1 => queue # <<>> /\ Current.k # "remove",
         UNCHANGED map, Live' = Live,
         SameHead \/ (~Emptying /\ ~Emptying' /\ ~Filling')
  PROVE  Owned'
<1>1. Known' = Known
  BY DEF Known
<1>2. Doomed' = Doomed
  BY KeptDoomed
<1>3. ASSUME NEW i \in DOMAIN queue', NEW j \in DOMAIN queue',
             queue'[i].k = "remove", queue'[j].k = "remove", queue'[i].id = queue'[j].id
      PROVE  i = j
  <2>1. i + d = j + d /\ i \in Int /\ j \in Int
    BY <1>3, KeptDoomed DEF Owned
  <2> QED BY <2>1
<1>4. ASSUME SameHead
      PROVE  (Emptying' <=> Emptying) /\ (Filling' <=> Filling) /\ Current'.ids = Current.ids
  BY <1>4 DEF Emptying, Filling, Rebuilding, SameHead, IsRebuild
<1>5. Emptying' => Emptying /\ Current'.ids = Current.ids
  BY <1>4
<1>6. Filling' => Filling /\ Current'.ids = Current.ids
  BY <1>4
<1>7. ~Emptying' => ~Emptying
  BY <1>4
<1> QED BY <1>1, <1>2, <1>3, <1>5, <1>6, <1>7 DEF Owned

-----------------------------------------------------------------------------
(* More changes of the queue *)

\* The queue after queueCoreRebuild: a rebuild more, or the one that waits.
LEMMA RebuildShape ==
  ASSUME NEW q \in Seq(Jobs), NEW a \in BOOLEAN, queueCoreRebuild(q, a)
  PROVE  /\ queue' \in Seq(Jobs) /\ Len(q) \in Nat
         /\ Len(queue') = IF rebuildScheduled THEN Len(q) ELSE Len(q) + 1
         /\ \A i \in 1..Len(q) :
               /\ queue'[i].k = q[i].k /\ queue'[i].phase = q[i].phase /\ queue'[i].c = q[i].c
               /\ queue'[i].id = q[i].id /\ queue'[i].ids = q[i].ids /\ queue'[i].v = q[i].v
               /\ queue'[i].awaited <=> q[i].awaited \/ (rebuildScheduled /\ Waits(q[i]) /\ a)
         /\ ~rebuildScheduled => /\ queue'[Len(q) + 1].k = "rebuild"
                                 /\ queue'[Len(q) + 1].phase = "queued"
                                 /\ queue'[Len(q) + 1].awaited = a
<1>0. Len(q) \in Nat /\ DOMAIN q = 1..Len(q) /\ \A i \in 1..Len(q) : q[i] \in Jobs
  BY LenProperties, ElementOfSeq
<1>1. CASE rebuildScheduled
  <2> DEFINE new(j) == IF j.k = "rebuild" /\ j.phase = "queued"
                       THEN [j EXCEPT !.awaited = @ \/ a] ELSE j
  <2>1. \A j \in Jobs :
            /\ new(j) \in Jobs
            /\ new(j).k = j.k /\ new(j).phase = j.phase /\ new(j).c = j.c
            /\ new(j).id = j.id /\ new(j).ids = j.ids /\ new(j).v = j.v
            /\ new(j).awaited <=> j.awaited \/ (Waits(j) /\ a)
    <3> SUFFICES ASSUME NEW j \in Jobs
                 PROVE  /\ new(j) \in Jobs
                        /\ new(j).k = j.k /\ new(j).phase = j.phase /\ new(j).c = j.c
                        /\ new(j).id = j.id /\ new(j).ids = j.ids /\ new(j).v = j.v
                        /\ new(j).awaited <=> j.awaited \/ (Waits(j) /\ a)
      OBVIOUS
    <3>1. CASE Waits(j)
      <4>1. new(j) = [j EXCEPT !.awaited = @ \/ a]
        BY <3>1 DEF Waits
      <4> QED BY <4>1, <3>1 DEF Jobs
    <3>2. CASE ~Waits(j)
      <4>1. new(j) = j
        BY <3>2 DEF Waits
      <4> QED BY <4>1, <3>2
    <3> QED BY <3>1, <3>2
  <2>2. queue' = [i \in 1..Len(q) |-> new(q[i])]
    BY <1>0, <1>1 DEF queueCoreRebuild
  <2> HIDE DEF new
  <2>3. queue' \in Seq(Jobs) /\ Len(queue') = Len(q)
    BY <1>0, <2>1, <2>2, SeqDef
  <2> QED BY <1>0, <1>1, <2>1, <2>2, <2>3
<1>2. CASE ~rebuildScheduled
  <2> DEFINE j == [Job("rebuild") EXCEPT !.awaited = a]
  <2>1. j \in Jobs /\ j.k = "rebuild" /\ j.phase = "queued" /\ j.awaited = a
    BY ValuesAssumption, EmptySeq DEF Job, Jobs, Kinds, Phases, Structural
  <2>2. queue' = Append(q, j)
    BY <1>2 DEF queueCoreRebuild, enqueueCoreMutation
  <2> HIDE DEF j
  <2> QED BY <1>0, <1>2, <2>1, <2>2, AppendProperties
<1> QED BY <1>1, <1>2

\* Whoever awaits the shared rebuild is the only one.
LEMMA RebuildKeepsAwaits ==
  ASSUME NEW q \in Seq(Jobs), NEW a \in BOOLEAN, queueCoreRebuild(q, a),
         \A i, j \in 1..Len(q) : q[i].awaited /\ q[j].awaited => i = j,
         \A i, j \in 1..Len(q) : Waits(q[i]) /\ Waits(q[j]) => i = j,
         \A i \in 1..Len(q) : Waits(q[i]) => rebuildScheduled,
         a => \A i \in 1..Len(q) : ~q[i].awaited,
         (a \/ \E i \in 1..Len(q) : q[i].awaited) => snapWait' # "none",
         snapWait' # "none" => snaps' # <<>>
  PROVE  Awaits'
<1>0. /\ queue' \in Seq(Jobs) /\ Len(q) \in Nat
      /\ Len(queue') = IF rebuildScheduled THEN Len(q) ELSE Len(q) + 1
      /\ \A i \in 1..Len(q) :
               /\ Waits(queue'[i]) <=> Waits(q[i])
               /\ queue'[i].awaited <=> q[i].awaited \/ (rebuildScheduled /\ Waits(q[i]) /\ a)
      /\ ~rebuildScheduled => queue'[Len(q) + 1].awaited = a
  BY RebuildShape DEF Waits
<1>1. DOMAIN queue' = 1..Len(queue')
  BY <1>0, LenProperties
<1>2. rebuildScheduled'
  BY DEF queueCoreRebuild
<1>3. \A i, j \in DOMAIN queue' : queue'[i].awaited /\ queue'[j].awaited => i = j
  BY <1>0, <1>1
<1>4. \A i, j \in DOMAIN queue' : Waits(queue'[i]) /\ Waits(queue'[j]) => i = j
  BY <1>0, <1>1
<1>5. \A i \in DOMAIN queue' : queue'[i].awaited => snapWait' # "none"
  BY <1>0, <1>1
<1> QED BY <1>2, <1>3, <1>4, <1>5 DEF Awaits

\* queueCoreRebuild behind the whole queue, in the terms of Shifted and Added.
LEMMA RebuildLater ==
  ASSUME Types, NEW a \in BOOLEAN, queueCoreRebuild(queue, a)
  PROVE  Shifted(0) /\ Added(0) /\ (queue # <<>> => SameHead)
<1>1. queue \in Seq(Jobs) /\ Len(queue) \in Nat
  BY QueueFacts DEF Types
<1>2. /\ queue' \in Seq(Jobs) /\ Len(queue) \in Nat
      /\ Len(queue') = IF rebuildScheduled THEN Len(queue) ELSE Len(queue) + 1
      /\ \A i \in 1..Len(queue) :
               /\ queue'[i].k = queue[i].k /\ queue'[i].phase = queue[i].phase
               /\ queue'[i].c = queue[i].c /\ queue'[i].id = queue[i].id
               /\ queue'[i].ids = queue[i].ids
      /\ ~rebuildScheduled => /\ queue'[Len(queue) + 1].k = "rebuild"
                              /\ queue'[Len(queue) + 1].phase = "queued"
  BY <1>1, RebuildShape
<1>3. Shifted(0)
  BY <1>2 DEF Shifted, Alike
<1>4. Added(0)
  BY <1>2 DEF Added
<1>5. ASSUME queue # <<>> PROVE SameHead
  <2>1. Len(queue) >= 1 /\ Current = queue[1]
    BY <1>5, QueueFacts
  <2>2. queue' # <<>> /\ Current' = queue'[1]
    BY <1>2, <2>1 DEF Current
  <2> QED BY <1>2, <1>5, <2>1, <2>2 DEF SameHead
<1> QED BY <1>3, <1>4, <1>5

\* queueCoreRebuild in the place of the job that failed.
LEMMA RebuildInstead ==
  ASSUME Types, queue # <<>>, NEW a \in BOOLEAN, queueCoreRebuild(Tail(queue), a)
  PROVE  Shifted(1) /\ Added(1)
<1>1. queue \in Seq(Jobs) /\ Len(queue) \in Nat /\ Len(queue) >= 1
  BY QueueFacts DEF Types
<1> DEFINE q == Tail(queue)
<1>2. q \in Seq(Jobs) /\ Len(q) = Len(queue) - 1
      /\ \A i \in 1..(Len(queue) - 1) : q[i] = queue[i + 1]
  BY <1>1, HeadTailProperties
<1>0. queueCoreRebuild(q, a)
  OBVIOUS
<1> HIDE DEF q
<1>3. /\ queue' \in Seq(Jobs)
      /\ Len(queue') = IF rebuildScheduled THEN Len(q) ELSE Len(q) + 1
      /\ \A i \in 1..Len(q) :
               /\ queue'[i].k = q[i].k /\ queue'[i].phase = q[i].phase
               /\ queue'[i].c = q[i].c /\ queue'[i].id = q[i].id
               /\ queue'[i].ids = q[i].ids
      /\ ~rebuildScheduled => /\ queue'[Len(q) + 1].k = "rebuild"
                              /\ queue'[Len(q) + 1].phase = "queued"
  BY <1>0, <1>2, RebuildShape, ZenonT(40)
<1>4. Shifted(1)
  BY <1>1, <1>2, <1>3 DEF Shifted, Alike
<1>5. Added(1)
  BY <1>1, <1>2, <1>3 DEF Added
<1> QED BY <1>4, <1>5

-----------------------------------------------------------------------------
(* Steps that leave the map alone *)

\* Awaits is kept when jobs only disappear or stop being awaited.
LEMMA KeptAwaits ==
  ASSUME Types, Awaits, NEW d \in {0, 1}, Shifted(d),
         \A i \in DOMAIN queue' : queue'[i].awaited => i + d \in DOMAIN queue /\ queue[i + d].awaited,
         \A i \in DOMAIN queue' : Waits(queue'[i]) => i + d \in DOMAIN queue /\ Waits(queue[i + d]),
         UNCHANGED <<rebuildScheduled, snapWait>>, snapWait # "none" => snaps' # <<>>
  PROVE  Awaits'
<1>1. \A i \in DOMAIN queue' : i \in Int
  BY Origin
<1>2. ASSUME NEW i \in DOMAIN queue', NEW j \in DOMAIN queue', queue'[i].awaited, queue'[j].awaited
      PROVE  i = j
  <2>1. i + d = j + d
    BY <1>2 DEF Awaits
  <2> QED BY <1>1, <2>1, SameShift, Zenon
<1>3. ASSUME NEW i \in DOMAIN queue', NEW j \in DOMAIN queue', Waits(queue'[i]), Waits(queue'[j])
      PROVE  i = j
  <2>1. i + d = j + d
    BY <1>3 DEF Awaits
  <2> QED BY <1>1, <2>1, SameShift, Zenon
<1>4. /\ \A i \in DOMAIN queue' : Waits(queue'[i]) => rebuildScheduled'
      /\ \A i \in DOMAIN queue' : queue'[i].awaited => snapWait' # "none"
      /\ snapWait' # "none" => snaps' # <<>>
  BY DEF Awaits
<1> QED BY <1>2, <1>3, <1>4 DEF Awaits

\* The invariant is kept by a step that shifts the queue and leaves map and Core alone.
LEMMA KeptSound ==
  ASSUME Sound, NEW d \in {0, 1}, Shifted(d), Added(d),
         d = 1 => queue # <<>> /\ Current.k # "remove",
         UNCHANGED <<map, born, leaked>>, doc' \in Docs, doc'.comps = doc.comps,
         inst' \in Seq(Instances), Live' = Live,
         previews' \in [Components -> Values \cup {-1}],
         snaps' \in Seq([prev : Docs, next : Docs]),
         (SameHead /\ d = 0) \/ (~Emptying /\ ~Emptying' /\ ~Filling'),
         Awaits'
  PROVE  Sound'
<1>1. Types /\ OneAtATime /\ Births
  BY DEF Sound
<1>2. SameHead => (Emptying' <=> Emptying) /\ (Filling' <=> Filling) /\ Current'.ids = Current.ids
  BY DEF Emptying, Filling, Rebuilding, SameHead, IsRebuild
<1>3. Types'
  BY <1>1, <1>2 DEF Types, Shifted
<1>4. OneAtATime'
  BY <1>1, KeptOneAtATime
<1>5. Births'
  <2>1. doc'.comps \subseteq born /\ \A c \in Components \ born : map'[c] = 0
    BY <1>1 DEF Births
  <2> QED BY <1>1, <2>1, KeptBirths
<1>6. ASSUME ~leaked' PROVE Ordered' /\ Owned'
  <2>1. Ordered /\ Owned
    BY <1>6 DEF Sound
  <2>2. Ordered'
    <3>1. \A i \in DOMAIN queue : queue[i].k \in Structural => map'[queue[i].c] = 0
      BY <2>1 DEF Ordered
    <3> QED BY <1>1, <2>1, <3>1, KeptOrdered
  <2>3. Owned'
    BY <1>1, <2>1, KeptOwned
  <2> QED BY <2>2, <2>3
<1> QED BY <1>3, <1>4, <1>5, <1>6 DEF Sound

\* A job that goes on awaits and is awaited as before.
LEMMA ProceedAwaits ==
  ASSUME Types, Awaits, queue # <<>>, NEW j \in Jobs, queue' = [queue EXCEPT ![1] = j],
         Alike(j, Current), j.awaited = Current.awaited, Waits(j) => Waits(Current),
         UNCHANGED <<rebuildScheduled, snaps, snapWait>>
  PROVE  Awaits'
<1>0. Shifted(0)
  BY ProceedShape
<1>1. /\ queue \in Seq(Jobs) /\ Len(queue) \in Nat /\ Len(queue) >= 1 /\ Current = queue[1]
      /\ DOMAIN queue = 1..Len(queue)
  BY QueueFacts DEF Types
<1>2. DOMAIN queue' = 1..Len(queue) /\ \A i \in 1..Len(queue) : queue'[i] = IF i = 1 THEN j ELSE queue[i]
  BY <1>1
<1>3. \A i \in DOMAIN queue' : i + 0 = i /\ i \in DOMAIN queue
  BY <1>1, <1>2
<1>4. \A i \in DOMAIN queue' : queue'[i].awaited => queue[i].awaited
  BY <1>1, <1>2
<1>5. \A i \in DOMAIN queue' : Waits(queue'[i]) => Waits(queue[i])
  BY <1>1, <1>2
<1>6. snapWait # "none" => snaps' # <<>>
  BY DEF Awaits
<1> QED BY <1>0, <1>3, <1>4, <1>5, <1>6, KeptAwaits

\* The job in progress goes on.
LEMMA SoundProceed ==
  ASSUME Sound, queue # <<>>, NEW j \in Jobs, queue' = [queue EXCEPT ![1] = j],
         Alike(j, Current), j.awaited = Current.awaited, Waits(j) => Waits(Current),
         ~Emptying, ~(IsRebuild(j) /\ j.phase \in {"remove", "add"}),
         UNCHANGED <<doc, map, born, leaked, rebuildScheduled, snaps, snapWait>>,
         inst' \in Seq(Instances), Live' = Live,
         previews' \in [Components -> Values \cup {-1}]
  PROVE  Sound'
<1>1. Types /\ Awaits
  BY DEF Sound
<1>2. Shifted(0) /\ Added(0) /\ queue' # <<>> /\ Current' = j /\ Len(queue') = Len(queue)
  BY <1>1, ProceedShape
<1>3. Awaits'
  BY <1>1, ProceedAwaits
<1>4. ~Emptying' /\ ~Filling'
  BY <1>2 DEF Emptying, Filling, Rebuilding, IsRebuild
<1>5. doc' \in Docs /\ doc'.comps = doc.comps /\ snaps' \in Seq([prev : Docs, next : Docs])
  BY <1>1 DEF Types
<1> QED BY <1>2, <1>3, <1>4, <1>5, KeptSound

\* The job in progress ends, and with it the wait of its snapshot.
LEMMA SoundFinish ==
  ASSUME Sound, queue # <<>>, queue' = Tail(queue), Current.k # "remove", ~Emptying,
         UNCHANGED <<doc, map, born, leaked, rebuildScheduled>>,
         \/ UNCHANGED <<snaps, snapWait>>
         \/ /\ snaps' = (IF Current.awaited THEN Tail(snaps) ELSE snaps)
            /\ snapWait' = (IF Current.awaited THEN "none" ELSE snapWait),
         inst' \in Seq(Instances), Live' = Live,
         previews' \in [Components -> Values \cup {-1}]
  PROVE  Sound'
<1>1. Types /\ Awaits /\ OneAtATime
  BY DEF Sound
<1>2. Shifted(1) /\ Added(1) /\ Len(queue') = Len(queue) - 1
      /\ \A i \in 1..(Len(queue) - 1) : queue'[i] = queue[i + 1]
  BY <1>1, FinishShape
<1>3. /\ Len(queue) \in Nat /\ Len(queue) >= 1 /\ Current = queue[1] /\ Current \in Jobs
      /\ DOMAIN queue = 1..Len(queue)
  BY <1>1, QueueFacts
<1>4. DOMAIN queue' = 1..(Len(queue) - 1)
  BY <1>2, <1>3, LenProperties DEF Shifted
<1>5. \A i \in DOMAIN queue' : i + 1 \in DOMAIN queue /\ queue'[i] = queue[i + 1] /\ i + 1 # 1
  BY <1>2, <1>3, <1>4
<1>6. Awaits' /\ snaps' \in Seq([prev : Docs, next : Docs])
  <2>1. CASE Current.awaited /\ snaps' = Tail(snaps) /\ snapWait' = "none"
    <3>1. snapWait # "none" /\ snaps # <<>>
      BY <1>3, <2>1 DEF Awaits, Sound
    <3>2. snaps' \in Seq([prev : Docs, next : Docs])
      BY <1>1, <2>1, <3>1, HeadTailProperties DEF Types
    <3>3. \A i \in DOMAIN queue' : ~queue'[i].awaited
      <4>1. 1 \in DOMAIN queue
        BY <1>3
      <4>2. \A i \in DOMAIN queue : queue[i].awaited => i = 1
        BY <1>1, <1>3, <2>1, <4>1 DEF Awaits
      <4> QED BY <1>5, <4>2
    <3>4. ASSUME NEW i \in DOMAIN queue', NEW j \in DOMAIN queue',
                 Waits(queue'[i]), Waits(queue'[j])
          PROVE  i = j
      <4>1. i + 1 = j + 1
        BY <1>1, <1>5, <3>4 DEF Awaits
      <4>2. i \in Int /\ j \in Int
        BY <1>3, <1>4
      <4> QED BY <4>1, <4>2
    <3>5. \A i \in DOMAIN queue' : Waits(queue'[i]) => rebuildScheduled'
      BY <1>1, <1>5 DEF Awaits
    <3> QED BY <2>1, <3>2, <3>3, <3>4, <3>5 DEF Awaits
  <2>2. CASE UNCHANGED <<snaps, snapWait>>
    <3>1. snapWait # "none" => snaps' # <<>>
      BY <1>1, <2>2 DEF Awaits
    <3>2. snaps' \in Seq([prev : Docs, next : Docs])
      BY <1>1, <2>2 DEF Types
    <3> QED BY <1>1, <1>2, <1>5, <2>2, <3>1, <3>2, KeptAwaits
  <2>3. Current.awaited \in BOOLEAN
    BY <1>3 DEF Jobs
  <2> QED BY <2>1, <2>2, <2>3
<1>7. ~Emptying' /\ ~Filling'
  <2> SUFFICES ASSUME queue' # <<>> PROVE Current'.phase = "queued"
    BY DEF Emptying, Filling, Rebuilding
  <2>1. Len(queue') >= 1 /\ Current' = queue'[1]
    BY <1>2, <1>3 DEF Current, Shifted
  <2>2. 1 \in DOMAIN queue'
    BY <1>2, <1>3, <1>4, <2>1
  <2> QED BY <1>1, <1>5, <2>1, <2>2 DEF OneAtATime
<1>8. doc' \in Docs /\ doc'.comps = doc.comps
  BY <1>1 DEF Types
<1> QED BY <1>2, <1>6, <1>7, <1>8, KeptSound

\* A job nobody awaits is added.
LEMMA EnqueuedAwaits ==
  ASSUME Types, Awaits, NEW b \in BOOLEAN, NEW j \in Jobs, Enqueued(j, b), j.phase = "queued",
         ~Waits(j), ~j.awaited, UNCHANGED <<snaps, snapWait>>
  PROVE  Awaits'
<1>2. /\ Shifted(0) /\ (queue # <<>> => SameHead)
      /\ Len(queue') = Len(queue) + 1 /\ queue'[Len(queue) + 1] = j
      /\ \A i \in 1..Len(queue) : queue'[i].awaited = queue[i].awaited
  BY EnqueuedShape
<1>3. /\ Len(queue) \in Nat /\ DOMAIN queue = 1..Len(queue) /\ DOMAIN queue' = 1..(Len(queue) + 1)
      /\ \A i \in 1..Len(queue) : i + 0 = i
  BY <1>2, QueueFacts, LenProperties DEF Shifted
<1>5. \A i \in DOMAIN queue' : queue'[i].awaited => i + 0 \in DOMAIN queue /\ queue[i + 0].awaited
  BY <1>2, <1>3
<1>6. ASSUME NEW i \in DOMAIN queue', Waits(queue'[i])
      PROVE  i + 0 \in DOMAIN queue /\ Waits(queue[i + 0])
  <2>1. i \in 1..Len(queue)
    BY <1>2, <1>3, <1>6
  <2>2. queue'[i].k = queue[i].k /\ (i # 1 => queue'[i].phase = queue[i].phase)
    <3>1. i \in 1..(Len(queue) - 0)
      BY <1>3, <2>1
    <3> QED BY <1>2, <1>3, <2>1, <3>1 DEF Shifted, Alike
  <2>3. i = 1 => queue'[i].phase = queue[i].phase
    <3> SUFFICES ASSUME i = 1 PROVE queue'[1].phase = queue[1].phase
      OBVIOUS
    <3>1. queue # <<>> /\ queue' # <<>>
      BY <1>2, <1>3, <2>1, QueueFacts DEF SameHead
    <3>2. Current = queue[1] /\ Current' = queue'[1]
      BY <3>1 DEF Current
    <3> QED BY <1>2, <3>1, <3>2 DEF SameHead
  <2> QED BY <1>3, <1>6, <2>1, <2>2, <2>3 DEF Waits
<1> QED
  <2>1. snapWait # "none" => snaps' # <<>>
    BY DEF Awaits
  <2>2. UNCHANGED rebuildScheduled
    BY DEF Enqueued
  <2> QED BY <1>2, <1>5, <1>6, <2>1, <2>2, KeptAwaits

\* An edit that concerns no instance.
LEMMA SoundEnqueue ==
  ASSUME Sound, NEW b \in BOOLEAN, NEW j \in Jobs, Enqueued(j, b), j.phase = "queued",
         j.k \in Plain \cup {"stop"}, ~j.awaited,
         UNCHANGED <<map, inst, born, leaked, snaps, snapWait>>,
         doc' \in Docs, doc'.comps = doc.comps,
         previews' \in [Components -> Values \cup {-1}]
  PROVE  Sound'
<1>1. Types /\ Awaits
  BY DEF Sound
<1>2. /\ Shifted(0) /\ Added(0) /\ (queue # <<>> => SameHead)
      /\ Len(queue') = Len(queue) + 1 /\ queue'[Len(queue) + 1] = j
  BY <1>1, EnqueuedShape
<1>3. Awaits'
  <2>1. ~Waits(j)
    BY DEF Waits, Plain
  <2> QED BY <1>1, <2>1, EnqueuedAwaits
<1>8. Live' = Live /\ inst' \in Seq(Instances) /\ snaps' \in Seq([prev : Docs, next : Docs])
  BY <1>1 DEF Live, Types
<1>9. queue = <<>> => ~Emptying /\ ~Emptying' /\ ~Filling'
  <2> SUFFICES ASSUME queue = <<>> PROVE ~Emptying /\ ~Emptying' /\ ~Filling'
    OBVIOUS
  <2>1. Len(queue) = 0
    BY <1>1, QueueFacts
  <2>2. queue'[1].phase = "queued" /\ Current' = queue'[1]
    BY <1>2, <2>1 DEF Current
  <2> QED BY <2>2 DEF Emptying, Filling, Rebuilding
<1> QED BY <1>2, <1>3, <1>8, <1>9, KeptSound

-----------------------------------------------------------------------------
(* The steps of a job that concern no instance *)

\* Live depends on the instances alone.
LEMMA AliveSame ==
  ASSUME UNCHANGED inst
  PROVE  Live' = Live
BY DEF Live

\* Setting a property, or refusing to, concerns one instance and starts and ends none.
LEMMA SetSays ==
  ASSUME Types, NEW i, NEW v \in Values,
         \/ inst' = [inst EXCEPT ![i].val = v, ![i].denied = -1]
         \/ inst' = [inst EXCEPT ![i].denied = v]
         \/ inst' = [inst EXCEPT ![i].val = v]
         \/ inst' = inst
  PROVE  /\ inst' \in Seq(Instances) /\ Live' = Live /\ DOMAIN inst' = DOMAIN inst
         /\ \A n \in DOMAIN inst : inst'[n].live = inst[n].live
         /\ \A n \in DOMAIN inst : n # i => inst'[n] = inst[n]
<1>1. inst \in Seq(Instances) /\ DOMAIN inst = 1..Len(inst) /\ Len(inst) \in Nat
      /\ \A n \in 1..Len(inst) : inst[n] \in Instances
  BY LenProperties, ElementOfSeq DEF Types
<1>2. CASE UNCHANGED inst
  BY <1>1, <1>2 DEF Live
<1>3. CASE i \notin DOMAIN inst
  <2>1. inst' = inst
    BY <1>1, <1>3
  <2> QED BY <1>2, <2>1
<1>4. CASE i \in DOMAIN inst /\ inst' # inst
  <2>1. inst[i] \in Instances
    BY <1>1, <1>4
  <2>2. PICK r : inst' = [inst EXCEPT ![i] = r] /\ r \in Instances /\ r.live = inst[i].live
    <3>1. CASE inst' = [inst EXCEPT ![i].val = v, ![i].denied = -1]
      <4> DEFINE r == [[inst[i] EXCEPT !.val = v] EXCEPT !.denied = -1]
      <4>1. r \in Instances /\ r.live = inst[i].live
        BY <2>1 DEF Instances
      <4>2. inst' = [inst EXCEPT ![i] = r]
        BY <1>1, <1>4, <3>1
      <4> QED BY <4>1, <4>2
    <3>2. CASE inst' = [inst EXCEPT ![i].denied = v]
      <4> DEFINE r == [inst[i] EXCEPT !.denied = v]
      <4>1. r \in Instances /\ r.live = inst[i].live
        BY <2>1 DEF Instances
      <4>2. inst' = [inst EXCEPT ![i] = r]
        BY <1>1, <1>4, <3>2
      <4> QED BY <4>1, <4>2
    <3>3. CASE inst' = [inst EXCEPT ![i].val = v]
      <4> DEFINE r == [inst[i] EXCEPT !.val = v]
      <4>1. r \in Instances /\ r.live = inst[i].live
        BY <2>1 DEF Instances
      <4>2. inst' = [inst EXCEPT ![i] = r]
        BY <1>1, <1>4, <3>3
      <4> QED BY <4>1, <4>2
    <3> QED BY <1>4, <3>1, <3>2, <3>3
  <2>3. inst' \in Seq(Instances) /\ DOMAIN inst' = DOMAIN inst
    BY <1>1, <1>4, <2>2
  <2>4. \A n \in DOMAIN inst : inst'[n] = IF n = i THEN r ELSE inst[n]
    BY <1>1, <1>4, <2>2
  <2>5. \A n \in DOMAIN inst : inst'[n].live = inst[n].live
    BY <2>2, <2>4
  <2>6. Live' = Live
    BY <2>3, <2>5 DEF Live
  <2> QED BY <2>3, <2>4, <2>5, <2>6
<1> QED BY <1>2, <1>3, <1>4

\* The ids of the endpoints make a sequence of ids.
LEMMA PairIsFinite ==
  ASSUME Types
  PROVE  SetToSeq(Pair) \in Seq(Nat \cup (Components \X Values)) /\ SetToSeq(Pair) \in Seq(Nat)
<1>1. IsFiniteSet(Ends)
  BY EndsAssumption, ComponentsAssumption, FS_Subset
<1> DEFINE f == [c \in Ends |-> map[c]]
<1>2. f \in Surjection(Ends, Pair)
  BY EndsAssumption DEF Surjection, Pair
<1>3. IsFiniteSet(Pair)
  BY <1>1, <1>2, FS_Surjection
<1>4. Pair \subseteq Nat
  BY EndsAssumption DEF Pair, Types
<1>5. SetToSeq(Pair) \in Seq(Pair)
  BY <1>3, SetToSeqIs
<1>6. Pair \subseteq Nat \cup (Components \X Values)
  BY <1>4
<1> QED BY <1>4, <1>5, <1>6, SeqOfMore

\* A transaction that fails leaves a rebuild behind, awaited by whom awaited it.
LEMMA SoundRebuildInstead ==
  ASSUME Sound, queue # <<>>, Current.k = "transaction",
         queueCoreRebuild(Tail(queue), Current.awaited),
         snapWait' = (IF Current.awaited THEN "rebuild" ELSE snapWait),
         UNCHANGED <<doc, map, inst, born, leaked, snaps, previews>>
  PROVE  Sound'
<1>1. Types /\ Awaits /\ OneAtATime
  BY DEF Sound
<1>2. /\ queue \in Seq(Jobs) /\ Len(queue) \in Nat /\ Len(queue) >= 1 /\ Current = queue[1]
      /\ Current \in Jobs /\ Current.awaited \in BOOLEAN /\ DOMAIN queue = 1..Len(queue)
  BY <1>1, QueueFacts DEF Types, Jobs
<1> DEFINE q == Tail(queue)
           a == Current.awaited
<1>3. q \in Seq(Jobs) /\ Len(q) = Len(queue) - 1 /\ \A i \in 1..Len(q) : q[i] = queue[i + 1]
  BY <1>2, HeadTailProperties
<1> HIDE DEF q
<1>4. \A i \in 1..Len(q) : i + 1 \in DOMAIN queue /\ q[i] = queue[i + 1] /\ i \in Int /\ i + 1 # 1
  BY <1>2, <1>3
<1>5. Shifted(1) /\ Added(1)
  BY <1>1, <1>2, RebuildInstead
<1>6. Awaits'
  <2>1. \A i, j \in 1..Len(q) : q[i].awaited /\ q[j].awaited => i = j
    <3>1. \A i, j \in 1..Len(q) : q[i].awaited /\ q[j].awaited => i + 1 = j + 1
      BY <1>1, <1>4 DEF Awaits
    <3> QED BY <1>4, <3>1
  <2>2. \A i, j \in 1..Len(q) : Waits(q[i]) /\ Waits(q[j]) => i = j
    <3>1. \A i, j \in 1..Len(q) : Waits(q[i]) /\ Waits(q[j]) => i + 1 = j + 1
      BY <1>1, <1>4 DEF Awaits
    <3> QED BY <1>4, <3>1
  <2>3. \A i \in 1..Len(q) : Waits(q[i]) => rebuildScheduled
    BY <1>1, <1>4 DEF Awaits
  <2>4. a => \A i \in 1..Len(q) : ~q[i].awaited
    <3>1. 1 \in DOMAIN queue
      BY <1>2
    <3> QED BY <1>1, <1>2, <1>4, <3>1 DEF Awaits
  <2>5. (a \/ \E i \in 1..Len(q) : q[i].awaited) => snapWait' # "none"
    BY <1>1, <1>4 DEF Awaits
  <2>6. snapWait' # "none" => snaps' # <<>>
    <3>1. a => snapWait # "none"
      BY <1>1, <1>2 DEF Awaits
    <3> QED BY <1>1, <3>1 DEF Awaits
  <2>7. queueCoreRebuild(q, a)
    BY DEF q
  <2>8. a \in BOOLEAN
    BY <1>2
  <2> HIDE DEF a
  <2> QED BY <1>3, <2>1, <2>2, <2>3, <2>4, <2>5, <2>6, <2>7, <2>8, RebuildKeepsAwaits
<1>7. ~Emptying
  BY DEF Emptying, Rebuilding, IsRebuild
<1>8. ~Emptying' /\ ~Filling'
  <2> SUFFICES ASSUME queue' # <<>> PROVE Current'.phase = "queued"
    BY DEF Emptying, Filling, Rebuilding
  <2>1. queue' \in Seq(Jobs) /\ Len(queue') \in Nat /\ Len(queue') >= 1 /\ Current' = queue'[1]
    BY <1>5, EmptySeq, LenProperties DEF Current, Shifted
  <2>3. CASE Len(queue) = 1
    BY <1>5, <2>1, <2>3 DEF Shifted
  <2>4. CASE Len(queue) > 1
    <3>1. 2 \in DOMAIN queue /\ 1 \in 1..(Len(queue) - 1) /\ 1 + 1 = 2
      BY <1>2, <2>4
    <3>2. queue'[1].phase = queue[2].phase
      BY <1>5, <3>1 DEF Shifted
    <3> QED BY <1>1, <2>1, <3>1, <3>2 DEF OneAtATime
  <2> QED BY <1>2, <2>3, <2>4
<1>9. /\ doc' \in Docs /\ doc'.comps = doc.comps /\ snaps' \in Seq([prev : Docs, next : Docs])
      /\ inst' \in Seq(Instances) /\ Live' = Live
      /\ previews' \in [Components -> Values \cup {-1}]
  BY <1>1, AliveSame DEF Types
<1> QED BY <1>5, <1>6, <1>7, <1>8, <1>9, KeptSound

\* The code of a job up to its first request keeps the invariant.
LEMMA StartStep ==
  ASSUME Sound, Start
  PROVE  Sound'
<1>0. Types /\ Awaits /\ OneAtATime
  BY DEF Sound
<1>1. /\ queue # <<>> /\ Current \in Jobs /\ Current.phase = "queued" /\ ~Emptying
      /\ Current = queue[1] /\ 1 \in DOMAIN queue
  BY <1>0, QueueFacts DEF Start, StartDue, Emptying, Rebuilding
<1>2. UNCHANGED <<doc, map, born, leaked, snaps>> /\ inst' \in Seq(Instances) /\ Live' = Live
      /\ UNCHANGED <<inst, wires, on, stale, status, lastInput, tainted, budget>>
  BY <1>0, AliveSame DEF Start, docVars, coreVars, ghosts, Types
<1>3. previews \in [Components -> Values \cup {-1}]
  BY <1>0 DEF Types
<1>4. ASSUME NEW p \in {"sent", "stopping", "prepare"},
             queue' = [queue EXCEPT ![1] = [Current EXCEPT !.phase = p]],
             UNCHANGED <<rebuildScheduled, previews, snapWait>>
      PROVE  Sound'
  <2> DEFINE j == [Current EXCEPT !.phase = p]
  <2>1. /\ j \in Jobs /\ j.k = Current.k /\ j.c = Current.c /\ j.id = Current.id
        /\ j.awaited = Current.awaited /\ j.phase = p
    BY <1>1, <1>4 DEF Jobs, Phases
  <2>2. Alike(j, Current) /\ ~Waits(j) /\ ~(IsRebuild(j) /\ j.phase \in {"remove", "add"})
    BY <1>4, <2>1 DEF Alike, Waits
  <2> HIDE DEF j
  <2>3. queue' = [queue EXCEPT ![1] = j]
    BY <1>4 DEF j
  <2> QED BY <1>1, <1>2, <1>3, <1>4, <2>1, <2>2, <2>3, SoundProceed
<1>5. CASE StartAdd
  BY <1>4, <1>5 DEF StartAdd, Proceed
<1>6. CASE StartRemove
  BY <1>4, <1>6 DEF StartRemove, Proceed
<1>7. CASE StartProperty
  <2>1. CASE Finish
    BY <1>1, <1>2, <1>3, <1>7, <2>1, SoundFinish DEF StartProperty, Finish
  <2>2. CASE Proceed([Current EXCEPT !.phase = "sent", !.id = map[Current.c]])
    <3> DEFINE j == [Current EXCEPT !.phase = "sent", !.id = map[Current.c]]
    <3>1. Current.c \in Components /\ map[Current.c] \in Nat
      BY <1>0, <1>1, <1>7 DEF StartProperty, Jobs, Types
    <3>2. /\ j \in Jobs /\ j.k = Current.k /\ j.c = Current.c
          /\ j.awaited = Current.awaited /\ j.phase = "sent"
      BY <1>1, <3>1 DEF Jobs, Phases
    <3>3. Alike(j, Current) /\ ~Waits(j) /\ ~(IsRebuild(j) /\ j.phase \in {"remove", "add"})
      BY <1>7, <3>2 DEF Alike, Waits, StartProperty, Structural
    <3> HIDE DEF j
    <3>4. queue' = [queue EXCEPT ![1] = j] /\ UNCHANGED <<rebuildScheduled, previews, snapWait>>
      BY <1>7, <2>2 DEF j, Proceed, StartProperty
    <3> QED BY <1>1, <1>2, <1>3, <3>2, <3>3, <3>4, SoundProceed
  <2> QED BY <1>7, <2>1, <2>2 DEF StartProperty
<1>8. CASE StartPreview
  <2>0. Current.c \in Components /\ Current.k = "preview"
    BY <1>1, <1>8 DEF StartPreview, Jobs
  <2>1. previews' \in [Components -> Values \cup {-1}] /\ UNCHANGED snapWait
    BY <1>3, <1>8 DEF StartPreview
  <2>2. CASE Finish
    BY <1>1, <1>2, <2>0, <2>1, <2>2, SoundFinish DEF Finish
  <2>3. CASE /\ previews[Current.c] # -1
             /\ Proceed([Current EXCEPT !.phase = "sent", !.id = map[Current.c],
                                        !.v = previews[Current.c]])
    <3> DEFINE j == [Current EXCEPT !.phase = "sent", !.id = map[Current.c],
                                    !.v = previews[Current.c]]
    <3>1. map[Current.c] \in Nat /\ previews[Current.c] \in Values
      BY <1>0, <1>3, <2>0, <2>3 DEF Types
    <3>2. /\ j \in Jobs /\ j.k = Current.k /\ j.c = Current.c
          /\ j.awaited = Current.awaited /\ j.phase = "sent"
      BY <1>1, <3>1 DEF Jobs, Phases
    <3>3. Alike(j, Current) /\ ~Waits(j) /\ ~(IsRebuild(j) /\ j.phase \in {"remove", "add"})
      BY <2>0, <3>2 DEF Alike, Waits, Structural
    <3> HIDE DEF j
    <3>4. queue' = [queue EXCEPT ![1] = j] /\ UNCHANGED <<rebuildScheduled>>
      BY <2>3 DEF j, Proceed
    <3> QED BY <1>1, <1>2, <2>1, <3>2, <3>3, <3>4, SoundProceed
  <2> QED BY <1>8, <2>2, <2>3 DEF StartPreview
<1>9. ASSUME Resolved, Current.k \in {"transaction", "wire"},
             Proceed([Current EXCEPT !.phase = "sent", !.ids = SetToSeq(Pair)]),
             UNCHANGED <<previews, snapWait>>
      PROVE  Sound'
  <2> DEFINE j == [Current EXCEPT !.phase = "sent", !.ids = SetToSeq(Pair)]
  <2>1. SetToSeq(Pair) \in Seq(Nat \cup (Components \X Values))
    BY <1>0, PairIsFinite
  <2>2. /\ j \in Jobs /\ j.k = Current.k /\ j.c = Current.c /\ j.id = Current.id
        /\ j.awaited = Current.awaited /\ j.phase = "sent"
    BY <1>1, <2>1 DEF Jobs, Phases
  <2>3. Alike(j, Current) /\ ~Waits(j) /\ ~(IsRebuild(j) /\ j.phase \in {"remove", "add"})
    BY <2>2 DEF Alike, Waits
  <2> HIDE DEF j
  <2>4. queue' = [queue EXCEPT ![1] = j] /\ UNCHANGED <<rebuildScheduled>>
    BY <1>9 DEF j, Proceed
  <2> QED BY <1>1, <1>2, <1>3, <1>9, <2>2, <2>3, <2>4, SoundProceed
<1>10. CASE StartTransaction
  <2>1. CASE Resolved
    BY <1>9, <1>10, <2>1 DEF StartTransaction
  <2>2. CASE ~Resolved
    <3>1. /\ queueCoreRebuild(Tail(queue), Current.awaited)
          /\ snapWait' = IF Current.awaited THEN "rebuild" ELSE snapWait
          /\ UNCHANGED previews
      BY <1>10, <2>2 DEF StartTransaction
    <3> QED BY <1>2, <1>1, <1>10, <3>1, SoundRebuildInstead DEF StartTransaction
  <2> QED BY <2>1, <2>2
<1>11. CASE StartWire
  <2>1. CASE Resolved
    BY <1>9, <1>11, <2>1 DEF StartWire
  <2>2. CASE ~Resolved
    BY <1>1, <1>2, <1>3, <1>11, <2>2, SoundFinish DEF StartWire, Finish
  <2> QED BY <2>1, <2>2
<1>12. CASE StartRebuild
  <2> DEFINE j == [Current EXCEPT !.phase = "prepare"]
  <2>1. /\ j \in Jobs /\ j.k = Current.k /\ j.c = Current.c /\ j.id = Current.id
        /\ j.awaited = Current.awaited /\ j.phase = "prepare"
    BY <1>1 DEF Jobs, Phases
  <2>2. Alike(j, Current) /\ ~Waits(j) /\ ~(IsRebuild(j) /\ j.phase \in {"remove", "add"})
    BY <2>1 DEF Alike, Waits
  <2>3. queue \in Seq(Jobs) /\ Len(queue) \in Nat /\ Len(queue) >= 1 /\ DOMAIN queue = 1..Len(queue)
    BY <1>0, <1>1, QueueFacts DEF Types
  <2>4. queue' = [queue EXCEPT ![1] = j]
    BY <1>1, <1>12, <2>3 DEF StartRebuild
  <2> HIDE DEF j
  <2>5. Shifted(0) /\ Added(0) /\ queue' # <<>> /\ Current' = j
    BY <1>0, <1>1, <2>1, <2>2, <2>4, ProceedShape
  <2>6. DOMAIN queue' = DOMAIN queue /\ \A i \in DOMAIN queue : queue'[i] = IF i = 1 THEN j ELSE queue[i]
    BY <2>3, <2>4
  <2>7. Awaits'
    <3>1. Waits(queue[1])
      BY <1>1, <1>12 DEF Waits, StartRebuild
    <3>2. \A i \in DOMAIN queue' : ~Waits(queue'[i])
      BY <1>0, <1>1, <2>2, <2>6, <3>1 DEF Awaits
    <3>3. \A i \in DOMAIN queue' : queue'[i].awaited = queue[i].awaited
      BY <1>1, <2>1, <2>6
    <3>4. UNCHANGED <<snaps, snapWait>>
      BY <1>2, <1>12 DEF StartRebuild
    <3> QED BY <1>0, <2>6, <3>2, <3>3, <3>4 DEF Awaits
  <2>8. ~Emptying' /\ ~Filling'
    BY <2>1, <2>5 DEF Emptying, Filling, Rebuilding
  <2>9. /\ doc' \in Docs /\ doc'.comps = doc.comps /\ snaps' \in Seq([prev : Docs, next : Docs])
        /\ previews' \in [Components -> Values \cup {-1}]
    BY <1>0, <1>2, <1>12 DEF Types, StartRebuild
  <2> QED BY <1>1, <1>2, <2>5, <2>7, <2>8, <2>9, KeptSound
<1>13. CASE StartStop
  BY <1>4, <1>13 DEF StartStop, Proceed
<1> QED BY <1>5, <1>6, <1>7, <1>8, <1>10, <1>11, <1>12, <1>13 DEF Start

\* The head of the queue goes on to a phase in which it neither empties nor fills the Core.
LEMMA SoundPhase ==
  ASSUME Sound, queue # <<>>, ~Emptying, NEW p \in Phases, p \notin {"remove", "add"},
         p = "queued" => ~IsRebuild(Current),
         NEW ids \in Seq(Nat \cup (Components \X Values)), NEW r \in BOOLEAN, NEW u \in BOOLEAN,
         queue' = [queue EXCEPT ![1] = [Current EXCEPT !.phase = p, !.ids = ids, !.resume = r,
                                                       !.undisturbed = u]],
         UNCHANGED <<doc, map, born, leaked, rebuildScheduled, snaps, snapWait, previews>>,
         inst' \in Seq(Instances), Live' = Live
  PROVE  Sound'
<1> DEFINE j == [Current EXCEPT !.phase = p, !.ids = ids, !.resume = r, !.undisturbed = u]
<1>1. Types /\ Current \in Jobs
  BY QueueFacts DEF Sound
<1>2. /\ j \in Jobs /\ j.k = Current.k /\ j.c = Current.c /\ j.id = Current.id
      /\ j.awaited = Current.awaited /\ j.phase = p
  BY <1>1 DEF Jobs
<1>3. Alike(j, Current) /\ ~Waits(j) /\ ~(IsRebuild(j) /\ j.phase \in {"remove", "add"})
  BY <1>2 DEF Alike, Waits, IsRebuild
<1>4. queue' = [queue EXCEPT ![1] = j]
  OBVIOUS
<1> HIDE DEF j
<1>5. previews' \in [Components -> Values \cup {-1}]
  BY <1>1 DEF Types
<1> QED BY <1>2, <1>3, <1>4, <1>5, SoundProceed

\* The fields a phase leaves alone.
LEMMA PhaseOf ==
  ASSUME NEW j \in Jobs
  PROVE  /\ \A p : [j EXCEPT !.phase = p]
                     = [j EXCEPT !.phase = p, !.ids = j.ids, !.resume = j.resume,
                                 !.undisturbed = j.undisturbed]
         /\ j.ids \in Seq(Nat \cup (Components \X Values))
         /\ j.resume \in BOOLEAN /\ j.undisturbed \in BOOLEAN /\ j.awaited \in BOOLEAN
BY DEF Jobs

\* The answer to a committed value touches the instance's value only.
LEMMA AnswerPropertyStep ==
  ASSUME Sound, queue # <<>>, AnswerProperty
  PROVE  Sound'
<1>1. Types /\ Current \in Jobs
  BY QueueFacts DEF Sound
<1>2. Current.v \in Values /\ Current.k = "property" /\ ~Emptying
  BY <1>1 DEF Jobs, AnswerProperty, Emptying, Rebuilding, IsRebuild
<1>3. inst' \in Seq(Instances) /\ Live' = Live
  <2>1. PICK i, v : /\ i = Current.id /\ v = Current.v /\ v \in Values
                    /\ \/ inst' = [inst EXCEPT ![i].val = v, ![i].denied = -1]
                       \/ inst' = [inst EXCEPT ![i].denied = v]
    BY <1>2 DEF AnswerProperty
  <2> QED BY <1>1, <2>1, SetSays
<1>4. previews' \in [Components -> Values \cup {-1}]
  BY <1>1 DEF Types, AnswerProperty, previewVars
<1> QED BY <1>2, <1>3, <1>4, SoundFinish DEF AnswerProperty, Finish, docVars, snapVars, ghosts

\* The answer to a preview; the drain goes on.
LEMMA AnswerPreviewStep ==
  ASSUME Sound, queue # <<>>, AnswerPreview
  PROVE  Sound'
<1>1. Types /\ Current \in Jobs
  BY QueueFacts DEF Sound
<1>2. Current.v \in Values /\ Current.k = "preview" /\ ~Emptying /\ ~IsRebuild(Current)
  BY <1>1 DEF Jobs, AnswerPreview, Emptying, Rebuilding, IsRebuild
<1>3. inst' \in Seq(Instances) /\ Live' = Live
  <2>1. PICK i, v : /\ i = Current.id /\ v = Current.v /\ v \in Values
                    /\ inst' = [inst EXCEPT ![i].val = v] \/ inst' = inst
    BY <1>2 DEF AnswerPreview
  <2> QED BY <1>1, <2>1, SetSays
<1>4. queue' = [queue EXCEPT ![1] =
                   [Current EXCEPT !.phase = "queued", !.ids = Current.ids,
                                   !.resume = Current.resume,
                                   !.undisturbed = Current.undisturbed]]
  BY <1>1, PhaseOf DEF AnswerPreview, Proceed
<1>5. UNCHANGED <<doc, map, born, leaked, rebuildScheduled, snaps, snapWait, previews>>
  BY DEF AnswerPreview, Proceed, docVars, snapVars, ghosts, previewVars
<1>6. "queued" \in Phases
  BY DEF Phases
<1> QED BY <1>1, <1>2, <1>3, <1>4, <1>5, <1>6, PhaseOf, SoundPhase

\* The answer to a wire transaction.
LEMMA AnswerTransactionStep ==
  ASSUME Sound, queue # <<>>, AnswerTransaction
  PROVE  Sound'
<1>1. Types /\ Current \in Jobs
  BY QueueFacts DEF Sound
<1>2. Current.k = "transaction" /\ ~Emptying
  BY DEF AnswerTransaction, Emptying, Rebuilding, IsRebuild
<1>3. /\ UNCHANGED <<doc, map, inst, born, leaked, previews>> /\ Live' = Live
      /\ inst' \in Seq(Instances) /\ previews' \in [Components -> Values \cup {-1}]
  BY <1>1, AliveSame DEF AnswerTransaction, docVars, ghosts, previewVars, Types
<1>4. \/ /\ Finish
         /\ snaps' = IF Current.awaited THEN Tail(snaps) ELSE snaps
         /\ snapWait' = IF Current.awaited THEN "none" ELSE snapWait
      \/ /\ queueCoreRebuild(Tail(queue), Current.awaited)
         /\ snapWait' = IF Current.awaited THEN "rebuild" ELSE snapWait
         /\ UNCHANGED snaps
  BY DEF AnswerTransaction
<1>5. CASE /\ Finish
           /\ snaps' = IF Current.awaited THEN Tail(snaps) ELSE snaps
           /\ snapWait' = IF Current.awaited THEN "none" ELSE snapWait
  BY <1>2, <1>3, <1>5, SoundFinish DEF Finish
<1>6. CASE /\ queueCoreRebuild(Tail(queue), Current.awaited)
           /\ snapWait' = IF Current.awaited THEN "rebuild" ELSE snapWait
           /\ UNCHANGED snaps
  BY <1>2, <1>3, <1>6, SoundRebuildInstead
<1> QED BY <1>4, <1>5, <1>6

\* The answer to a single wire.
LEMMA AnswerWireStep ==
  ASSUME Sound, queue # <<>>, AnswerWire
  PROVE  Sound'
<1>1. Types
  BY DEF Sound
<1>2. Current.k = "wire" /\ ~Emptying
  BY DEF AnswerWire, Emptying, Rebuilding, IsRebuild
<1>3. /\ UNCHANGED <<doc, map, inst, born, leaked, previews, snaps, snapWait>> /\ Live' = Live
      /\ inst' \in Seq(Instances) /\ previews' \in [Components -> Values \cup {-1}]
  BY <1>1, AliveSame DEF AnswerWire, docVars, snapVars, previewVars, Types
<1> QED BY <1>2, <1>3, SoundFinish DEF AnswerWire, Finish

\* The job of Stop.
LEMMA StopCoreStep ==
  ASSUME Sound, StopCore
  PROVE  Sound'
<1>1. Types /\ queue # <<>> /\ ~Emptying /\ Current \in Jobs
  BY QueueFacts DEF Sound, StopCore, Emptying, Rebuilding
<1>2. /\ UNCHANGED <<doc, map, born, leaked, rebuildScheduled, snaps, snapWait, previews>>
      /\ Live' = Live /\ inst' \in Seq(Instances)
  BY <1>1, AliveSame DEF StopCore, Proceed, docVars, snapVars, ghosts, previewVars, Types
<1>3. queue' = [queue EXCEPT ![1] =
                   [Current EXCEPT !.phase = "prepare", !.ids = Current.ids,
                                   !.resume = Current.resume,
                                   !.undisturbed = Current.undisturbed]]
  BY <1>1, PhaseOf DEF StopCore, Proceed
<1>4. "prepare" \in Phases
  BY DEF Phases
<1> QED BY <1>1, <1>2, <1>3, <1>4, PhaseOf, SoundPhase

\* A rebuild finds out whether it has to stop the Core.
LEMMA RebuildPrepareStep ==
  ASSUME Sound, RebuildPrepare
  PROVE  Sound'
<1>1. Types /\ queue # <<>> /\ ~Emptying /\ Current \in Jobs
  BY QueueFacts DEF Sound, RebuildPrepare, Emptying, Rebuilding
<1>2. /\ UNCHANGED <<doc, map, born, leaked, rebuildScheduled, snaps, snapWait, previews>>
      /\ Live' = Live /\ inst' \in Seq(Instances)
  BY <1>1, AliveSame DEF RebuildPrepare, Proceed, docVars, coreVars, snapVars, ghosts,
     previewVars, Types
<1> DEFINE r == Current.k = "rebuild" /\ status = "running"
<1>3. r \in BOOLEAN /\ "halt" \in Phases
  BY DEF Phases
<1>4. queue' = [queue EXCEPT ![1] = [Current EXCEPT !.phase = "halt", !.resume = r]]
  BY DEF RebuildPrepare, Proceed
<1> HIDE DEF r
<1>5. queue' = [queue EXCEPT ![1] =
                   [Current EXCEPT !.phase = "halt", !.ids = Current.ids, !.resume = r,
                                   !.undisturbed = Current.undisturbed]]
  <2>1. [Current EXCEPT !.phase = "halt", !.resume = r]
          = [Current EXCEPT !.phase = "halt", !.ids = Current.ids, !.resume = r,
                            !.undisturbed = Current.undisturbed]
    BY <1>1 DEF Jobs
  <2> QED BY <1>4, <2>1
<1> QED BY <1>1, <1>2, <1>3, <1>5, PhaseOf, SoundPhase

\* A rebuild that ends, its answer lost, before it touched the instances.
LEMMA RebuildAbortStep ==
  ASSUME Sound, RebuildAbort
  PROVE  Sound'
<1>1. Types /\ queue # <<>> /\ ~Emptying /\ Current.k # "remove"
  BY DEF Sound, RebuildAbort, Emptying, Rebuilding, IsRebuild
<1>2. /\ UNCHANGED <<doc, map, born, leaked>>
      /\ Live' = Live /\ inst' \in Seq(Instances)
      /\ previews' \in [Components -> Values \cup {-1}]
  BY <1>1, AliveSame DEF RebuildAbort, docVars, previewVars, Types
<1> QED BY <1>1, <1>2, SoundFinish DEF RebuildAbort, Finish

\* A rebuild resumes what it stopped.
LEMMA RebuildResumeStep ==
  ASSUME Sound, RebuildResume
  PROVE  Sound'
<1>1. Types /\ queue # <<>> /\ ~Emptying /\ Current.k # "remove"
  BY DEF Sound, RebuildResume, Emptying, Rebuilding, IsRebuild
<1>2. /\ UNCHANGED <<doc, map, born, leaked>>
      /\ Live' = Live /\ inst' \in Seq(Instances)
      /\ previews' \in [Components -> Values \cup {-1}]
  BY <1>1, AliveSame DEF RebuildResume, docVars, previewVars, Types
<1> QED BY <1>1, <1>2, SoundFinish DEF RebuildResume, Finish

\* A rebuild that has added everything goes on to the wires.
LEMMA RebuildEdgesStep ==
  ASSUME Sound, RebuildEdges
  PROVE  Sound'
<1>1. Types /\ queue # <<>> /\ ~Emptying /\ Current \in Jobs
  BY QueueFacts DEF Sound, RebuildEdges, Emptying, Rebuilding
<1>2. /\ UNCHANGED <<doc, map, born, leaked, rebuildScheduled, snaps, snapWait, previews>>
      /\ Live' = Live /\ inst' \in Seq(Instances)
  BY <1>1, AliveSame DEF RebuildEdges, Proceed, docVars, coreVars, snapVars, ghosts,
     previewVars, Types
<1>3. CASE Proceed([Current EXCEPT !.phase = "wire", !.ids = SetToSeq(Pair)])
  <2>1. SetToSeq(Pair) \in Seq(Nat \cup (Components \X Values)) /\ "wire" \in Phases
    BY <1>1, PairIsFinite DEF Phases
  <2>2. [Current EXCEPT !.phase = "wire", !.ids = SetToSeq(Pair)]
          = [Current EXCEPT !.phase = "wire", !.ids = SetToSeq(Pair), !.resume = Current.resume,
                            !.undisturbed = Current.undisturbed]
    BY <1>1 DEF Jobs
  <2>3. queue' = [queue EXCEPT ![1] =
          [Current EXCEPT !.phase = "wire", !.ids = SetToSeq(Pair), !.resume = Current.resume,
                            !.undisturbed = Current.undisturbed]]
    BY <1>3, <2>2 DEF Proceed
  <2> QED BY <1>1, <1>2, <2>1, <2>3, PhaseOf, SoundPhase
<1>4. CASE Proceed([Current EXCEPT !.phase = "resume"])
  <2>1. queue' = [queue EXCEPT ![1] =
                   [Current EXCEPT !.phase = "resume", !.ids = Current.ids,
                                   !.resume = Current.resume,
                                   !.undisturbed = Current.undisturbed]]
    BY <1>1, <1>4, PhaseOf DEF Proceed
  <2>2. "resume" \in Phases
    BY DEF Phases
  <2> QED BY <1>1, <1>2, <2>1, <2>2, PhaseOf, SoundPhase
<1> QED BY <1>3, <1>4 DEF RebuildEdges

\* A rebuild connects the wires.
LEMMA RebuildWireStep ==
  ASSUME Sound, RebuildWire
  PROVE  Sound'
<1>1. Types /\ queue # <<>> /\ ~Emptying /\ Current \in Jobs
  BY QueueFacts DEF Sound, RebuildWire, Emptying, Rebuilding
<1>2. /\ UNCHANGED <<doc, map, born, leaked, rebuildScheduled, snaps, snapWait, previews>>
      /\ Live' = Live /\ inst' \in Seq(Instances)
  BY <1>1, AliveSame DEF RebuildWire, Proceed, docVars, snapVars, previewVars, Types
<1>3. PICK answer : Proceed([Current EXCEPT !.phase = "resume",
                                            !.undisturbed = @ /\ answer # "refused"])
  BY DEF RebuildWire
<1> DEFINE u == Current.undisturbed /\ answer # "refused"
<1>4. u \in BOOLEAN /\ "resume" \in Phases
  BY DEF Phases
<1>5. queue' = [queue EXCEPT ![1] = [Current EXCEPT !.phase = "resume", !.undisturbed = u]]
  BY <1>1, <1>3 DEF Proceed, Jobs
<1> HIDE DEF u
<1>6. [Current EXCEPT !.phase = "resume", !.undisturbed = u]
        = [Current EXCEPT !.phase = "resume", !.ids = Current.ids, !.resume = Current.resume,
                          !.undisturbed = u]
  BY <1>1 DEF Jobs
<1>7. queue' = [queue EXCEPT ![1] =
        [Current EXCEPT !.phase = "resume", !.ids = Current.ids, !.resume = Current.resume,
                        !.undisturbed = u]]
  BY <1>5, <1>6
<1> QED BY <1>1, <1>2, <1>4, <1>7, PhaseOf, SoundPhase

-----------------------------------------------------------------------------
(* Snapshots *)

\* Several jobs are added at once.
LEMMA ConcatShape ==
  ASSUME Types, NEW n \in Seq(Jobs), queue' = queue \o n,
         \A i \in 1..Len(n) : n[i].phase = "queued" /\ n[i].k \in Plain
  PROVE  /\ Shifted(0) /\ Added(0) /\ (queue # <<>> => SameHead)
         /\ Len(n) \in Nat /\ Len(queue') = Len(queue) + Len(n)
         /\ \A i \in 1..Len(queue) : queue'[i] = queue[i]
         /\ \A i \in (Len(queue) + 1)..(Len(queue) + Len(n)) :
               queue'[i] = n[i - Len(queue)] /\ i - Len(queue) \in 1..Len(n)
<1>1. queue \in Seq(Jobs) /\ Len(queue) \in Nat /\ Len(n) \in Nat
  BY QueueFacts, LenProperties DEF Types
<1>2. /\ queue' \in Seq(Jobs) /\ Len(queue') = Len(queue) + Len(n)
      /\ \A i \in 1..(Len(queue) + Len(n)) :
            queue'[i] = IF i <= Len(queue) THEN queue[i] ELSE n[i - Len(queue)]
  BY <1>1, ConcatProperties
<1>3. \A i \in 1..Len(queue) : queue'[i] = queue[i]
  BY <1>1, <1>2
<1>4. \A i \in (Len(queue) + 1)..(Len(queue) + Len(n)) :
               queue'[i] = n[i - Len(queue)] /\ i - Len(queue) \in 1..Len(n)
  BY <1>1, <1>2
<1>5. \A i \in 1..Len(queue') : i > Len(queue) - 0 =>
         queue'[i].phase = "queued" /\ queue'[i].k \in Plain
  BY <1>1, <1>2, <1>4
<1>6. Added(0)
  BY <1>5 DEF Added
<1>7. \A i \in 1..(Len(queue) - 0) :
          /\ Alike(queue'[i], queue[i + 0])
          /\ i + 0 # 1 => queue'[i].phase = queue[i + 0].phase
  <2>1. \A i \in 1..(Len(queue) - 0) : queue'[i] = queue[i + 0]
    BY <1>1, <1>3
  <2> QED BY <2>1 DEF Alike
<1>8. Shifted(0)
  BY <1>1, <1>2, <1>5, <1>7 DEF Shifted
<1>9. ASSUME queue # <<>> PROVE SameHead
  <2>1. Len(queue) >= 1 /\ Current = queue[1]
    BY <1>9, QueueFacts
  <2>2. queue' # <<>> /\ Current' = queue'[1]
    BY <1>1, <1>2, <2>1 DEF Current
  <2> QED BY <1>1, <1>3, <1>9, <2>1, <2>2 DEF SameHead
<1> QED BY <1>1, <1>2, <1>3, <1>4, <1>6, <1>8, <1>9

\* The properties of a snapshot become jobs that concern no instance.
LEMMA PropertyJobsAreJobs ==
  ASSUME NEW s \in [prev : Docs, next : Docs]
  PROVE  /\ PropertyJobs(s) \in Seq(Jobs)
         /\ \A i \in 1..Len(PropertyJobs(s)) :
               /\ PropertyJobs(s)[i].phase = "queued" /\ PropertyJobs(s)[i].k = "property"
               /\ ~PropertyJobs(s)[i].awaited
<1>1. Changed(s) \subseteq Components /\ s.next.val \in [Components -> Values]
  BY DEF Changed, Docs
<1>2. IsFiniteSet(Changed(s))
  BY <1>1, ComponentsAssumption, FS_Subset
<1> DEFINE cs == SetToSeq(Changed(s))
           job(c) == [Job("property") EXCEPT !.c = c, !.v = s.next.val[c]]
<1>3. cs \in Seq(Components)
  BY <1>1, <1>2, SetToSeqIs
<1>4. \A c \in Components : /\ job(c) \in Jobs /\ job(c).phase = "queued"
                            /\ job(c).k = "property" /\ ~job(c).awaited
  <2> SUFFICES ASSUME NEW c \in Components
               PROVE  /\ job(c) \in Jobs /\ job(c).phase = "queued"
                      /\ job(c).k = "property" /\ ~job(c).awaited
    OBVIOUS
  <2>1. s.next.val[c] \in Values
    BY <1>1
  <2> QED BY <2>1, ValuesAssumption, EmptySeq DEF Job, Jobs, Kinds, Phases, Structural
<1>5. Len(cs) \in Nat /\ DOMAIN cs = 1..Len(cs) /\ \A i \in 1..Len(cs) : cs[i] \in Components
  BY <1>3, LenProperties, ElementOfSeq
<1>6. PropertyJobs(s) = [i \in 1..Len(cs) |-> job(cs[i])]
  BY <1>5 DEF PropertyJobs
<1> HIDE DEF cs, job
<1>7. PropertyJobs(s) \in Seq(Jobs) /\ Len(PropertyJobs(s)) = Len(cs)
  BY <1>4, <1>5, <1>6, SeqDef
<1> QED BY <1>4, <1>5, <1>6, <1>7

\* A snapshot becomes a rebuild, a transaction or property jobs.
LEMMA SyncSnapshotStep ==
  ASSUME Sound, SyncSnapshot
  PROVE  Sound'
<1>1. Types /\ Awaits
  BY DEF Sound
<1>2. /\ queue \in Seq(Jobs) /\ Len(queue) \in Nat /\ DOMAIN queue = 1..Len(queue)
      /\ snaps # <<>> /\ snapWait = "none" /\ snaps \in Seq([prev : Docs, next : Docs])
  BY <1>1, QueueFacts DEF Types, SyncSnapshot, SnapDue
<1>3. \A i \in 1..Len(queue) : ~queue[i].awaited
  BY <1>1, <1>2 DEF Awaits
<1>4. /\ UNCHANGED <<map, born, leaked, doc, inst, previews>> /\ Live' = Live
      /\ doc' \in Docs /\ doc'.comps = doc.comps /\ inst' \in Seq(Instances)
      /\ previews' \in [Components -> Values \cup {-1}]
  BY <1>1, AliveSame DEF SyncSnapshot, docVars, coreVars, previewVars, ghosts, Types
<1>5. ASSUME Shifted(0), queue = <<>>
      PROVE  ~Emptying /\ ~Emptying' /\ ~Filling'
  <2>1. queue' # <<>> => Current'.phase = "queued"
    <3> SUFFICES ASSUME queue' # <<>> PROVE queue'[1].phase = "queued" /\ Current' = queue'[1]
      OBVIOUS
    <3>1. Len(queue') \in Nat /\ Len(queue') >= 1 /\ Len(queue) = 0
      BY <1>1, <1>5, QueueFacts, EmptySeq, LenProperties DEF Shifted
    <3> QED BY <1>5, <3>1 DEF Current, Shifted
  <2> QED BY <1>5, <2>1 DEF Emptying, Filling, Rebuilding
<1>6. CASE queueCoreRebuild(queue, TRUE) /\ snapWait' = "rebuild" /\ UNCHANGED snaps
  <2>1. Shifted(0) /\ Added(0) /\ (queue # <<>> => SameHead)
    BY <1>1, <1>6, RebuildLater
  <2>2. Awaits'
    <3>1. /\ \A i, j \in 1..Len(queue) : queue[i].awaited /\ queue[j].awaited => i = j
          /\ \A i, j \in 1..Len(queue) : Waits(queue[i]) /\ Waits(queue[j]) => i = j
          /\ \A i \in 1..Len(queue) : Waits(queue[i]) => rebuildScheduled
      BY <1>1, <1>2 DEF Awaits
    <3>2. snapWait' # "none" /\ snaps' # <<>>
      BY <1>2, <1>6
    <3> QED BY <1>2, <1>3, <1>6, <3>1, <3>2, RebuildKeepsAwaits
  <2>3. snaps' \in Seq([prev : Docs, next : Docs])
    BY <1>2, <1>6
  <2> QED BY <1>4, <1>5, <2>1, <2>2, <2>3, KeptSound
<1>7. ASSUME NEW n \in Seq(Jobs), queue' = queue \o n, UNCHANGED rebuildScheduled,
             \A i \in 1..Len(n) : n[i].phase = "queued" /\ n[i].k \in Plain,
             \/ (\A i \in 1..Len(n) : ~n[i].awaited) /\ UNCHANGED snapWait
             \/ Len(n) = 1 /\ snapWait' # "none",
             snapWait' # "none" => snaps' # <<>>,
             snaps' \in Seq([prev : Docs, next : Docs])
      PROVE  Sound'
  <2>1. /\ Shifted(0) /\ Added(0) /\ (queue # <<>> => SameHead)
        /\ Len(n) \in Nat /\ Len(queue') = Len(queue) + Len(n)
        /\ \A i \in 1..Len(queue) : queue'[i] = queue[i]
        /\ \A i \in (Len(queue) + 1)..(Len(queue) + Len(n)) :
               queue'[i] = n[i - Len(queue)] /\ i - Len(queue) \in 1..Len(n)
    BY <1>1, <1>7, ConcatShape
  <2>2. DOMAIN queue' = 1..(Len(queue) + Len(n))
    BY <2>1, LenProperties DEF Shifted
  <2>3. \A i \in DOMAIN queue' : Waits(queue'[i]) => i \in 1..Len(queue) /\ queue'[i] = queue[i]
    <3>1. \A i \in 1..Len(n) : ~Waits(n[i])
      BY <1>7 DEF Waits, Plain
    <3> QED BY <1>2, <2>1, <2>2, <3>1
  <2>4. \A i, j \in DOMAIN queue' : queue'[i].awaited /\ queue'[j].awaited => i = j
    BY <1>2, <1>3, <1>7, <2>1, <2>2, SMTT(60)
  <2>5. \A i \in DOMAIN queue' : queue'[i].awaited => snapWait' # "none"
    BY <1>2, <1>3, <1>7, <2>1, <2>2
  <2>6. Awaits'
    BY <1>1, <1>7, <2>3, <2>4 DEF Awaits
  <2> QED BY <1>4, <1>5, <1>7, <2>1, <2>6, KeptSound
<1>8. CASE /\ queue' = enqueueCoreMutation(queue,
                    [Job("transaction") EXCEPT !.connect = Head(snaps).next.wired, !.awaited = TRUE])
           /\ snapWait' = "txn"
           /\ UNCHANGED <<snaps, rebuildScheduled>>
  <2> DEFINE j == [Job("transaction") EXCEPT !.connect = Head(snaps).next.wired, !.awaited = TRUE]
  <2>0. Head(snaps).next.wired \in BOOLEAN
    <3>1. Head(snaps) \in [prev : Docs, next : Docs]
      BY <1>2, HeadTailProperties
    <3> QED BY <3>1 DEF Docs
  <2>1. j \in Jobs /\ j.k = "transaction" /\ j.phase = "queued"
    BY <2>0, ValuesAssumption, EmptySeq DEF Job, Jobs, Kinds, Phases, Structural
  <2>2. queue' = Append(queue, j)
    BY <1>8 DEF enqueueCoreMutation
  <2> HIDE DEF j
  <2>3. queue' = queue \o <<j>>
    BY <1>2, <2>1, <2>2
  <2>4. <<j>> \in Seq(Jobs) /\ Len(<<j>>) = 1 /\ \A i \in 1..Len(<<j>>) : <<j>>[i] = j
    BY <2>1
  <2>5. \A i \in 1..Len(<<j>>) : <<j>>[i].phase = "queued" /\ <<j>>[i].k \in Plain
    BY <2>1, <2>4 DEF Plain
  <2>6. snapWait' # "none" /\ snaps' # <<>> /\ snaps' \in Seq([prev : Docs, next : Docs])
    BY <1>2, <1>8
  <2> QED BY <1>7, <1>8, <2>3, <2>4, <2>5, <2>6
<1>9. CASE /\ queue' = queue \o PropertyJobs(Head(snaps))
           /\ snaps' = Tail(snaps)
           /\ UNCHANGED <<snapWait, rebuildScheduled>>
  <2>1. Head(snaps) \in [prev : Docs, next : Docs] /\ snaps' \in Seq([prev : Docs, next : Docs])
    BY <1>2, <1>9, HeadTailProperties
  <2> DEFINE n == PropertyJobs(Head(snaps))
  <2>2. n \in Seq(Jobs) /\ \A i \in 1..Len(n) : n[i].phase = "queued" /\ n[i].k = "property"
                                                /\ ~n[i].awaited
    BY <2>1, PropertyJobsAreJobs
  <2> HIDE DEF n
  <2>3. \A i \in 1..Len(n) : n[i].phase = "queued" /\ n[i].k \in Plain
    BY <2>2 DEF Plain
  <2>4. queue' = queue \o n
    BY <1>9 DEF n
  <2> QED BY <1>2, <1>7, <1>9, <2>1, <2>2, <2>3, <2>4
<1> QED BY <1>6, <1>8, <1>9 DEF SyncSnapshot

-----------------------------------------------------------------------------
(* Edits that concern no instance, and Run, Pause and Stop *)

\* A committed value.
LEMMA UpdatePropertyStep ==
  ASSUME Sound, NEW c \in Components, NEW v \in Values, requestUpdateProperty(c, v)
  PROVE  Sound'
<1>1. Types
  BY DEF Sound
<1> DEFINE j == [Job("property") EXCEPT !.c = c, !.v = v]
<1>2. j \in Jobs /\ j.k = "property" /\ j.phase = "queued" /\ ~j.awaited
  BY EmptySeq DEF Job, Jobs, Kinds, Phases
<1> HIDE DEF j
<1>3. doc' \in Docs /\ doc'.comps = doc.comps
  BY <1>1 DEF Types, Docs, requestUpdateProperty
<1>4. UNCHANGED <<map, inst, born, snaps, snapWait, previews>> /\ Enqueued(j, FALSE)
  BY DEF requestUpdateProperty, coreVars, previewVars, snapVars, j
<1>5. leaked' = leaked
  BY <1>1 DEF requestUpdateProperty, Crossing, Types
<1>6. previews' \in [Components -> Values \cup {-1}] /\ j.k \in Plain
  BY <1>1, <1>2, <1>4 DEF Types, Plain
<1> QED BY <1>2, <1>3, <1>4, <1>5, <1>6, SoundEnqueue

\* What leaves the queues, the map and the Core alone keeps the invariant.
LEMMA NothingQueued ==
  ASSUME Sound, UNCHANGED <<doc, map, inst, born, leaked, snaps, snapWait, queue, rebuildScheduled>>,
         previews' \in [Components -> Values \cup {-1}]
  PROVE  Sound'
<1>1. /\ Current' = Current /\ (Emptying' <=> Emptying) /\ (Filling' <=> Filling)
      /\ Known' = Known /\ Doomed' = Doomed /\ Live' = Live
  BY DEF Emptying, Filling, Rebuilding, Current, Known, Doomed, Live
<1>2. Types'
  BY <1>1 DEF Sound, Types
<1>3. OneAtATime'
  BY DEF Sound, OneAtATime
<1>4. Awaits'
  BY DEF Sound, Awaits
<1>5. Births'
  BY <1>1 DEF Sound, Births
<1>6. ASSUME ~leaked' PROVE Ordered' /\ Owned'
  <2>1. Ordered /\ Owned
    BY <1>6 DEF Sound
  <2> QED BY <1>1, <2>1 DEF Ordered, Owned
<1> QED BY <1>2, <1>3, <1>4, <1>5, <1>6 DEF Sound

\* A preview of a value.
LEMMA PreviewPropertyStep ==
  ASSUME Sound, NEW c \in Components, NEW v \in Values, requestPreviewProperty(c, v)
  PROVE  Sound'
<1>1. Types
  BY DEF Sound
<1>2. previews' \in [Components -> Values \cup {-1}]
  BY <1>1 DEF Types, requestPreviewProperty
<1>3. UNCHANGED <<doc, map, inst, born, leaked, snaps, snapWait>>
  BY DEF requestPreviewProperty, coreVars, snapVars, ghosts
<1>4. CASE UNCHANGED <<queue, rebuildScheduled>>
  BY <1>2, <1>3, <1>4, NothingQueued
<1>5. CASE Enqueued([Job("preview") EXCEPT !.c = c], FALSE)
  <2> DEFINE j == [Job("preview") EXCEPT !.c = c]
  <2>1. j \in Jobs /\ j.k = "preview" /\ j.phase = "queued" /\ ~j.awaited
    BY ValuesAssumption, EmptySeq DEF Job, Jobs, Kinds, Phases
  <2>2. Enqueued(j, FALSE)
    BY <1>5
  <2> HIDE DEF j
  <2>3. doc' \in Docs /\ doc'.comps = doc.comps /\ j.k \in Plain
    BY <1>1, <1>3, <2>1 DEF Types, Plain
  <2> QED BY <1>2, <1>3, <2>1, <2>2, <2>3, SoundEnqueue
<1> QED BY <1>4, <1>5 DEF requestPreviewProperty

\* A new wire.
LEMMA ConnectStep ==
  ASSUME Sound, requestConnectEndpoints
  PROVE  Sound'
<1>1. Types
  BY DEF Sound
<1> DEFINE j == [Job("transaction") EXCEPT !.connect = TRUE]
<1>2. j \in Jobs /\ j.k = "transaction" /\ j.phase = "queued" /\ ~j.awaited
  BY ValuesAssumption, EmptySeq DEF Job, Jobs, Kinds, Phases, Structural
<1> HIDE DEF j
<1>3. doc' \in Docs /\ doc'.comps = doc.comps
  BY <1>1 DEF Types, Docs, requestConnectEndpoints
<1>4. UNCHANGED <<map, inst, born, snaps, snapWait, previews>> /\ Enqueued(j, TRUE)
  BY DEF requestConnectEndpoints, coreVars, previewVars, snapVars, j
<1>5. leaked' = leaked
  BY <1>1 DEF requestConnectEndpoints, Crossing, Types
<1>6. previews' \in [Components -> Values \cup {-1}] /\ j.k \in Plain
  BY <1>1, <1>2, <1>4 DEF Types, Plain
<1> QED BY <1>2, <1>3, <1>4, <1>5, <1>6, SoundEnqueue

\* A removed wire.
LEMMA RemoveWireStep ==
  ASSUME Sound, requestRemoveWire
  PROVE  Sound'
<1>1. Types
  BY DEF Sound
<1> DEFINE j == Job("transaction")
<1>2. j \in Jobs /\ j.k = "transaction" /\ j.phase = "queued" /\ ~j.awaited
  BY ValuesAssumption DEF Job, Jobs, Kinds, Phases, Structural
<1> HIDE DEF j
<1>3. doc' \in Docs /\ doc'.comps = doc.comps
  BY <1>1 DEF Types, Docs, requestRemoveWire
<1>4. UNCHANGED <<map, inst, born, snaps, snapWait, previews>> /\ Enqueued(j, FALSE)
  BY DEF requestRemoveWire, coreVars, previewVars, snapVars, j
<1>5. leaked' = leaked
  BY <1>1 DEF requestRemoveWire, Crossing, Types
<1>6. previews' \in [Components -> Values \cup {-1}] /\ j.k \in Plain
  BY <1>1, <1>2, <1>4 DEF Types, Plain
<1> QED BY <1>2, <1>3, <1>4, <1>5, <1>6, SoundEnqueue

\* Run, Pause and Stop.
LEMMA ControlStep ==
  ASSUME Sound, runSimulation \/ pauseSimulation \/ stopSimulation
  PROVE  Sound'
<1>1. Types
  BY DEF Sound
<1>2. /\ UNCHANGED <<doc, map, inst, born, leaked, snaps, snapWait, previews>>
      /\ previews' \in [Components -> Values \cup {-1}]
  BY <1>1 DEF runSimulation, pauseSimulation, stopSimulation, docVars, coreVars, previewVars,
     snapVars, ghosts, Types
<1>3. CASE UNCHANGED <<queue, rebuildScheduled>>
  BY <1>2, <1>3, NothingQueued
<1>4. CASE stopSimulation
  <2> DEFINE j == Job("stop")
  <2>1. j \in Jobs /\ j.k = "stop" /\ j.phase = "queued" /\ ~j.awaited
    BY ValuesAssumption DEF Job, Jobs, Kinds, Phases, Structural
  <2>2. Enqueued(j, FALSE)
    BY <1>4 DEF stopSimulation
  <2> HIDE DEF j
  <2>3. doc' \in Docs /\ doc'.comps = doc.comps
    BY <1>1, <1>2 DEF Types
  <2> QED BY <1>2, <2>1, <2>2, <2>3, SoundEnqueue
<1> QED BY <1>3, <1>4 DEF runSimulation, pauseSimulation

-----------------------------------------------------------------------------
(* Edits of the components *)

\* The jobs of the queue stay, up to what an edit disturbs, and new ones follow.
Followed(n) ==
    /\ queue' \in Seq(Jobs)
    /\ Len(queue) \in Nat /\ DOMAIN queue = 1..Len(queue) /\ DOMAIN queue' = 1..(Len(queue) + n)
    /\ \A i \in DOMAIN queue :
          /\ queue'[i].k = queue[i].k /\ queue'[i].phase = queue[i].phase
          /\ queue'[i].c = queue[i].c /\ queue'[i].id = queue[i].id
          /\ queue'[i].ids = queue[i].ids /\ queue'[i].awaited = queue[i].awaited
          /\ queue'[i].v = queue[i].v
    /\ Emptying' <=> Emptying
    /\ Filling' <=> Filling
    /\ Emptying \/ Filling => Current'.ids = Current.ids

\* What an edit does to the queue: every job stays in its place, one may be added.
LEMMA FollowedBy ==
  ASSUME Types, NEW n \in {0, 1}, NEW j \in Jobs, j.phase = "queued", NEW u \in Seq(Jobs),
         Len(u) = Len(queue),
         \A i \in 1..Len(queue) :
             /\ u[i].k = queue[i].k /\ u[i].phase = queue[i].phase /\ u[i].c = queue[i].c
             /\ u[i].id = queue[i].id /\ u[i].ids = queue[i].ids /\ u[i].v = queue[i].v
             /\ u[i].awaited = queue[i].awaited,
         queue' = (IF n = 0 THEN u ELSE Append(u, j))
  PROVE  Followed(n) /\ (n = 1 => queue'[Len(queue) + 1] = j)
<1>1. Len(queue) \in Nat /\ DOMAIN queue = 1..Len(queue)
  BY QueueFacts
<1>2. /\ queue' \in Seq(Jobs) /\ Len(queue') = Len(queue) + n
      /\ n = 1 => queue'[Len(queue) + 1] = j
      /\ \A i \in 1..Len(queue) : queue'[i] = u[i]
  BY <1>1, AppendProperties
<1>3. DOMAIN queue' = 1..(Len(queue) + n)
  BY <1>2, LenProperties
<1>4. CASE queue = <<>>
  <2>1. ~Emptying /\ ~Filling
    BY <1>4 DEF Emptying, Filling, Rebuilding
  <2>2. ~Emptying' /\ ~Filling'
    <3> SUFFICES ASSUME queue' # <<>> PROVE Current'.phase = "queued"
      BY DEF Emptying, Filling, Rebuilding
    <3>1. Len(queue) = 0 /\ Len(queue') >= 1 /\ Current' = queue'[1]
      BY <1>2, <1>4, QueueFacts, EmptySeq, LenProperties DEF Current
    <3> QED BY <1>2, <3>1
  <2> QED BY <1>1, <1>2, <1>3, <2>1, <2>2 DEF Followed
<1>5. CASE queue # <<>>
  <2>1. Len(queue) >= 1 /\ Current = queue[1]
    BY <1>5, QueueFacts
  <2>2. queue' # <<>> /\ Current' = queue'[1]
    BY <1>1, <1>2, <2>1 DEF Current
  <2>3. Current'.k = Current.k /\ Current'.phase = Current.phase /\ Current'.ids = Current.ids
    BY <1>1, <1>2, <2>1, <2>2
  <2>4. (Emptying' <=> Emptying) /\ (Filling' <=> Filling)
    BY <2>2, <2>3 DEF Emptying, Filling, Rebuilding, IsRebuild
  <2> QED BY <1>1, <1>2, <1>3, <2>3, <2>4 DEF Followed
<1> QED BY <1>4, <1>5

\* An edit that adds a job.
LEMMA EnqueuedFollows ==
  ASSUME Types, NEW b \in BOOLEAN, NEW j \in Jobs, j.phase = "queued", Enqueued(j, b)
  PROVE  Followed(1) /\ queue'[Len(queue) + 1] = j
<1> DEFINE u == [i \in DOMAIN queue |-> [queue[i] EXCEPT !.undisturbed = @ /\ ~b]]
<1>1. (~b) \in BOOLEAN
  OBVIOUS
<1>2. /\ u \in Seq(Jobs) /\ Len(u) = Len(queue)
      /\ \A i \in 1..Len(queue) :
                  /\ u[i].k = queue[i].k /\ u[i].phase = queue[i].phase /\ u[i].c = queue[i].c
                  /\ u[i].id = queue[i].id /\ u[i].ids = queue[i].ids /\ u[i].v = queue[i].v
                  /\ u[i].awaited = queue[i].awaited
  BY <1>1, UndisturbedShape
<1>3. queue' = Append(u, j)
  BY DEF Enqueued, enqueueCoreMutation
<1> HIDE DEF u
<1>4. queue' = (IF 1 = 0 THEN u ELSE Append(u, j))
  BY <1>3
<1> QED BY <1>2, <1>4, FollowedBy

\* An edit that adds none.
LEMMA DisturbedFollows ==
  ASSUME Types, queue' = [i \in DOMAIN queue |-> [queue[i] EXCEPT !.undisturbed = FALSE]]
  PROVE  Followed(0)
<1>1. Len(queue) \in Nat /\ DOMAIN queue = 1..Len(queue) /\ \A i \in 1..Len(queue) : queue[i] \in Jobs
  BY QueueFacts
<1>2. \A j \in Jobs :
         LET x == [j EXCEPT !.undisturbed = FALSE]
         IN /\ x \in Jobs /\ x.k = j.k /\ x.phase = j.phase /\ x.c = j.c /\ x.id = j.id
            /\ x.ids = j.ids /\ x.awaited = j.awaited /\ x.v = j.v
  BY DEF Jobs
<1> DEFINE u == [i \in DOMAIN queue |-> [queue[i] EXCEPT !.undisturbed = FALSE]]
<1>3. u \in Seq(Jobs) /\ Len(u) = Len(queue)
  BY <1>1, <1>2, SeqDef
<1>4. \A i \in 1..Len(queue) :
                  /\ u[i].k = queue[i].k /\ u[i].phase = queue[i].phase /\ u[i].c = queue[i].c
                  /\ u[i].id = queue[i].id /\ u[i].ids = queue[i].ids /\ u[i].v = queue[i].v
                  /\ u[i].awaited = queue[i].awaited
  BY <1>1, <1>2
<1>5. Job("stop") \in Jobs /\ Job("stop").phase = "queued"
  BY ValuesAssumption DEF Job, Jobs, Kinds, Phases, Structural
<1>6. queue' = u
  OBVIOUS
<1> HIDE DEF u
<1>7. queue' = (IF 0 = 0 THEN u ELSE Append(u, Job("stop")))
  BY <1>6
<1> QED BY <1>3, <1>4, <1>5, <1>7, FollowedBy

\* That keeps the order of the jobs and who is awaited.
LEMMA FollowedKeeps ==
  ASSUME Types, OneAtATime, Awaits, NEW n \in {0, 1}, Followed(n),
         n = 1 => LET j == queue'[Len(queue) + 1]
                  IN j.phase = "queued" /\ ~Waits(j) /\ ~j.awaited,
         UNCHANGED <<rebuildScheduled, snapWait>>, snapWait # "none" => snaps' # <<>>
  PROVE  OneAtATime' /\ Awaits'
<1>1. \A i \in DOMAIN queue' : i \in DOMAIN queue \/ (n = 1 /\ i = Len(queue) + 1)
  BY DEF Followed
<1>2. \A i \in DOMAIN queue' : queue'[i].awaited => i \in DOMAIN queue /\ queue[i].awaited
  BY <1>1 DEF Followed
<1>3. \A i \in DOMAIN queue' : Waits(queue'[i]) => i \in DOMAIN queue /\ Waits(queue[i])
  BY <1>1 DEF Followed, Waits
<1>4. OneAtATime'
  BY <1>1 DEF OneAtATime, Followed
<1>5. Awaits'
  BY <1>2, <1>3 DEF Awaits
<1> QED BY <1>4, <1>5

\* That keeps what the types say of the rebuild in progress.
LEMMA FollowedTypes ==
  ASSUME Types, NEW n \in {0, 1}, Followed(n), doc' \in Docs, map' \in [Components -> Nat],
         UNCHANGED inst, UNCHANGED previews, snaps' \in Seq([prev : Docs, next : Docs]),
         born' \in SUBSET Components, leaked' \in BOOLEAN
  PROVE  Types'
BY DEF Types, Followed

\* A new component, with an add of its own.
LEMMA AddComponentStep ==
  ASSUME Sound, NEW c \in Components, requestAddComponent(c)
  PROVE  Sound'
<1>1. Types /\ OneAtATime /\ Awaits /\ Births
  BY DEF Sound
<1> DEFINE j == [Job("add") EXCEPT !.c = c]
           last == Len(queue) + 1
<1>2. j \in Jobs /\ j.k = "add" /\ j.c = c /\ j.phase = "queued" /\ ~j.awaited /\ ~Waits(j)
  BY ValuesAssumption, EmptySeq DEF Job, Jobs, Kinds, Phases, Waits
<1>3. UNCHANGED <<doc, map, inst, leaked, snaps, snapWait, rebuildScheduled, previews>>
  BY DEF requestAddComponent, coreVars, previewVars, snapVars, ghosts, Enqueued
<1>4. c \notin born /\ born' = born \cup {c}
  BY DEF requestAddComponent
<1>5. Followed(1) /\ queue'[last] = j
  <2>1. Enqueued(j, FALSE)
    BY DEF requestAddComponent
  <2> HIDE DEF j
  <2> QED BY <1>1, <1>2, <2>1, EnqueuedFollows
<1> HIDE DEF j
<1>6. \A i \in DOMAIN queue' : i \in DOMAIN queue \/ i = last
  BY <1>5 DEF Followed
<1>7. OneAtATime' /\ Awaits'
  BY <1>1, <1>2, <1>3, <1>5, FollowedKeeps DEF Awaits
<1>8. Types'
  <2>1. doc' \in Docs /\ map' \in [Components -> Nat] /\ born' \in SUBSET Components
        /\ leaked' \in BOOLEAN /\ snaps' \in Seq([prev : Docs, next : Docs])
    BY <1>1, <1>3, <1>4 DEF Types
  <2> QED BY <1>1, <1>3, <1>5, <2>1, FollowedTypes
<1>10. Births'
  <2>1. doc'.comps \subseteq born' /\ \A e \in Components \ born' : map'[e] = 0
    BY <1>1, <1>3, <1>4 DEF Births
  <2>2. \A i \in DOMAIN queue' : queue'[i].k \in Structural => queue'[i].c \in born'
    BY <1>1, <1>2, <1>4, <1>5 DEF Births, Followed
  <2>3. \A i, n \in DOMAIN queue' :
          /\ queue'[i].k \in Structural /\ queue'[n].k \in Structural
          /\ queue'[i].c = queue'[n].c
          => i = n
    BY <1>1, <1>2, <1>4, <1>5 DEF Births, Followed
  <2>4. Filling' => \A i \in DOMAIN Current'.ids : Current'.ids[i][1] \in born'
    BY <1>1, <1>4, <1>5 DEF Births, Followed
  <2> QED BY <2>1, <2>2, <2>3, <2>4 DEF Births
<1>11. ASSUME ~leaked' PROVE Ordered' /\ Owned'
  <2>1. Ordered /\ Owned
    BY <1>3, <1>11 DEF Sound
  <2>2. \A i \in DOMAIN queue' : queue'[i].k \in Structural => map'[queue'[i].c] = 0
    BY <1>1, <1>2, <1>3, <1>4, <1>5, <2>1 DEF Births, Followed, Ordered
  <2>3. ASSUME NEW i \in DOMAIN queue', NEW n \in DOMAIN queue', i < n, IsRebuild(queue'[i])
        PROVE  /\ queue'[n].k \notin {"remove", "insert"}
               /\ queue'[n].k = "add" => queue'[n].c \notin doc'.comps
    <3>1. CASE n = last
      BY <1>1, <1>2, <1>3, <1>4, <1>5, <3>1 DEF Births
    <3>2. CASE n \in DOMAIN queue
      <4>1. i \in DOMAIN queue
        BY <1>5, <1>6, <2>3, <3>2 DEF Followed
      <4> QED BY <1>3, <1>5, <2>1, <2>3, <3>2, <4>1 DEF Ordered, Followed, IsRebuild
    <3> QED BY <1>6, <3>1, <3>2
  <2>4. ASSUME Filling', NEW i \in DOMAIN queue', queue'[i].k = "add", NEW n \in DOMAIN Current'.ids
        PROVE  Current'.ids[n][1] # queue'[i].c
    <3>1. Filling /\ Current'.ids = Current.ids
      BY <1>5, <2>4 DEF Followed
    <3>2. CASE i = last
      BY <1>1, <1>2, <1>4, <1>5, <3>1, <3>2 DEF Births
    <3>3. CASE i \in DOMAIN queue
      BY <1>5, <2>1, <2>4, <3>3 DEF Ordered, Followed
    <3> QED BY <1>6, <3>2, <3>3
  <2>5. Ordered'
    BY <2>2, <2>3, <2>4 DEF Ordered
  <2>6. \A i \in DOMAIN queue' : queue'[i].k = "remove" =>
           i \in DOMAIN queue /\ queue[i].k = "remove" /\ queue'[i].id = queue[i].id
    BY <1>2, <1>5, <1>6 DEF Followed
  <2>7. Doomed' = Doomed
    <3>1. Doomed' \subseteq Doomed
      BY <2>6 DEF Doomed
    <3>2. Doomed \subseteq Doomed'
      BY <1>5 DEF Doomed, Followed
    <3> QED BY <3>1, <3>2
  <2>8. Known' = Known /\ Live' = Live
    BY <1>3 DEF Known, Live
  <2>9. Owned'
    BY <1>3, <1>5, <2>1, <2>6, <2>7, <2>8 DEF Owned, Followed
  <2> QED BY <2>5, <2>9
<1> QED BY <1>7, <1>8, <1>10, <1>11 DEF Sound

\* A paste.
LEMMA InsertItemsStep ==
  ASSUME Sound, NEW c \in Components, NEW w \in BOOLEAN, requestInsertItems(c, w)
  PROVE  Sound'
<1>1. Types /\ OneAtATime /\ Awaits /\ Births
  BY DEF Sound
<1> DEFINE j == [Job("insert") EXCEPT !.c = c, !.connect = w]
           last == Len(queue) + 1
<1>2. j \in Jobs /\ j.k = "insert" /\ j.c = c /\ j.phase = "queued" /\ ~j.awaited /\ ~Waits(j)
  BY ValuesAssumption, EmptySeq DEF Job, Jobs, Kinds, Phases, Waits
<1>3. UNCHANGED <<map, inst, snaps, snapWait, rebuildScheduled, previews>>
  BY DEF requestInsertItems, coreVars, previewVars, snapVars, Enqueued
<1>4. /\ c \notin born /\ born' = born \cup {c}
      /\ doc' = [doc EXCEPT !.comps = @ \cup {c}, !.wired = @ \/ w]
      /\ leaked' = (leaked \/ Crosses)
  BY DEF requestInsertItems, Crossing
<1>5. Followed(1) /\ queue'[last] = j
  <2>1. Enqueued(j, TRUE)
    BY DEF requestInsertItems
  <2> HIDE DEF j
  <2> QED BY <1>1, <1>2, <2>1, EnqueuedFollows
<1> HIDE DEF j
<1>6. \A i \in DOMAIN queue' : i \in DOMAIN queue \/ i = last
  BY <1>5 DEF Followed
<1>7. OneAtATime' /\ Awaits'
  BY <1>1, <1>2, <1>3, <1>5, FollowedKeeps DEF Awaits
<1>8. doc' \in Docs /\ doc'.comps = doc.comps \cup {c}
  BY <1>1, <1>4 DEF Types, Docs
<1>9. Types'
  <2>1. map' \in [Components -> Nat] /\ born' \in SUBSET Components
        /\ leaked' \in BOOLEAN /\ snaps' \in Seq([prev : Docs, next : Docs])
    BY <1>1, <1>3, <1>4 DEF Types
  <2> QED BY <1>1, <1>3, <1>5, <1>8, <2>1, FollowedTypes
<1>10. Births'
  <2>1. doc'.comps \subseteq born' /\ \A e \in Components \ born' : map'[e] = 0
    BY <1>1, <1>3, <1>4, <1>8 DEF Births
  <2>2. \A i \in DOMAIN queue' : queue'[i].k \in Structural => queue'[i].c \in born'
    BY <1>1, <1>2, <1>4, <1>5 DEF Births, Followed
  <2>3. \A i, n \in DOMAIN queue' :
          /\ queue'[i].k \in Structural /\ queue'[n].k \in Structural
          /\ queue'[i].c = queue'[n].c
          => i = n
    BY <1>1, <1>2, <1>4, <1>5 DEF Births, Followed
  <2>4. Filling' => \A i \in DOMAIN Current'.ids : Current'.ids[i][1] \in born'
    BY <1>1, <1>4, <1>5 DEF Births, Followed
  <2> QED BY <2>1, <2>2, <2>3, <2>4 DEF Births
<1>11. ASSUME ~leaked' PROVE Ordered' /\ Owned'
  <2>1. Ordered /\ Owned /\ ~\E i \in DOMAIN queue : IsRebuild(queue[i])
    BY <1>4, <1>11 DEF Sound, Crosses
  <2>2. \A i \in DOMAIN queue' : queue'[i].k \in Structural => map'[queue'[i].c] = 0
    BY <1>1, <1>2, <1>3, <1>4, <1>5, <2>1 DEF Births, Followed, Ordered
  <2>3. \A i \in DOMAIN queue' : ~IsRebuild(queue'[i])
    BY <1>2, <1>5, <1>6, <2>1 DEF Followed, IsRebuild
  <2>4. ~Emptying' /\ ~Filling' /\ ~Emptying
    <3>1. ~Emptying /\ ~Filling
      BY <1>1, <2>1, QueueFacts DEF Emptying, Filling, Rebuilding
    <3> QED BY <1>5, <3>1 DEF Followed
  <2>5. Ordered'
    BY <2>2, <2>3, <2>4 DEF Ordered
  <2>6. \A i \in DOMAIN queue' : queue'[i].k = "remove" =>
           i \in DOMAIN queue /\ queue[i].k = "remove" /\ queue'[i].id = queue[i].id
    BY <1>2, <1>5, <1>6 DEF Followed
  <2>7. Doomed' = Doomed
    <3>1. Doomed' \subseteq Doomed
      BY <2>6 DEF Doomed
    <3>2. Doomed \subseteq Doomed'
      BY <1>5 DEF Doomed, Followed
    <3> QED BY <3>1, <3>2
  <2>8. Known' = Known /\ Live' = Live
    BY <1>3 DEF Known, Live
  <2>9. Owned'
    BY <1>3, <2>1, <2>4, <2>6, <2>7, <2>8 DEF Owned
  <2> QED BY <2>5, <2>9
<1> QED BY <1>7, <1>9, <1>10, <1>11 DEF Sound

\* A deletion hands its instance from the map to a removal.
LEMMA RemoveComponentStep ==
  ASSUME Sound, NEW c \in Components, requestRemoveComponent(c)
  PROVE  Sound'
<1>1. Types /\ OneAtATime /\ Awaits /\ Births
  BY DEF Sound
<1> DEFINE j == [Job("remove") EXCEPT !.id = map[c]]
           last == Len(queue) + 1
<1>2. j \in Jobs /\ j.k = "remove" /\ j.id = map[c] /\ j.phase = "queued" /\ ~j.awaited /\ ~Waits(j)
  <2>1. map[c] \in Nat
    BY <1>1 DEF Types
  <2> QED BY <2>1, ValuesAssumption, EmptySeq DEF Job, Jobs, Kinds, Phases, Structural, Waits
<1>3. UNCHANGED <<inst, snaps, snapWait, rebuildScheduled, previews, born>>
  BY DEF requestRemoveComponent, coreVars, previewVars, snapVars, Enqueued
<1>4. /\ doc' = [doc EXCEPT !.comps = @ \ {c}, !.wired = @ /\ c \notin Ends]
      /\ map' = [map EXCEPT ![c] = 0]
      /\ leaked' = (leaked \/ Crosses)
  BY DEF requestRemoveComponent, Crossing
<1>5. PICK n \in {0, 1} : /\ Followed(n) /\ (n = 1 <=> map[c] # 0)
                          /\ n = 1 => queue'[last] = j
  <2>1. CASE map[c] # 0
    <3>1. Enqueued(j, TRUE)
      BY <2>1 DEF requestRemoveComponent
    <3> HIDE DEF j
    <3> QED BY <1>1, <1>2, <2>1, <3>1, EnqueuedFollows
  <2>2. CASE map[c] = 0
    <3>1. queue' = [i \in DOMAIN queue |-> [queue[i] EXCEPT !.undisturbed = FALSE]]
      BY <2>2 DEF requestRemoveComponent
    <3>2. Followed(0)
      BY <1>1, <3>1, DisturbedFollows
    <3> HIDE DEF j
    <3> QED BY <2>2, <3>2
  <2> QED BY <2>1, <2>2
<1> HIDE DEF j
<1>6. \A i \in DOMAIN queue' : i \in DOMAIN queue \/ (n = 1 /\ i = last)
  BY <1>5 DEF Followed
<1>7. OneAtATime' /\ Awaits'
  BY <1>1, <1>2, <1>3, <1>5, FollowedKeeps DEF Awaits
<1>8. doc' \in Docs /\ doc'.comps = doc.comps \ {c}
  BY <1>1, <1>4 DEF Types, Docs
<1>9. Types'
  <2>1. map' \in [Components -> Nat] /\ born' \in SUBSET Components
        /\ leaked' \in BOOLEAN /\ snaps' \in Seq([prev : Docs, next : Docs])
    BY <1>1, <1>3, <1>4 DEF Types
  <2> QED BY <1>1, <1>3, <1>5, <1>8, <2>1, FollowedTypes
<1>10. \A e \in Components : map'[e] = IF e = c THEN 0 ELSE map[e]
  BY <1>1, <1>4 DEF Types
<1>11. \A i \in DOMAIN queue' : queue'[i].k \in Structural =>
          i \in DOMAIN queue /\ queue[i].k \in Structural /\ queue'[i].c = queue[i].c
  BY <1>2, <1>5, <1>6 DEF Followed, Structural
<1>12. Births'
  <2>1. doc'.comps \subseteq born' /\ \A e \in Components \ born' : map'[e] = 0
    BY <1>1, <1>3, <1>8, <1>10 DEF Births
  <2>2. \A i \in DOMAIN queue' : queue'[i].k \in Structural => queue'[i].c \in born'
    BY <1>1, <1>3, <1>11 DEF Births
  <2>3. \A i, m \in DOMAIN queue' :
          /\ queue'[i].k \in Structural /\ queue'[m].k \in Structural
          /\ queue'[i].c = queue'[m].c
          => i = m
    BY <1>1, <1>11 DEF Births
  <2>4. Filling' => \A i \in DOMAIN Current'.ids : Current'.ids[i][1] \in born'
    BY <1>1, <1>3, <1>5 DEF Births, Followed
  <2> QED BY <2>1, <2>2, <2>3, <2>4 DEF Births
<1>13. ASSUME ~leaked' PROVE Ordered' /\ Owned'
  <2>1. Ordered /\ Owned /\ ~\E i \in DOMAIN queue : IsRebuild(queue[i])
    BY <1>4, <1>13 DEF Sound, Crosses
  <2>2. ASSUME NEW i \in DOMAIN queue', queue'[i].k \in Structural
        PROVE  map'[queue'[i].c] = 0
    <3>1. queue'[i].c = queue[i].c /\ queue[i].c \in Components /\ map[queue[i].c] = 0
      BY <1>1, <1>11, <2>1, <2>2 DEF Ordered, Births, Types
    <3> QED BY <1>10, <3>1
  <2>3. \A i \in DOMAIN queue' : ~IsRebuild(queue'[i])
    BY <1>2, <1>5, <1>6, <2>1 DEF Followed, IsRebuild
  <2>4. ~Emptying' /\ ~Filling' /\ ~Emptying
    <3>1. ~Emptying /\ ~Filling
      BY <1>1, <2>1, QueueFacts DEF Emptying, Filling, Rebuilding
    <3> QED BY <1>5, <3>1 DEF Followed
  <2>5. Ordered'
    BY <2>2, <2>3, <2>4 DEF Ordered
  <2>6. Live' = Live /\ Live = Known \cup Doomed /\ Known \cap Doomed = {}
    BY <1>3, <2>1, <2>4 DEF Owned, Live
  <2>7. Known' = Known \ {map[c]}
    <3>1. Known' \subseteq Known \ {map[c]}
      BY <1>10, <2>1 DEF Known, Owned
    <3>2. Known \ {map[c]} \subseteq Known'
      BY <1>10 DEF Known
    <3> QED BY <3>1, <3>2
  <2>8. \A i \in DOMAIN queue' : queue'[i].k = "remove" =>
           \/ i \in DOMAIN queue /\ queue[i].k = "remove" /\ queue'[i].id = queue[i].id
           \/ n = 1 /\ i = last /\ queue'[i].id = map[c]
    BY <1>2, <1>5, <1>6 DEF Followed
  <2>9. CASE n = 0
    <3>1. map[c] = 0 /\ Known' = Known
      BY <1>5, <2>7, <2>9 DEF Known
    <3>2. Doomed' = Doomed
      <4>1. Doomed' \subseteq Doomed
        BY <2>8, <2>9 DEF Doomed
      <4>2. Doomed \subseteq Doomed'
        BY <1>5, <2>9 DEF Doomed, Followed
      <4> QED BY <4>1, <4>2
    <3>3. \A i, m \in DOMAIN queue' : queue'[i].k = "remove" /\ queue'[m].k = "remove"
                                      /\ queue'[i].id = queue'[m].id => i = m
      BY <2>1, <2>8, <2>9 DEF Owned
    <3>4. \A d, e \in Components : map'[d] = map'[e] /\ map'[d] # 0 => d = e
      BY <1>10, <2>1 DEF Owned
    <3> QED BY <2>4, <2>5, <2>6, <3>1, <3>2, <3>3, <3>4 DEF Owned
  <2>10. CASE n = 1
    <3>1. map[c] # 0 /\ map[c] \in Known
      BY <1>5, <2>10 DEF Known
    <3>2. Doomed' = Doomed \cup {map[c]}
      <4>1. Doomed' \subseteq Doomed \cup {map[c]}
        BY <2>8 DEF Doomed
      <4>2. Doomed \subseteq Doomed'
        BY <1>5, <2>10 DEF Doomed, Followed
      <4>3. last \in DOMAIN queue' /\ queue'[last].k = "remove" /\ queue'[last].id = map[c]
        BY <1>2, <1>5, <2>10 DEF Followed
      <4>4. map[c] \in Doomed'
        BY <4>3 DEF Doomed
      <4> QED BY <4>1, <4>2, <4>4
    <3>3. \A i \in DOMAIN queue : queue[i].k = "remove" => queue[i].id # map[c]
      BY <2>6, <3>1 DEF Doomed
    <3>4. \A i, m \in DOMAIN queue' : queue'[i].k = "remove" /\ queue'[m].k = "remove"
                                      /\ queue'[i].id = queue'[m].id => i = m
      BY <2>1, <2>8, <3>3 DEF Owned
    <3>5. \A d, e \in Components : map'[d] = map'[e] /\ map'[d] # 0 => d = e
      BY <1>10, <2>1 DEF Owned
    <3>6. Known' \cap Doomed' = {} /\ Live' = Known' \cup Doomed'
      BY <2>6, <2>7, <3>1, <3>2
    <3> QED BY <2>4, <2>5, <3>4, <3>5, <3>6 DEF Owned
  <2> QED BY <2>9, <2>10
<1> QED BY <1>7, <1>9, <1>12, <1>13 DEF Sound

\* A snapshot.
LEMMA ProjectChangedStep ==
  ASSUME Sound, NEW next \in Snapshots, projectChanged(next)
  PROVE  Sound'
<1>1. Types /\ OneAtATime /\ Awaits /\ Births
  BY DEF Sound
<1>2. UNCHANGED <<map, inst, snapWait, rebuildScheduled, previews, born>>
  BY DEF projectChanged, coreVars, previewVars
<1>3. doc' = next /\ next \in Docs /\ next.comps \subseteq born
  BY <1>1 DEF projectChanged, Snapshots, Docs, Types
<1>4. leaked' = (leaked \/ Crosses)
  BY DEF projectChanged, Crossing
<1>5. Followed(0)
  <2>1. queue' = [i \in DOMAIN queue |-> [queue[i] EXCEPT !.undisturbed = FALSE]]
    BY DEF projectChanged
  <2> QED BY <1>1, <2>1, DisturbedFollows
<1>6. DOMAIN queue' = DOMAIN queue
  BY <1>5 DEF Followed
<1>7. snaps' \in Seq([prev : Docs, next : Docs]) /\ snaps' # <<>>
  <2>1. snaps' = Append(snaps, [prev |-> doc, next |-> next])
        /\ [prev |-> doc, next |-> next] \in [prev : Docs, next : Docs]
    BY <1>1, <1>3 DEF projectChanged, Types
  <2>2. Len(snaps) \in Nat /\ Len(snaps') = Len(snaps) + 1
        /\ snaps' \in Seq([prev : Docs, next : Docs])
    BY <1>1, <2>1, AppendProperties, LenProperties DEF Types
  <2> QED BY <2>2, EmptySeq
<1>8. OneAtATime' /\ Awaits'
  BY <1>1, <1>2, <1>5, <1>7, FollowedKeeps
<1>9. Types'
  <2>1. map' \in [Components -> Nat] /\ born' \in SUBSET Components /\ leaked' \in BOOLEAN
    BY <1>1, <1>2, <1>4 DEF Types
  <2> QED BY <1>1, <1>2, <1>3, <1>5, <1>7, <2>1, FollowedTypes
<1>10. Births'
  BY <1>1, <1>2, <1>3, <1>5 DEF Births, Followed
<1>11. ASSUME ~leaked' PROVE Ordered' /\ Owned'
  <2>1. Ordered /\ Owned /\ ~\E i \in DOMAIN queue : IsRebuild(queue[i])
    BY <1>4, <1>11 DEF Sound, Crosses
  <2>2. ~Emptying' /\ ~Filling' /\ ~Emptying
    <3>1. ~Emptying /\ ~Filling
      BY <1>1, <2>1, QueueFacts DEF Emptying, Filling, Rebuilding
    <3> QED BY <1>5, <3>1 DEF Followed
  <2>3. Ordered'
    BY <1>2, <1>5, <2>1 DEF Ordered, Followed, IsRebuild
  <2>4. Doomed' = Doomed
    BY <1>5, <1>6 DEF Doomed, Followed
  <2>5. Known' = Known /\ Live' = Live
    BY <1>2 DEF Known, Live
  <2>6. Owned'
    BY <1>2, <1>5, <2>1, <2>4, <2>5 DEF Owned, Followed
  <2> QED BY <2>3, <2>6
<1> QED BY <1>8, <1>9, <1>10, <1>11 DEF Sound

-----------------------------------------------------------------------------
(* The Core gains and loses instances *)

\* Ids are positions, and the next id is not in use.
LEMMA InstFacts ==
  ASSUME Types
  PROVE  /\ inst \in Seq(Instances) /\ Len(inst) \in Nat /\ DOMAIN inst = 1..Len(inst)
         /\ \A n \in 1..Len(inst) : inst[n] \in Instances
         /\ Live \subseteq 1..Len(inst) /\ (Len(inst) + 1) \notin Live
<1>1. /\ inst \in Seq(Instances) /\ Len(inst) \in Nat /\ DOMAIN inst = 1..Len(inst)
      /\ \A n \in 1..Len(inst) : inst[n] \in Instances
  BY LenProperties, ElementOfSeq DEF Types
<1>2. Live \subseteq 1..Len(inst)
  BY <1>1 DEF Live
<1> QED BY <1>1, <1>2

\* A new instance has the value it was asked to have, or counts as having refused it.
LEMMA AddedIs ==
  ASSUME NEW e \in Components, NEW v \in Values, AddInstance(e, v)
  PROVE  \E r \in Instances : inst' = Append(inst, r) /\ r.live /\ v \in {r.val, r.denied}
<1>1. PICK x \in IF v \in Invalid THEN {0, v} ELSE {v} :
         inst' = Append(inst, [of |-> e, val |-> x, live |-> TRUE,
                               denied |-> IF v \in Invalid THEN v ELSE -1])
  BY DEF AddInstance
<1> DEFINE r == [of |-> e, val |-> x, live |-> TRUE,
                denied |-> IF v \in Invalid THEN v ELSE -1]
<1>2. r \in Instances /\ r.live /\ v \in {r.val, r.denied}
  BY ValuesAssumption DEF Instances
<1> QED BY <1>1, <1>2

\* A new instance lives under the next id, and no other changes.
LEMMA AddInstanceLives ==
  ASSUME Types, NEW e \in Components, NEW v \in Values, AddInstance(e, v)
  PROVE  inst' \in Seq(Instances) /\ Live' = Live \cup {Len(inst) + 1}
<1>1. PICK r \in Instances : inst' = Append(inst, r) /\ r.live /\ v \in {r.val, r.denied}
  BY AddedIs
<1>2. inst \in Seq(Instances) /\ Len(inst) \in Nat /\ DOMAIN inst = 1..Len(inst)
  BY InstFacts
<1>3. inst' = Append(inst, r)
  BY <1>1
<1>4. /\ inst' \in Seq(Instances) /\ Len(inst') = Len(inst) + 1 /\ inst'[Len(inst) + 1] = r
      /\ \A i \in 1..Len(inst) : inst'[i] = inst[i]
  BY <1>1, <1>2, <1>3, AppendProperties
<1>5. DOMAIN inst' = 1..(Len(inst) + 1)
  BY <1>4, LenProperties
<1>6. \A i \in DOMAIN inst' : i \in DOMAIN inst \/ i = Len(inst) + 1
  BY <1>2, <1>5
<1>7. Live' \subseteq Live \cup {Len(inst) + 1}
  BY <1>2, <1>4, <1>6 DEF Live
<1>8. Live \subseteq Live'
  BY <1>2, <1>4, <1>5 DEF Live
<1>9. Len(inst) + 1 \in Live'
  BY <1>1, <1>2, <1>4, <1>5 DEF Live
<1> QED BY <1>4, <1>7, <1>8, <1>9

\* A removal leaves a table of instances.
LEMMA RemoveInstanceTypes ==
  ASSUME Types, NEW i, RemoveInstance(i)
  PROVE  inst' \in Seq(Instances)
<1>1. /\ inst \in Seq(Instances) /\ Len(inst) \in Nat /\ DOMAIN inst = 1..Len(inst)
      /\ \A n \in 1..Len(inst) : inst[n] \in Instances
  BY InstFacts
<1>2. inst' = [inst EXCEPT ![i].live = FALSE]
  BY DEF RemoveInstance
<1>3. CASE i \in DOMAIN inst
  <2>1. [inst[i] EXCEPT !.live = FALSE] \in Instances
    BY <1>1, <1>3 DEF Instances
  <2>2. inst' = [inst EXCEPT ![i] = [inst[i] EXCEPT !.live = FALSE]]
    BY <1>2, <1>3
  <2> QED BY <1>1, <1>3, <2>1, <2>2
<1>4. CASE i \notin DOMAIN inst
  <2>1. inst' = inst
    BY <1>1, <1>2, <1>4
  <2> QED BY <1>1, <2>1
<1> QED BY <1>3, <1>4

\* A removal ends the instance it names and no other.
LEMMA RemoveInstanceDies ==
  ASSUME Types, NEW i \in Live, RemoveInstance(i)
  PROVE  inst' \in Seq(Instances) /\ Live' = Live \ {i}
<1>1. /\ inst \in Seq(Instances) /\ Len(inst) \in Nat /\ DOMAIN inst = 1..Len(inst)
      /\ \A n \in 1..Len(inst) : inst[n] \in Instances
  BY InstFacts
<1>2. i \in 1..Len(inst)
  BY <1>1 DEF Live
<1>3. inst' = [inst EXCEPT ![i].live = FALSE]
  BY DEF RemoveInstance
<1>4. inst' \in Seq(Instances)
  BY RemoveInstanceTypes
<1>5. DOMAIN inst' = DOMAIN inst /\ \A n \in DOMAIN inst : inst'[n].live = (inst[n].live /\ n # i)
  BY <1>1, <1>2, <1>3 DEF Instances
<1> QED BY <1>4, <1>5 DEF Live

\* A component without an instance gets the one just added.
LEMMA MapGains ==
  ASSUME Types, Owned, ~Emptying, NEW c \in Components, map[c] = 0,
         map' = [map EXCEPT ![c] = Len(inst) + 1]
  PROVE  /\ map' \in [Components -> Nat]
         /\ \A e \in Components : map'[e] = IF e = c THEN Len(inst) + 1 ELSE map[e]
         /\ Known' = Known \cup {Len(inst) + 1}
         /\ (Len(inst) + 1) \notin Known \cup Doomed
         /\ \A e, f \in Components : map'[e] = map'[f] /\ map'[e] # 0 => e = f
<1>1. Len(inst) \in Nat /\ (Len(inst) + 1) \notin Live /\ map \in [Components -> Nat]
  BY InstFacts DEF Types
<1>2. /\ map' \in [Components -> Nat]
      /\ \A e \in Components : map'[e] = IF e = c THEN Len(inst) + 1 ELSE map[e]
  BY <1>1
<1>3. (Len(inst) + 1) \notin Known \cup Doomed
  BY <1>1 DEF Owned
<1>4. Known' \subseteq Known \cup {Len(inst) + 1}
  BY <1>2 DEF Known
<1>5. Known \subseteq Known'
  BY <1>2 DEF Known
<1>6. Len(inst) + 1 \in Known'
  BY <1>1, <1>2 DEF Known
<1>7. \A e \in Components : map[e] # Len(inst) + 1
  BY <1>1, <1>3 DEF Known
<1>8. \A e, f \in Components : map'[e] = map'[f] /\ map'[e] # 0 => e = f
  BY <1>2, <1>7 DEF Owned
<1> QED BY <1>2, <1>3, <1>4, <1>5, <1>6, <1>8

\* A wire job may follow the paste that has ended.
LEMMA OneMore ==
  ASSUME NEW S, NEW q \in Seq(S), q # <<>>, NEW w \in S, NEW b, NEW r,
         r = (IF b THEN Append(Tail(q), w) ELSE Tail(q))
  PROVE  /\ r \in Seq(S) /\ Len(q) \in Nat /\ Len(q) >= 1
         /\ Len(r) >= Len(q) - 1
         /\ \A i \in 1..(Len(q) - 1) : r[i] = q[i + 1]
         /\ \A i \in 1..Len(r) : i > Len(q) - 1 => r[i] = w
<1> DEFINE t == Tail(q)
<1>1. Len(q) \in Nat /\ Len(q) >= 1
  BY LenProperties, EmptySeq
<1>2. t \in Seq(S) /\ Len(t) = Len(q) - 1 /\ \A i \in 1..(Len(q) - 1) : t[i] = q[i + 1]
  BY <1>1, HeadTailProperties
<1>3. r = IF b THEN Append(t, w) ELSE t
  OBVIOUS
<1> HIDE DEF t
<1>4. CASE b
  <2>1. r = Append(t, w)
    BY <1>3, <1>4
  <2>2. r \in Seq(S) /\ Len(r) = Len(t) + 1 /\ r[Len(t) + 1] = w
        /\ \A i \in 1..Len(t) : r[i] = t[i]
    BY <1>2, <2>1, AppendProperties
  <2> QED BY <1>1, <1>2, <2>2
<1>5. CASE ~b
  <2>1. r = t
    BY <1>3, <1>5
  <2> QED BY <1>1, <1>2, <2>1
<1> QED BY <1>4, <1>5

\* The first job is done; the wire of what was pasted may follow.
LEMMA PopShape ==
  ASSUME Types, OneAtATime, Awaits, NEW w \in Jobs,
         w.k = "wire", w.phase = "queued", ~w.awaited,
         queue' \in Seq(Jobs), Len(queue) >= 1, Len(queue') >= Len(queue) - 1,
         \A i \in 1..(Len(queue) - 1) : queue'[i] = queue[i + 1],
         \A i \in 1..Len(queue') : i > Len(queue) - 1 => queue'[i] = w,
         UNCHANGED <<rebuildScheduled, snaps, snapWait>>
  PROVE  Shifted(1) /\ Added(1) /\ Awaits' /\ ~Emptying' /\ ~Filling'
<1>1. Len(queue) \in Nat /\ DOMAIN queue = 1..Len(queue)
  BY QueueFacts
<1>7. \A i \in 1..(Len(queue) - 1) :
         Alike(queue'[i], queue[i + 1]) /\ queue'[i].phase = queue[i + 1].phase
  BY DEF Alike
<1>8. Shifted(1)
  BY <1>1, <1>7 DEF Shifted
<1>9. Added(1)
  BY DEF Added, Plain
<1>10. DOMAIN queue' = 1..Len(queue') /\ Len(queue') \in Nat
  BY LenProperties
<1>11. \A i \in DOMAIN queue' :
          queue'[i] = w \/ (i + 1 \in DOMAIN queue /\ i + 1 # 1 /\ queue'[i] = queue[i + 1])
  BY <1>1, <1>10
<1>12. ~Waits(w)
  BY DEF Waits
<1>13. Awaits'
  <2>1. \A i \in DOMAIN queue' : queue'[i].awaited => i + 1 \in DOMAIN queue /\ queue[i + 1].awaited
    BY <1>11
  <2>2. \A i \in DOMAIN queue' : Waits(queue'[i]) => i + 1 \in DOMAIN queue /\ Waits(queue[i + 1])
    BY <1>11, <1>12
  <2>3. snapWait # "none" => snaps' # <<>>
    BY DEF Awaits
  <2> QED BY <1>8, <2>1, <2>2, <2>3, KeptAwaits
<1>14. ~Emptying' /\ ~Filling'
  <2> SUFFICES ASSUME queue' # <<>> PROVE Current'.phase = "queued"
    BY DEF Emptying, Filling, Rebuilding
  <2>1. 1 \in DOMAIN queue' /\ Current' = queue'[1]
    BY <1>10, EmptySeq DEF Current
  <2> QED BY <1>11, <2>1 DEF OneAtATime
<1> QED BY <1>8, <1>9, <1>13, <1>14

\* The new instance enters the map.
LEMMA AnswerAddStep ==
  ASSUME Sound, queue # <<>>, AnswerAdd
  PROVE  Sound'
<1>1. Types /\ OneAtATime /\ Awaits /\ Births
  BY DEF Sound
<1>2. /\ Current \in Jobs /\ Current = queue[1] /\ 1 \in DOMAIN queue /\ Current.k \in Structural
      /\ Current.c \in Components /\ Current.c \in born /\ Current.v \in Values
      /\ Current.k # "remove" /\ ~Emptying
  BY <1>1, QueueFacts DEF AnswerAdd, Jobs, Structural, Births, Emptying, Rebuilding
<1>3. /\ UNCHANGED <<rebuildScheduled, born, snaps, snapWait, previews>>
      /\ queue' = (IF Current.connect THEN Append(Tail(queue), Job("wire")) ELSE Tail(queue))
  BY DEF AnswerAdd, snapVars, previewVars
<1>4. Shifted(1) /\ Added(1) /\ Awaits' /\ ~Emptying' /\ ~Filling'
  <2> DEFINE w == Job("wire")
  <2>1. w \in Jobs /\ w.k = "wire" /\ w.phase = "queued" /\ ~w.awaited
    BY ValuesAssumption DEF Job, Jobs, Kinds, Phases, Structural
  <2>2. queue \in Seq(Jobs)
    BY <1>1 DEF Types
  <2>3. queue' = (IF Current.connect THEN Append(Tail(queue), w) ELSE Tail(queue))
    BY <1>3
  <2> HIDE DEF w
  <2>4. /\ queue' \in Seq(Jobs) /\ Len(queue) >= 1 /\ Len(queue') >= Len(queue) - 1
        /\ \A i \in 1..(Len(queue) - 1) : queue'[i] = queue[i + 1]
        /\ \A i \in 1..Len(queue') : i > Len(queue) - 1 => queue'[i] = w
    BY <2>1, <2>2, <2>3, OneMore
  <2> QED BY <1>1, <1>3, <2>1, <2>4, PopShape
<1>5. PICK answer \in Answers(~on) :
           /\ IF answer = "refused" THEN UNCHANGED inst ELSE AddInstance(Current.c, Current.v)
           /\ map' = IF answer = "ok" THEN [map EXCEPT ![Current.c] = Len(inst) + 1] ELSE map
           /\ doc' = IF answer = "ok" /\ Current.k = "add"
                     THEN [doc EXCEPT !.comps = @ \cup {Current.c}] ELSE doc
           /\ leaked' = (leaked \/ answer = "lost")
  BY DEF AnswerAdd
<1>6. answer \in {"ok", "lost", "refused"}
  BY DEF Answers
<1>7. inst' \in Seq(Instances)
  BY <1>1, <1>2, <1>5, AddInstanceLives, InstFacts
<1>8. doc' \in Docs /\ doc'.comps \subseteq doc.comps \cup {Current.c}
  BY <1>1, <1>2, <1>5 DEF Types, Docs
<1>9. map' \in [Components -> Nat]
  BY <1>1, <1>2, <1>5, InstFacts DEF Types
<1>10. Types'
  BY <1>1, <1>3, <1>4, <1>5, <1>7, <1>8, <1>9 DEF Types, Shifted
<1>11. OneAtATime'
  BY <1>1, <1>4, KeptOneAtATime
<1>12. Births'
  <2>1. \A e \in Components \ born : map'[e] = 0
    BY <1>1, <1>2, <1>5 DEF Births, Types
  <2>2. doc'.comps \subseteq born
    BY <1>1, <1>2, <1>8 DEF Births
  <2> QED BY <1>1, <1>3, <1>4, <2>1, <2>2, KeptBirths
<1>13. ASSUME ~leaked' PROVE Ordered' /\ Owned'
  <2>1. Ordered /\ Owned /\ answer \in {"ok", "refused"}
    BY <1>5, <1>6, <1>13 DEF Sound
  <2>2. map[Current.c] = 0
    BY <1>2, <2>1 DEF Ordered
  <2>3. \A i \in DOMAIN queue : i > 1 /\ queue[i].k \in Structural =>
           queue[i].c # Current.c /\ queue[i].c \in Components
    <3>1. \A i \in DOMAIN queue : i > 1 => i # 1
      BY <1>1, QueueFacts
    <3>2. born \subseteq Components
      BY <1>1 DEF Types
    <3> QED BY <1>1, <1>2, <3>1, <3>2 DEF Births
  <2>4. Ordered'
    <3>1. ASSUME NEW i \in DOMAIN queue, i > 1, queue[i].k \in Structural
          PROVE  map'[queue[i].c] = 0
      <4>1. map[queue[i].c] = 0
        BY <2>1, <3>1 DEF Ordered
      <4> QED BY <1>1, <1>5, <2>3, <3>1, <4>1 DEF Types
    <3>2. \A i \in DOMAIN queue :
             i > 1 /\ queue[i].k = "add" /\ queue[i].c \in doc'.comps => queue[i].c \in doc.comps
      BY <1>8, <2>3 DEF Structural
    <3> QED BY <1>1, <1>4, <2>1, <3>1, <3>2, KeptOrdered
  <2>5. CASE answer = "refused"
    <3>1. UNCHANGED <<map, inst>>
      BY <1>5, <2>5
    <3>2. Live' = Live
      BY <3>1, AliveSame
    <3>3. Owned'
      BY <1>1, <1>2, <1>4, <2>1, <3>1, <3>2, KeptOwned
    <3> QED BY <2>4, <3>3
  <2>6. CASE answer = "ok"
    <3>1. Live' = Live \cup {Len(inst) + 1}
      BY <1>1, <1>2, <1>5, <2>6, AddInstanceLives
    <3>2. /\ Known' = Known \cup {Len(inst) + 1}
          /\ (Len(inst) + 1) \notin Known \cup Doomed
          /\ \A e, f \in Components : map'[e] = map'[f] /\ map'[e] # 0 => e = f
      BY <1>1, <1>2, <1>5, <2>1, <2>2, <2>6, MapGains
    <3>3. /\ Doomed' = Doomed
          /\ \A i \in DOMAIN queue' : queue'[i].k = "remove" =>
               i + 1 \in DOMAIN queue /\ queue[i + 1].k = "remove" /\ i \in Int
               /\ queue'[i].id = queue[i + 1].id
      BY <1>1, <1>2, <1>4, KeptDoomed
    <3>4. ASSUME NEW i \in DOMAIN queue', NEW n \in DOMAIN queue',
                 queue'[i].k = "remove", queue'[n].k = "remove", queue'[i].id = queue'[n].id
          PROVE  i = n
      <4>1. i + 1 = n + 1 /\ i \in Int /\ n \in Int
        BY <2>1, <3>3, <3>4 DEF Owned
      <4> QED BY <4>1
    <3>5. Live' = Known' \cup Doomed' /\ Known' \cap Doomed' = {}
      BY <1>2, <2>1, <3>1, <3>2, <3>3 DEF Owned
    <3>6. Owned'
      BY <1>4, <3>2, <3>4, <3>5 DEF Owned
    <3> QED BY <2>4, <3>6
  <2> QED BY <2>1, <2>5, <2>6
<1> QED BY <1>4, <1>10, <1>11, <1>12, <1>13 DEF Sound

\* The removed instance was that of the removal.
LEMMA AnswerRemoveStep ==
  ASSUME Sound, queue # <<>>, AnswerRemove
  PROVE  Sound'
<1>1. Types /\ OneAtATime /\ Awaits /\ Births
  BY DEF Sound
<1>2. /\ Current \in Jobs /\ Current = queue[1] /\ 1 \in DOMAIN queue /\ Current.k = "remove"
      /\ ~Emptying /\ Len(queue) \in Nat /\ DOMAIN queue = 1..Len(queue) /\ Len(queue) >= 1
  BY <1>1, QueueFacts DEF AnswerRemove, Emptying, Rebuilding, IsRebuild
<1>3. /\ UNCHANGED <<doc, map, born, rebuildScheduled, snaps, snapWait, previews>>
      /\ queue' = Tail(queue)
  BY DEF AnswerRemove, docVars, snapVars, previewVars, Finish
<1>4. /\ Shifted(1) /\ Added(1) /\ Len(queue') = Len(queue) - 1
      /\ \A i \in 1..(Len(queue) - 1) : queue'[i] = queue[i + 1]
  BY <1>1, <1>3, FinishShape
<1>5. DOMAIN queue' = 1..(Len(queue) - 1)
  BY <1>2, <1>4, LenProperties DEF Shifted
<1>6. \A i \in DOMAIN queue' : i \in Int /\ i + 1 \in DOMAIN queue /\ queue'[i] = queue[i + 1] /\ i + 1 # 1
  BY <1>2, <1>4, <1>5
<1>7. Awaits'
  <2>1. snapWait # "none" => snaps' # <<>>
    BY <1>1, <1>3 DEF Awaits
  <2> QED BY <1>1, <1>3, <1>4, <1>6, <2>1, KeptAwaits
<1>8. ~Emptying' /\ ~Filling'
  <2> SUFFICES ASSUME queue' # <<>> PROVE Current'.phase = "queued"
    BY DEF Emptying, Filling, Rebuilding
  <2>1. Len(queue') >= 1 /\ Current' = queue'[1]
    BY <1>2, <1>4 DEF Current, Shifted
  <2>2. 1 \in DOMAIN queue'
    BY <1>2, <1>4, <1>5, <2>1
  <2> QED BY <1>1, <1>6, <2>1, <2>2 DEF OneAtATime
<1>9. PICK answer \in Answers(~on) :
           /\ IF answer = "refused" THEN UNCHANGED <<inst, wires>> ELSE RemoveInstance(Current.id)
           /\ leaked' = (leaked \/ answer = "refused")
  BY DEF AnswerRemove
<1>10. inst' \in Seq(Instances) /\ leaked' \in BOOLEAN
  BY <1>1, <1>9, RemoveInstanceTypes DEF Types
<1>11. Types'
  BY <1>1, <1>3, <1>8, <1>10 DEF Types
<1>12. OneAtATime'
  BY <1>1, <1>4, KeptOneAtATime
<1>13. Births'
  BY <1>1, <1>3, <1>4, <1>8, KeptBirths DEF Births
<1>14. ASSUME ~leaked' PROVE Ordered' /\ Owned'
  <2>1. Ordered /\ Owned /\ answer # "refused"
    BY <1>9, <1>14 DEF Sound
  <2>2. Ordered'
    <3>1. \A i \in DOMAIN queue : queue[i].k \in Structural => map'[queue[i].c] = 0
      BY <1>3, <2>1 DEF Ordered
    <3> QED BY <1>1, <1>3, <1>4, <1>8, <2>1, <3>1, KeptOrdered
  <2>3. Live = Known \cup Doomed /\ Known \cap Doomed = {} /\ Current.id \in Doomed
    BY <1>2, <2>1 DEF Owned, Doomed
  <2>4. Live' = Live \ {Current.id}
    BY <1>1, <1>9, <2>1, <2>3, RemoveInstanceDies
  <2>5. Doomed' = Doomed \ {Current.id}
    <3>1. \A i \in DOMAIN queue : queue[i].k = "remove" /\ i # 1 => queue[i].id # Current.id
      BY <1>2, <2>1 DEF Owned
    <3>2. Doomed' \subseteq Doomed \ {Current.id}
      BY <1>6, <3>1 DEF Doomed
    <3>3. ASSUME NEW i \in DOMAIN queue, queue[i].k = "remove", queue[i].id # Current.id
          PROVE  queue[i].id \in Doomed'
      <4>1. i - 1 \in DOMAIN queue' /\ (i - 1) + 1 = i
        BY <1>2, <1>5, <3>3
      <4>2. queue'[i - 1] = queue[i]
        BY <1>6, <4>1
      <4> QED BY <3>3, <4>1, <4>2 DEF Doomed
    <3>4. Doomed \ {Current.id} \subseteq Doomed'
      BY <3>3 DEF Doomed
    <3> QED BY <3>2, <3>4
  <2>6. Known' = Known
    BY <1>3 DEF Known
  <2>7. ASSUME NEW i \in DOMAIN queue', NEW n \in DOMAIN queue',
               queue'[i].k = "remove", queue'[n].k = "remove", queue'[i].id = queue'[n].id
        PROVE  i = n
    <3>1. i + 1 = n + 1 /\ i \in Int /\ n \in Int
      BY <1>6, <2>1, <2>7 DEF Owned
    <3> QED BY <3>1
  <2>8. Live' = Known' \cup Doomed' /\ Known' \cap Doomed' = {}
    BY <2>3, <2>4, <2>5, <2>6
  <2>9. Owned'
    BY <1>3, <1>8, <2>1, <2>7, <2>8 DEF Owned
  <2> QED BY <2>2, <2>9
<1> QED BY <1>7, <1>11, <1>12, <1>13, <1>14 DEF Sound

-----------------------------------------------------------------------------
(* A rebuild empties the Core and fills it again *)

\* Behind a rebuild that has begun nothing is removed or pasted.
LEMMA NothingDoomed ==
  ASSUME Types, Ordered, queue # <<>>, IsRebuild(Current)
  PROVE  /\ Doomed = {}
         /\ \A i \in DOMAIN queue : queue[i].k # "remove" /\ queue[i].k # "insert"
         /\ \A i \in DOMAIN queue : queue[i].k = "add" => queue[i].c \notin doc.comps
<1>1. /\ 1 \in DOMAIN queue /\ Current = queue[1]
      /\ \A i \in DOMAIN queue : i # 1 => 1 < i
  BY QueueFacts
<1>2. \A i \in DOMAIN queue : queue[i].k # "remove" /\ queue[i].k # "insert"
  BY <1>1 DEF Ordered, IsRebuild
<1>3. \A i \in DOMAIN queue : queue[i].k = "add" => queue[i].c \notin doc.comps
  BY <1>1 DEF Ordered, IsRebuild
<1> QED BY <1>2, <1>3 DEF Doomed

\* A rebuild goes on to another phase or another element: the rest of the queue stays.
LEMMA RebuildGoesOn ==
  ASSUME Types, OneAtATime, Awaits, queue # <<>>, IsRebuild(Current),
         NEW p \in Phases, p # "queued",
         NEW ids \in Seq(Nat \cup (Components \X Values)), NEW u \in BOOLEAN,
         queue' = [queue EXCEPT ![1] = [Current EXCEPT !.phase = p, !.ids = ids, !.undisturbed = u]],
         UNCHANGED <<rebuildScheduled, snaps, snapWait>>
  PROVE  /\ Shifted(0) /\ Added(0) /\ queue' # <<>> /\ OneAtATime' /\ Awaits'
         /\ Current'.phase = p /\ Current'.ids = ids /\ IsRebuild(Current')
         /\ DOMAIN queue' = DOMAIN queue
         /\ \A i \in DOMAIN queue : /\ queue'[i].k = queue[i].k /\ queue'[i].c = queue[i].c
                                    /\ queue'[i].id = queue[i].id
         /\ Doomed' = Doomed
<1> DEFINE j == [Current EXCEPT !.phase = p, !.ids = ids, !.undisturbed = u]
<1>1. /\ Current \in Jobs /\ queue \in Seq(Jobs) /\ Current = queue[1]
      /\ Len(queue) \in Nat /\ Len(queue) >= 1 /\ DOMAIN queue = 1..Len(queue)
  BY QueueFacts DEF Types
<1>2. /\ j \in Jobs /\ j.k = Current.k /\ j.c = Current.c /\ j.id = Current.id
      /\ j.awaited = Current.awaited /\ j.phase = p /\ j.ids = ids
  BY <1>1 DEF Jobs
<1>3. Alike(j, Current) /\ ~Waits(j) /\ IsRebuild(j)
  BY <1>2 DEF Alike, Waits, IsRebuild
<1>4. queue' = [queue EXCEPT ![1] = j]
  OBVIOUS
<1> HIDE DEF j
<1>5. Shifted(0) /\ Added(0) /\ queue' # <<>> /\ Current' = j
  BY <1>2, <1>3, <1>4, ProceedShape
<1>6. Awaits'
  BY <1>2, <1>3, <1>4, ProceedAwaits
<1>7. OneAtATime'
  BY <1>5, KeptOneAtATime
<1>8. /\ DOMAIN queue' = DOMAIN queue
      /\ \A i \in DOMAIN queue : queue'[i] = IF i = 1 THEN j ELSE queue[i]
  BY <1>1, <1>4
<1>9. \A i \in DOMAIN queue : /\ queue'[i].k = queue[i].k /\ queue'[i].c = queue[i].c
                              /\ queue'[i].id = queue[i].id
  BY <1>1, <1>2, <1>8
<1>10. Doomed' = Doomed
  BY <1>8, <1>9 DEF Doomed
<1> QED BY <1>2, <1>3, <1>5, <1>6, <1>7, <1>8, <1>9, <1>10

\* The map knows finitely many instances.
LEMMA KnownIsFinite ==
  ASSUME Types
  PROVE  IsFiniteSet(Known) /\ Known \subseteq Nat
<1> DEFINE f == [c \in Components |-> map[c]]
           T == {map[c] : c \in Components}
<1>1. f \in Surjection(Components, T)
  BY DEF Surjection
<1>2. IsFiniteSet(T)
  BY <1>1, ComponentsAssumption, FS_Surjection
<1>3. Known \subseteq T
  BY DEF Known
<1> QED BY <1>2, <1>3, FS_Subset DEF Known, Types

\* A rebuild takes stock of the instances it will remove.
LEMMA RebuildHaltStep ==
  ASSUME Sound, RebuildHalt
  PROVE  Sound'
<1>1. Types /\ OneAtATime /\ Awaits /\ Births /\ queue # <<>> /\ IsRebuild(Current) /\ ~Emptying
  BY DEF Sound, RebuildHalt, Rebuilding, Emptying
<1>2. UNCHANGED <<doc, map, inst, born, leaked, rebuildScheduled, snaps, snapWait, previews>>
  BY DEF RebuildHalt, Proceed, docVars, ghosts, snapVars, previewVars
<1>3. Current \in Jobs /\ Current.undisturbed \in BOOLEAN
  BY <1>1, QueueFacts DEF Jobs
<1> DEFINE ids == SetToSeq(Known)
<1>4. /\ ids \in Seq(Known) /\ ToSet(ids) = Known
      /\ \A i, j \in DOMAIN ids : ids[i] = ids[j] => i = j
  BY <1>1, KnownIsFinite, SetToSeqIs
<1>5. ids \in Seq(Nat) /\ ids \in Seq(Nat \cup (Components \X Values))
  <2>1. Known \subseteq Nat /\ Known \subseteq Nat \cup (Components \X Values)
    BY <1>1, KnownIsFinite
  <2> HIDE DEF ids
  <2> QED BY <1>4, <2>1, SeqOfMore
<1>6. queue' = [queue EXCEPT ![1] =
                  [Current EXCEPT !.phase = "remove", !.ids = ids,
                                  !.undisturbed = Current.undisturbed]]
  <2>1. queue' = [queue EXCEPT ![1] = [Current EXCEPT !.phase = "remove", !.ids = ids]]
    BY DEF RebuildHalt, Proceed, CaptureInstances, Known
  <2> HIDE DEF ids
  <2>2. [Current EXCEPT !.phase = "remove", !.ids = ids]
          = [Current EXCEPT !.phase = "remove", !.ids = ids, !.undisturbed = Current.undisturbed]
    BY <1>3 DEF Jobs
  <2> QED BY <2>1, <2>2
<1> HIDE DEF ids
<1>7. /\ Shifted(0) /\ Added(0) /\ queue' # <<>> /\ OneAtATime' /\ Awaits'
      /\ Current'.phase = "remove" /\ Current'.ids = ids /\ IsRebuild(Current')
      /\ DOMAIN queue' = DOMAIN queue
      /\ \A i \in DOMAIN queue : /\ queue'[i].k = queue[i].k /\ queue'[i].c = queue[i].c
                                 /\ queue'[i].id = queue[i].id
      /\ Doomed' = Doomed
  <2>1. "remove" \in Phases
    BY DEF Phases
  <2> QED BY <1>1, <1>2, <1>3, <1>5, <1>6, <2>1, RebuildGoesOn
<1>8. Emptying' /\ ~Filling'
  BY <1>7 DEF Emptying, Filling, Rebuilding
<1>9. Types'
  BY <1>1, <1>2, <1>5, <1>7, <1>8 DEF Types, Shifted
<1>10. Births'
  BY <1>1, <1>2, <1>7, <1>8 DEF Births
<1>11. ASSUME ~leaked' PROVE Ordered' /\ Owned'
  <2>1. Ordered /\ Owned
    BY <1>2, <1>11 DEF Sound
  <2>2. Ordered'
    BY <1>2, <1>7, <1>8, <2>1 DEF Ordered, IsRebuild
  <2>3. Doomed = {} /\ Known' = Known /\ Live' = Live
    BY <1>1, <1>2, <2>1, NothingDoomed DEF Known, Live
  <2>4. Live' = ToSet(Current'.ids)
    BY <1>1, <1>4, <1>7, <2>1, <2>3 DEF Owned
  <2>5. IsInjective(Current'.ids)
    BY <1>4, <1>7 DEF IsInjective
  <2>6. Owned'
    BY <1>2, <1>7, <1>8, <2>1, <2>3, <2>4, <2>5 DEF Owned
  <2> QED BY <2>2, <2>6
<1> QED BY <1>7, <1>9, <1>10, <1>11 DEF Sound

\* It removes them one by one,
LEMMA RebuildRemoveStep ==
  ASSUME Sound, RebuildRemove
  PROVE  Sound'
<1>1. /\ Types /\ OneAtATime /\ Awaits /\ Births /\ queue # <<>> /\ IsRebuild(Current)
      /\ Emptying /\ Current.ids # <<>>
  BY DEF Sound, RebuildRemove, Rebuilding, Emptying
<1>2. UNCHANGED <<doc, map, born, rebuildScheduled, snaps, snapWait, previews>>
  BY DEF RebuildRemove, Proceed, docVars, snapVars, previewVars
<1>3. Current \in Jobs /\ Current.undisturbed \in BOOLEAN /\ Current.phase = "remove"
  BY <1>1, QueueFacts DEF Jobs, Emptying, Rebuilding
<1> DEFINE old == Current.ids
           ids == Tail(old)
           x == Head(old)
<1>4. old \in Seq(Nat) /\ old # <<>>
  BY <1>1 DEF Types
<1>5. /\ Len(old) \in Nat /\ Len(old) >= 1 /\ DOMAIN old = 1..Len(old)
      /\ x = old[1] /\ ids \in Seq(Nat) /\ DOMAIN ids = 1..(Len(old) - 1)
      /\ \A i \in 1..(Len(old) - 1) : ids[i] = old[i + 1]
  <2> HIDE DEF old
  <2>1. Len(old) \in Nat /\ Len(old) >= 1 /\ DOMAIN old = 1..Len(old)
    BY <1>4, LenProperties, EmptySeq
  <2>2. x = old[1] /\ ids \in Seq(Nat) /\ Len(ids) = Len(old) - 1
        /\ \A i \in 1..(Len(old) - 1) : ids[i] = old[i + 1]
    BY <1>4, <2>1, HeadTailProperties
  <2> HIDE DEF ids, x
  <2>3. DOMAIN ids = 1..(Len(old) - 1)
    BY <2>2, LenProperties
  <2> QED BY <2>1, <2>2, <2>3
<1>6. queue' = [queue EXCEPT ![1] =
                  [Current EXCEPT !.phase = "remove", !.ids = ids,
                                  !.undisturbed = Current.undisturbed]]
  <2>1. queue' = [queue EXCEPT ![1] = [Current EXCEPT !.ids = ids]]
    BY <1>3 DEF RebuildRemove, Proceed, Jobs
  <2> HIDE DEF ids
  <2>2. [Current EXCEPT !.ids = ids]
          = [Current EXCEPT !.phase = "remove", !.ids = ids, !.undisturbed = Current.undisturbed]
    BY <1>3 DEF Jobs
  <2> QED BY <2>1, <2>2
<1>7. PICK answer \in Answers(~on) :
           /\ IF answer = "refused" THEN UNCHANGED <<inst, wires>> ELSE RemoveInstance(x)
           /\ leaked' = (leaked \/ answer = "refused")
  BY DEF RebuildRemove
<1> HIDE DEF old, ids, x
<1>8. ids \in Seq(Nat \cup (Components \X Values))
  BY <1>5, SeqOfMore
<1>9. /\ Shifted(0) /\ Added(0) /\ queue' # <<>> /\ OneAtATime' /\ Awaits'
      /\ Current'.phase = "remove" /\ Current'.ids = ids /\ IsRebuild(Current')
      /\ DOMAIN queue' = DOMAIN queue
      /\ \A i \in DOMAIN queue : /\ queue'[i].k = queue[i].k /\ queue'[i].c = queue[i].c
                                 /\ queue'[i].id = queue[i].id
      /\ Doomed' = Doomed
  <2>1. "remove" \in Phases
    BY DEF Phases
  <2> QED BY <1>1, <1>2, <1>3, <1>6, <1>8, <2>1, RebuildGoesOn
<1>10. Emptying' /\ ~Filling'
  BY <1>9 DEF Emptying, Filling, Rebuilding
<1>11. Types'
  <2>1. inst' \in Seq(Instances) /\ leaked' \in BOOLEAN
    BY <1>1, <1>7, RemoveInstanceTypes DEF Types
  <2> QED BY <1>1, <1>2, <1>5, <1>9, <1>10, <2>1 DEF Types, Shifted
<1>12. Births'
  BY <1>1, <1>2, <1>9, <1>10 DEF Births
<1>13. ASSUME ~leaked' PROVE Ordered' /\ Owned'
  <2>1. Ordered /\ Owned /\ answer # "refused"
    BY <1>7, <1>13 DEF Sound
  <2>2. Ordered'
    BY <1>2, <1>9, <1>10, <2>1 DEF Ordered, IsRebuild
  <2>3. Live = ToSet(old) /\ IsInjective(old)
    BY <1>1, <2>1 DEF Owned, old
  <2>4. x \in Live
    BY <1>5, <2>3 DEF ToSet
  <2>5. Live' = Live \ {x}
    BY <1>1, <1>7, <2>1, <2>4, RemoveInstanceDies
  <2>6. \A i \in DOMAIN ids : i + 1 \in DOMAIN old /\ i + 1 # 1 /\ ids[i] = old[i + 1] /\ i \in Int
    BY <1>5
  <2>7. \A i \in DOMAIN old : old[i] = x => i = 1
    BY <1>5, <2>3 DEF IsInjective
  <2>8. ToSet(ids) \subseteq Live \ {x}
    BY <2>3, <2>6, <2>7 DEF ToSet
  <2>9. ASSUME NEW i \in DOMAIN old, old[i] # x
        PROVE  old[i] \in ToSet(ids)
    <3>1. i - 1 \in DOMAIN ids /\ (i - 1) + 1 = i
      BY <1>5, <2>9
    <3> QED BY <2>6, <3>1 DEF ToSet
  <2>10. Live \ {x} \subseteq ToSet(ids)
    BY <2>3, <2>9 DEF ToSet
  <2>11. IsInjective(ids)
    <3>1. ASSUME NEW i \in DOMAIN ids, NEW n \in DOMAIN ids, ids[i] = ids[n] PROVE i = n
      <4>1. i + 1 = n + 1 /\ i \in Int /\ n \in Int
        BY <2>3, <2>6, <3>1 DEF IsInjective
      <4> QED BY <4>1
    <3> QED BY <3>1 DEF IsInjective
  <2>12. Known' = Known
    BY <1>2 DEF Known
  <2>13. Owned'
    BY <1>2, <1>9, <1>10, <2>1, <2>5, <2>8, <2>10, <2>11, <2>12 DEF Owned
  <2> QED BY <2>2, <2>13
<1> QED BY <1>9, <1>11, <1>12, <1>13 DEF Sound

\* forgets the map and reads the document,
LEMMA RebuildClearStep ==
  ASSUME Sound, RebuildClear
  PROVE  Sound'
<1>1. /\ Types /\ OneAtATime /\ Awaits /\ Births /\ queue # <<>> /\ IsRebuild(Current)
      /\ Emptying /\ Current.ids = <<>>
  BY DEF Sound, RebuildClear, Rebuilding, Emptying
<1>2. /\ UNCHANGED <<doc, inst, born, leaked, rebuildScheduled, snaps, snapWait, previews>>
      /\ map' = [c \in Components |-> 0]
  BY DEF RebuildClear, Proceed, docVars, coreVars, ghosts, snapVars, previewVars
<1>3. Current \in Jobs /\ Current.undisturbed \in BOOLEAN
  BY <1>1, QueueFacts DEF Jobs
<1> DEFINE todo == SetToSeq(doc.comps)
           ids == [i \in DOMAIN todo |-> <<todo[i], doc.val[todo[i]]>>]
<1>4. doc.comps \subseteq Components /\ doc.val \in [Components -> Values] /\ IsFiniteSet(doc.comps)
  <2>1. doc.comps \subseteq Components /\ doc.val \in [Components -> Values]
    BY <1>1 DEF Types, Docs
  <2> QED BY <2>1, ComponentsAssumption, FS_Subset
<1>5. /\ todo \in Seq(doc.comps) /\ Len(todo) \in Nat /\ DOMAIN todo = 1..Len(todo)
      /\ \A i \in DOMAIN todo : todo[i] \in doc.comps
      /\ \A i, j \in DOMAIN todo : todo[i] = todo[j] => i = j
  BY <1>4, SetToSeqIs, LenProperties, ElementOfSeq
<1>6. /\ ids \in Seq(Components \X Values) /\ DOMAIN ids = DOMAIN todo
      /\ \A i \in DOMAIN todo : ids[i][1] = todo[i]
  <2> HIDE DEF todo
  <2>1. \A i \in DOMAIN todo : <<todo[i], doc.val[todo[i]]>> \in Components \X Values
    BY <1>4, <1>5
  <2> QED BY <1>5, <2>1, SeqDef
<1>7. queue' = [queue EXCEPT ![1] =
                  [Current EXCEPT !.phase = "add", !.ids = ids,
                                  !.undisturbed = Current.undisturbed]]
  <2>1. queue' = [queue EXCEPT ![1] = [Current EXCEPT !.phase = "add", !.ids = ids]]
    BY DEF RebuildClear, Proceed, CaptureComponents
  <2> HIDE DEF ids
  <2>2. [Current EXCEPT !.phase = "add", !.ids = ids]
          = [Current EXCEPT !.phase = "add", !.ids = ids, !.undisturbed = Current.undisturbed]
    BY <1>3 DEF Jobs
  <2> QED BY <2>1, <2>2
<1> HIDE DEF ids, todo
<1>8. ids \in Seq(Nat \cup (Components \X Values))
  BY <1>6, SeqOfMore
<1>9. /\ Shifted(0) /\ Added(0) /\ queue' # <<>> /\ OneAtATime' /\ Awaits'
      /\ Current'.phase = "add" /\ Current'.ids = ids /\ IsRebuild(Current')
      /\ DOMAIN queue' = DOMAIN queue
      /\ \A i \in DOMAIN queue : /\ queue'[i].k = queue[i].k /\ queue'[i].c = queue[i].c
                                 /\ queue'[i].id = queue[i].id
      /\ Doomed' = Doomed
  <2>1. "add" \in Phases
    BY DEF Phases
  <2> QED BY <1>1, <1>2, <1>3, <1>7, <1>8, <2>1, RebuildGoesOn
<1>10. ~Emptying' /\ Filling'
  BY <1>9 DEF Emptying, Filling, Rebuilding
<1>11. Types'
  <2>1. map' \in [Components -> Nat]
    BY <1>2
  <2> QED BY <1>1, <1>2, <1>6, <1>9, <1>10, <2>1 DEF Types, Shifted
<1>12. Births'
  BY <1>1, <1>2, <1>5, <1>6, <1>9 DEF Births
<1>13. ASSUME ~leaked' PROVE Ordered' /\ Owned'
  <2>1. Ordered /\ Owned
    BY <1>2, <1>13 DEF Sound
  <2>2. /\ Doomed = {}
        /\ \A i \in DOMAIN queue : queue[i].k # "remove" /\ queue[i].k # "insert"
        /\ \A i \in DOMAIN queue : queue[i].k = "add" => queue[i].c \notin doc.comps
    BY <1>1, <2>1, NothingDoomed
  <2>3. Live' = {}
    <3>1. Live = ToSet(<<>>)
      BY <1>1, <2>1 DEF Owned
    <3>2. ToSet(<<>>) = {}
      BY DEF ToSet
    <3> QED BY <1>2, <3>1, <3>2 DEF Live
  <2>4. Known' = {} /\ \A c \in Components : map'[c] = 0
    BY <1>2 DEF Known
  <2>5. \A i \in DOMAIN queue' : queue'[i].k \in Structural => map'[queue'[i].c] = 0
    <3>1. \A i \in DOMAIN queue : queue[i].k \in Structural => queue[i].c \in Components
      BY <1>1 DEF Births, Types
    <3> QED BY <1>9, <2>4, <3>1
  <2>6. Ordered'
    <3>1. \A i, j \in DOMAIN queue' : i < j /\ IsRebuild(queue'[i]) =>
             /\ queue'[j].k \notin {"remove", "insert"}
             /\ queue'[j].k = "add" => queue'[j].c \notin doc'.comps
      BY <1>2, <1>9, <2>1 DEF Ordered, IsRebuild
    <3>2. \A n \in DOMAIN ids : ids[n][1] \in doc.comps
      BY <1>5, <1>6
    <3>3. \A i \in DOMAIN queue' : queue'[i].k = "add" => queue'[i].c \notin doc.comps
      BY <1>9, <2>2
    <3>4. \A i \in DOMAIN queue' : queue'[i].k = "add" =>
             \A n \in DOMAIN Current'.ids : Current'.ids[n][1] # queue'[i].c
      BY <1>9, <3>2, <3>3
    <3> QED BY <2>5, <3>1, <3>4 DEF Ordered
  <2>7. /\ \A i \in DOMAIN ids : map'[ids[i][1]] = 0
        /\ \A i, j \in DOMAIN ids : ids[i][1] = ids[j][1] => i = j
    BY <1>4, <1>5, <1>6, <2>4
  <2>8. Owned'
    BY <1>9, <1>10, <2>2, <2>3, <2>4, <2>7 DEF Owned
  <2> QED BY <2>6, <2>8
<1> QED BY <1>9, <1>11, <1>12, <1>13 DEF Sound

\* and adds the components one by one.
LEMMA RebuildAddStep ==
  ASSUME Sound, RebuildAdd
  PROVE  Sound'
<1>1. /\ Types /\ OneAtATime /\ Awaits /\ Births /\ queue # <<>> /\ IsRebuild(Current)
      /\ Filling /\ Current.ids # <<>> /\ ~Emptying
  BY DEF Sound, RebuildAdd, Rebuilding, Filling, Emptying
<1>2. UNCHANGED <<doc, born, rebuildScheduled, snaps, snapWait, previews>>
  BY DEF RebuildAdd, Proceed, docVars, snapVars, previewVars
<1>3. Current \in Jobs /\ Current.undisturbed \in BOOLEAN /\ Current.phase = "add"
  BY <1>1, QueueFacts DEF Jobs, Filling, Rebuilding
<1> DEFINE old == Current.ids
           ids == Tail(old)
           x == Head(old)
<1>4. old \in Seq(Components \X Values) /\ old # <<>>
  BY <1>1 DEF Types
<1>5. /\ Len(old) \in Nat /\ Len(old) >= 1 /\ DOMAIN old = 1..Len(old)
      /\ x = old[1] /\ ids \in Seq(Components \X Values) /\ DOMAIN ids = 1..(Len(old) - 1)
      /\ \A i \in 1..(Len(old) - 1) : ids[i] = old[i + 1]
      /\ x \in Components \X Values
  <2> HIDE DEF old
  <2>1. Len(old) \in Nat /\ Len(old) >= 1 /\ DOMAIN old = 1..Len(old)
    BY <1>4, LenProperties, EmptySeq
  <2>2. x = old[1] /\ ids \in Seq(Components \X Values) /\ Len(ids) = Len(old) - 1
        /\ x \in Components \X Values
        /\ \A i \in 1..(Len(old) - 1) : ids[i] = old[i + 1]
    BY <1>4, <2>1, HeadTailProperties
  <2> HIDE DEF ids, x
  <2>3. DOMAIN ids = 1..(Len(old) - 1)
    BY <2>2, LenProperties
  <2> QED BY <2>1, <2>2, <2>3
<1>6. PICK answer \in Answers(~on) :
           /\ IF answer = "refused" THEN UNCHANGED inst ELSE AddInstance(x[1], x[2])
           /\ map' = IF answer = "ok" THEN [map EXCEPT ![x[1]] = Len(inst) + 1] ELSE map
           /\ leaked' = (leaked \/ answer = "lost")
           /\ queue' = [queue EXCEPT ![1] =
                          [Current EXCEPT !.ids = Tail(@), !.undisturbed = @ /\ answer = "ok"]]
  BY DEF RebuildAdd, Proceed
<1>7. answer \in {"ok", "lost", "refused"}
  BY DEF Answers
<1> DEFINE u == Current.undisturbed /\ answer = "ok"
<1>8. queue' = [queue EXCEPT ![1] =
                  [Current EXCEPT !.phase = "add", !.ids = ids, !.undisturbed = u]]
  <2>1. queue' = [queue EXCEPT ![1] = [Current EXCEPT !.ids = ids, !.undisturbed = u]]
    BY <1>3, <1>6 DEF Jobs
  <2> HIDE DEF ids, u
  <2>2. [Current EXCEPT !.ids = ids, !.undisturbed = u]
          = [Current EXCEPT !.phase = "add", !.ids = ids, !.undisturbed = u]
    BY <1>3 DEF Jobs
  <2> QED BY <2>1, <2>2
<1>9. u \in BOOLEAN /\ "add" \in Phases
  BY <1>3 DEF Phases
<1> HIDE DEF old, ids, x, u
<1>10. x[1] \in Components /\ x[2] \in Values
  BY <1>5
<1>11. ids \in Seq(Nat \cup (Components \X Values))
  BY <1>5, SeqOfMore
<1>12. /\ Shifted(0) /\ Added(0) /\ queue' # <<>> /\ OneAtATime' /\ Awaits'
       /\ Current'.phase = "add" /\ Current'.ids = ids /\ IsRebuild(Current')
       /\ DOMAIN queue' = DOMAIN queue
       /\ \A i \in DOMAIN queue : /\ queue'[i].k = queue[i].k /\ queue'[i].c = queue[i].c
                                  /\ queue'[i].id = queue[i].id
       /\ Doomed' = Doomed
  BY <1>1, <1>2, <1>8, <1>9, <1>11, RebuildGoesOn
<1>13. ~Emptying' /\ Filling'
  BY <1>12 DEF Emptying, Filling, Rebuilding
<1>14. inst' \in Seq(Instances) /\ leaked' \in BOOLEAN /\ map' \in [Components -> Nat]
  BY <1>1, <1>6, <1>10, AddInstanceLives, InstFacts DEF Types
<1>15. Types'
  BY <1>1, <1>2, <1>5, <1>12, <1>13, <1>14 DEF Types, Shifted
<1>16. \A i \in DOMAIN ids : i + 1 \in DOMAIN old /\ i + 1 # 1 /\ ids[i] = old[i + 1] /\ i \in Int
  BY <1>5
<1>17. \A i \in DOMAIN old : old[i][1] \in born
  BY <1>1 DEF Births, old
<1>18. Births'
  <2>1. \A i \in DOMAIN ids : ids[i][1] \in born'
    BY <1>2, <1>16, <1>17
  <2>2. x[1] \in born
    BY <1>5, <1>17
  <2>3. \A e \in Components \ born' : map'[e] = 0
    BY <1>1, <1>2, <1>6, <2>2 DEF Births, Types
  <2> QED BY <1>1, <1>2, <1>12, <2>1, <2>3 DEF Births
<1>19. ASSUME ~leaked' PROVE Ordered' /\ Owned'
  <2>1. Ordered /\ Owned /\ answer \in {"ok", "refused"}
    BY <1>6, <1>7, <1>19 DEF Sound
  <2>2. /\ Doomed = {}
        /\ \A i \in DOMAIN queue : queue[i].k # "remove" /\ queue[i].k # "insert"
    BY <1>1, <2>1, NothingDoomed
  <2>3. /\ \A i \in DOMAIN old : map[old[i][1]] = 0
        /\ \A i, j \in DOMAIN old : old[i][1] = old[j][1] => i = j
        /\ \A i \in DOMAIN queue : queue[i].k = "add" =>
              \A n \in DOMAIN old : old[n][1] # queue[i].c
    BY <1>1, <2>1 DEF Owned, Ordered, old
  <2>4. map[x[1]] = 0
    BY <1>5, <2>3
  <2>5. \A e \in Components : e # x[1] => map'[e] = map[e]
    BY <1>1, <1>6 DEF Types
  <2>6. \A i \in DOMAIN queue' : queue'[i].k \in Structural => map'[queue'[i].c] = 0
    <3>1. \A i \in DOMAIN queue : queue[i].k \in Structural =>
             queue[i].c \in Components /\ queue[i].c # x[1] /\ map[queue[i].c] = 0
      <4>1. \A i \in DOMAIN queue : queue[i].k \in Structural =>
               queue[i].c \in Components /\ map[queue[i].c] = 0
        BY <1>1, <2>1 DEF Births, Types, Ordered
      <4>2. \A i \in DOMAIN queue : queue[i].k \in Structural => queue[i].k = "add"
        BY <2>2 DEF Structural
      <4>3. \A i \in DOMAIN queue : queue[i].k = "add" => queue[i].c # x[1]
        <5>1. 1 \in DOMAIN old
          BY <1>5
        <5> QED BY <1>5, <2>3, <5>1
      <4> QED BY <4>1, <4>2, <4>3
    <3> QED BY <1>12, <2>5, <3>1
  <2>7. Ordered'
    BY <1>2, <1>12, <1>16, <2>1, <2>3, <2>6 DEF Ordered, IsRebuild
  <2>8. \A i, j \in DOMAIN ids : ids[i][1] = ids[j][1] => i = j
    <3>1. \A i, j \in DOMAIN ids : ids[i][1] = ids[j][1] => i + 1 = j + 1
      BY <1>16, <2>3
    <3> QED BY <1>16, <3>1
  <2>9. \A i \in DOMAIN ids : map'[ids[i][1]] = 0
    <3>1. \A i \in DOMAIN ids : ids[i][1] \in Components /\ ids[i][1] # x[1] /\ map[ids[i][1]] = 0
      <4>1. 1 \in DOMAIN old
        BY <1>5
      <4>2. born \subseteq Components
        BY <1>1 DEF Types
      <4> QED BY <1>5, <1>16, <1>17, <2>3, <4>1, <4>2
    <3> QED BY <2>5, <3>1
  <2>10. Doomed' = {}
    BY <1>12, <2>2
  <2>11. /\ Live' = Known' \cup Doomed'
         /\ \A e, f \in Components : map'[e] = map'[f] /\ map'[e] # 0 => e = f
    <3>1. /\ Live = Known
          /\ \A e, f \in Components : map[e] = map[f] /\ map[e] # 0 => e = f
      BY <1>1, <2>1, <2>2 DEF Owned
    <3>2. Known' \cup Doomed' = Known'
      BY <2>10
    <3>3. CASE answer = "refused"
      <4>1. Live' = Live /\ Known' = Known /\ UNCHANGED map
        BY <1>6, <3>3 DEF Live, Known
      <4> QED BY <3>1, <3>2, <4>1
    <3>4. CASE answer = "ok"
      <4>1. Live' = Live \cup {Len(inst) + 1}
        BY <1>1, <1>6, <1>10, <3>4, AddInstanceLives
      <4>2. /\ Known' = Known \cup {Len(inst) + 1}
            /\ \A e, f \in Components : map'[e] = map'[f] /\ map'[e] # 0 => e = f
        BY <1>1, <1>6, <1>10, <2>1, <2>4, <3>4, MapGains
      <4> QED BY <3>1, <3>2, <4>1, <4>2
    <3> QED BY <2>1, <3>3, <3>4
  <2>12. Owned'
    <3>1. \A i \in DOMAIN queue' : queue'[i].k # "remove"
      BY <1>12, <2>2
    <3>2. Known' \cap Doomed' = {}
      BY <2>10
    <3>3. /\ \A i \in DOMAIN Current'.ids : map'[Current'.ids[i][1]] = 0
          /\ \A i, j \in DOMAIN Current'.ids :
                Current'.ids[i][1] = Current'.ids[j][1] => i = j
      BY <1>12, <2>8, <2>9
    <3> QED BY <1>13, <2>11, <3>1, <3>2, <3>3 DEF Owned
  <2> QED BY <2>7, <2>12
<1> QED BY <1>12, <1>15, <1>18, <1>19 DEF Sound

-----------------------------------------------------------------------------
(* The invariant holds, and what follows from it *)

\* The components loaded are numbered 1, 2, ... in the order of their ids: no two share
\* a number and every instance is one of theirs.
LEMMA RanksAreInstances ==
  ASSUME NEW f, f = [c \in Loaded |-> Cardinality({x \in Loaded : x <= c})]
  PROVE  /\ Cardinality(Loaded) \in Nat
         /\ \A c \in Loaded : f[c] \in 1..Cardinality(Loaded)
         /\ \A c, e \in Loaded : f[c] = f[e] => c = e
         /\ {f[c] : c \in Loaded} = 1..Cardinality(Loaded)
<1> DEFINE Upto(c) == {x \in Loaded : x <= c}
           n == Cardinality(Loaded)
<1>1. Loaded \subseteq Nat /\ IsFiniteSet(Loaded) /\ n \in Nat
  BY ComponentsAssumption, LoadedAssumption, FS_Subset, FS_CardinalityType
<1>2. ASSUME NEW c \in Loaded
      PROVE  /\ IsFiniteSet(Upto(c)) /\ Cardinality(Upto(c)) \in 1..n /\ f[c] = Cardinality(Upto(c))
  <2>1. Upto(c) \subseteq Loaded /\ c \in Upto(c)
    BY <1>1
  <2>2. IsFiniteSet(Upto(c)) /\ Cardinality(Upto(c)) <= n /\ Cardinality(Upto(c)) \in Nat
    BY <1>1, <2>1, FS_Subset, FS_CardinalityType
  <2>3. Cardinality(Upto(c)) # 0
    BY <2>1, <2>2, FS_EmptySet
  <2> QED BY <1>1, <2>2, <2>3
<1>3. ASSUME NEW c \in Loaded, NEW e \in Loaded, f[c] = f[e], c <= e
      PROVE  c = e
  <2>1. Upto(c) \subseteq Upto(e) /\ e \in Upto(e)
    <3>1. \A x \in Loaded : x \in Nat
      BY <1>1
    <3>2. \A x \in Loaded : x <= c => x <= e
      BY <1>3, <3>1
    <3>3. e <= e
      BY <3>1
    <3> QED BY <3>2, <3>3
  <2>2. Cardinality(Upto(e)) = Cardinality(Upto(c))
    BY <1>2, <1>3
  <2>3. Upto(e) = Upto(c)
    BY <1>2, <2>1, <2>2, FS_Subset
  <2>4. e <= c
    BY <2>1, <2>3
  <2> QED BY <1>1, <1>3, <2>4
<1>4. ASSUME NEW c \in Loaded, NEW e \in Loaded, f[c] = f[e]
      PROVE  c = e
  <2>1. c <= e \/ e <= c
    BY <1>1
  <2> QED BY <1>3, <1>4, <2>1
<1>5. f \in [Loaded -> 1..n]
  BY <1>2
<1>6. f \in Injection(Loaded, 1..n)
  BY <1>4, <1>5 DEF Injection, IsInjective
<1>7. IsFiniteSet(1..n) /\ Cardinality(1..n) = n
  BY <1>1, FS_Interval
<1>8. f \in Surjection(Loaded, 1..n)
  BY <1>6, <1>7, FS_Injection
<1>9. {f[c] : c \in Loaded} = 1..n
  BY <1>5, <1>8 DEF Surjection
<1> QED BY <1>1, <1>2, <1>4, <1>9

\* The project as it is loaded is sound.
LEMMA InitSound ==
  ASSUME Init
  PROVE  Sound
<1> DEFINE f == [c \in Loaded |-> Cardinality({x \in Loaded : x <= c})]
           n == Cardinality(Loaded)
<1>1. /\ n \in Nat
      /\ \A c \in Loaded : f[c] \in 1..n
      /\ \A c, e \in Loaded : f[c] = f[e] => c = e
      /\ {f[c] : c \in Loaded} = 1..n
  BY RanksAreInstances
<1>2. map = [c \in Components |-> IF c \in Loaded THEN f[c] ELSE 0]
  BY DEF Init
<1> HIDE DEF f
<1>3. /\ \A c \in Loaded : map[c] = f[c] /\ map[c] \in 1..n
      /\ \A c \in Components \ Loaded : map[c] = 0
      /\ map \in [Components -> Nat]
  BY <1>1, <1>2, LoadedAssumption
<1>4. queue = <<>> /\ DOMAIN queue = {} /\ ~Emptying /\ ~Filling
  BY DEF Init, Emptying, Filling, Rebuilding
<1>5. inst = [i \in 1..n |-> [of |-> CHOOSE c \in Loaded : map[c] = i,
                          val |-> 0, live |-> TRUE, denied |-> -1]]
  BY DEF Init
<1>6. inst \in Seq(Instances)
  <2>1. ASSUME NEW i \in 1..n PROVE inst[i] \in Instances
    <3>1. (CHOOSE c \in Loaded : map[c] = i) \in Components
      BY <1>1, <1>3, <2>1, LoadedAssumption
    <3> QED BY <1>5, <2>1, <3>1, ValuesAssumption DEF Instances
  <2>2. inst \in [1..n -> Instances]
    BY <1>5, <2>1
  <2> HIDE DEF n
  <2> QED BY <1>1, <2>2, SeqDef
<1>7. doc \in Docs
  BY LoadedAssumption, ValuesAssumption DEF Init, Docs
<1>8. Types
  <2>1. queue \in Seq(Jobs) /\ snaps \in Seq([prev : Docs, next : Docs])
    BY <1>4 DEF Init
  <2>2. /\ previews \in [Components -> Values \cup {-1}]
        /\ born \in SUBSET Components /\ leaked \in BOOLEAN
    BY LoadedAssumption DEF Init
  <2> QED BY <1>3, <1>4, <1>6, <1>7, <2>1, <2>2 DEF Types
<1>9. OneAtATime
  BY <1>4 DEF OneAtATime
<1>10. Awaits
  BY <1>4 DEF Awaits, Init
<1>11. Births
  <2>1. doc.comps \subseteq born /\ \A c \in Components \ born : map[c] = 0
    BY <1>3 DEF Init
  <2> QED BY <1>4, <2>1 DEF Births
<1>12. Ordered
  BY <1>4 DEF Ordered
<1>13. Owned
  <2>1. \A c, e \in Components : map[c] = map[e] /\ map[c] # 0 => c = e
    BY <1>1, <1>3
  <2>2. Doomed = {}
    BY <1>4 DEF Doomed
  <2>3. Known = 1..n
    <3>1. {map[c] : c \in Loaded} = 1..n
      BY <1>1, <1>3
    <3>2. Known = {map[c] : c \in Loaded}
      <4>1. ASSUME NEW i \in Known PROVE i \in {map[c] : c \in Loaded}
        <5>1. PICK c \in Components : i = map[c] /\ i # 0
          BY DEF Known
        <5> QED BY <1>3, <5>1
      <4>2. \A c \in Loaded : map[c] \in Known
        <5>1. \A c \in Loaded : c \in Components /\ map[c] # 0
          BY <1>1, <1>3, LoadedAssumption
        <5> QED BY <5>1 DEF Known
      <4> QED BY <4>1, <4>2
    <3> QED BY <3>1, <3>2
  <2>4. Live = 1..n
    BY <1>5 DEF Live
  <2> QED BY <1>4, <2>1, <2>2, <2>3, <2>4 DEF Owned
<1> QED BY <1>8, <1>9, <1>10, <1>11, <1>12, <1>13 DEF Sound

\* Every step keeps it.
LEMMA NextSound ==
  ASSUME Sound, [Next]_vars
  PROVE  Sound'
<1>1. CASE UNCHANGED vars
  <2>1. previews' \in [Components -> Values \cup {-1}]
    BY <1>1 DEF vars, Sound, Types
  <2> QED BY <1>1, <2>1, NothingQueued DEF vars
<1>2. CASE SyncSnapshot
  BY <1>2, SyncSnapshotStep
<1>3. CASE Start
  BY <1>3, StartStep
<1>4. CASE Answer
  BY <1>4, AnswerAddStep, AnswerRemoveStep, AnswerPropertyStep, AnswerPreviewStep,
     AnswerTransactionStep, AnswerWireStep DEF Answer
<1>5. CASE Rebuild
  BY <1>5, StopCoreStep, RebuildPrepareStep, RebuildHaltStep, RebuildAbortStep,
     RebuildRemoveStep, RebuildClearStep, RebuildAddStep, RebuildEdgesStep, RebuildWireStep,
     RebuildResumeStep DEF Rebuild
<1>6. CASE User
  <2>1. CASE \E c \in Components : \/ requestAddComponent(c)
                                   \/ requestRemoveComponent(c)
                                   \/ \E wired \in BOOLEAN : requestInsertItems(c, wired)
    BY <2>1, AddComponentStep, RemoveComponentStep, InsertItemsStep
  <2>2. CASE \E c \in Components : \E v \in Values : \/ requestUpdateProperty(c, v)
                                                     \/ requestPreviewProperty(c, v)
    BY <2>2, UpdatePropertyStep, PreviewPropertyStep
  <2>3. CASE requestConnectEndpoints \/ requestRemoveWire
    BY <2>3, ConnectStep, RemoveWireStep
  <2>4. CASE \E next \in Snapshots : projectChanged(next)
    BY <2>4, ProjectChangedStep
  <2>5. CASE runSimulation \/ pauseSimulation \/ stopSimulation
    BY <2>5, ControlStep
  <2> QED BY <1>6, <2>1, <2>2, <2>3, <2>4, <2>5 DEF User
<1> QED BY <1>1, <1>2, <1>3, <1>4, <1>5, <1>6 DEF Next, Work

\* With empty queues nothing is doomed and nothing is being emptied.
LEMMA QuietHasNoOrphans ==
  ASSUME Sound
  PROVE  NoOrphans
<1> SUFFICES ASSUME Quiet, ~leaked
             PROVE  Live = {map[c] : c \in Components} \ {0}
  BY DEF NoOrphans
<1>1. Owned /\ queue = <<>> /\ DOMAIN queue = {}
  BY DEF Sound, Quiet
<1>2. ~Emptying
  BY <1>1 DEF Emptying, Rebuilding
<1>3. Doomed = {}
  BY <1>1 DEF Doomed
<1>4. Live = Known
  BY <1>1, <1>2, <1>3 DEF Owned
<1> QED BY <1>4 DEF Known

\* NoOrphans holds of every behaviour: whatever edits, removals, pastes, undos, rebuilds,
\* runs and stops interleave with the answers of the Core (coreLifecycle.ts), once the
\* queues are empty the Core's living instances are exactly those the map knows, unless a
\* request was refused or lost or a removal or a paste crossed a rebuild.
THEOREM NothingIsOrphaned == Spec => []NoOrphans
<1>1. Init => Sound
  BY InitSound
<1>2. Sound /\ [Next]_vars => Sound'
  BY NextSound
<1>3. Sound => NoOrphans
  BY QuietHasNoOrphans
<1> QED BY <1>1, <1>2, <1>3, PTL DEF Spec

-----------------------------------------------------------------------------
(* What the whole queue will make of a value *)

\* A rebuild that has not read the document yet; one that has components left to add.
Renews(j) == IsRebuild(j) /\ j.phase \in {"queued", "stopping", "prepare", "halt", "remove"}
Restores(j) == IsRebuild(j) /\ j.phase = "add" /\ j.ids # <<>>

\* A job gives component c an instance; the value x; some value; a value that is not x.
Supplies(j, c) ==
    \/ Renews(j)
    \/ j.k = "insert" /\ j.c = c
    \/ Restores(j) /\ \E n \in DOMAIN j.ids : j.ids[n][1] = c
Gives(j, c, x) ==
    \/ Renews(j)
    \/ j.k \in {"property", "insert"} /\ j.c = c /\ j.v = x
    \/ Restores(j) /\ \E n \in DOMAIN j.ids : j.ids[n] = <<c, x>>
Touches(j, c) ==
    \/ Renews(j)
    \/ j.k \in {"property", "preview", "insert", "add"} /\ j.c = c
    \/ Restores(j) /\ \E n \in DOMAIN j.ids : j.ids[n][1] = c
Spoils(j, c, x) == Touches(j, c) /\ ~Gives(j, c, x)

\* c has an instance now that has the value x, or refused it last.
Based(c, x) == map[c] # 0 /\ x \in {inst[map[c]].val, inst[map[c]].denied}

\* After the whole queue c has an instance, and the instance has the value of the document
\* or refused it.
Present(c) == map[c] # 0 \/ \E i \in DOMAIN queue : Supplies(queue[i], c)
Valued(c) ==
    \/ /\ Based(c, doc.val[c])
       /\ \A j \in DOMAIN queue : ~Spoils(queue[j], c, doc.val[c])
    \/ \E i \in DOMAIN queue :
          /\ Gives(queue[i], c, doc.val[c])
          /\ \A j \in DOMAIN queue : j > i => ~Spoils(queue[j], c, doc.val[c])
Holds(c) == Present(c) /\ (lastInput[c] = "commit" => Valued(c))

\* Each entry of the map has an instance of its own, which lives until a rebuild removes it.
Apart ==
    /\ \A c \in Components : map[c] # 0 => map[c] \in DOMAIN inst
    /\ \A c, e \in Components : map[c] = map[e] /\ map[c] # 0 => c = e
    /\ ~Emptying => \A c \in Components : map[c] # 0 => inst[map[c]].live
\* No removal is for an instance of the map.
Removals ==
    \A i \in DOMAIN queue : queue[i].k = "remove" =>
        queue[i].id \in DOMAIN inst /\ \A c \in Components : map[c] # queue[i].id
\* A value on its way is for the instance of its component, if that is still known.
Setting == queue # <<>> /\ Current.k \in {"property", "preview"} /\ Current.phase = "sent"
Aimed ==
    Setting =>
        /\ Current.id \in DOMAIN inst /\ map[Current.c] \in {0, Current.id}
        /\ \A e \in Components : map[e] = Current.id => e = Current.c

\* A component's values come after the paste that gives it an instance.
Sequenced ==
    /\ \A i \in DOMAIN queue : queue[i].k \in {"property", "preview"} => queue[i].c \in born
    /\ \A i, j \in DOMAIN queue :
          /\ queue[i].k \in {"property", "preview"} /\ queue[j].k = "insert"
          /\ queue[i].c = queue[j].c
          => j < i
\* A rebuild adds each component once; one that is scheduled is there.
Scheduled ==
    /\ Filling => \A i, j \in DOMAIN Current.ids : Current.ids[i][1] = Current.ids[j][1] => i = j
    /\ rebuildScheduled => \E i \in DOMAIN queue : Waits(queue[i])
\* A component has no value before it is born, nor is it in a snapshot.
Recorded ==
    /\ \A c \in Components \ born : doc.val[c] = 0
    /\ \A i \in DOMAIN snaps : snaps[i].next.comps \subseteq born
    /\ snapWait \in {"none", "txn", "rebuild"}
    /\ lastInput \in [Components -> {"commit", "preview"}] /\ tainted \in BOOLEAN

\* A component whose add is queued is not in the document and has no value yet, or a
\* snapshot brought it and a rebuild follows.
Coming(i) ==
    \/ /\ queue[i].c \notin doc.comps /\ doc.val[queue[i].c] = 0 /\ queue[i].v = 0
       /\ \A j \in DOMAIN queue : j # i /\ Touches(queue[j], queue[i].c) => Renews(queue[j])
    \/ queue[i].c \in doc.comps /\ \E j \in DOMAIN queue : j > i /\ IsRebuild(queue[j])
    \/ queue[i].c \in doc.comps /\ SnapDue /\ Head(snaps).prev.comps # Head(snaps).next.comps

\* The document of a history that is not tainted, while no snapshot is due and when one is.
Mirrored == Len(snaps) <= 1 /\ \A c \in doc.comps : Holds(c)
Due ==
    LET s == Head(snaps)
    IN /\ Len(snaps) = 1 /\ s.next = doc
       /\ \A i \in DOMAIN queue : ~IsRebuild(queue[i]) /\ queue[i].k \notin {"insert", "wire"}
       /\ s.prev.comps = s.next.comps =>
             /\ \A c \in doc.comps : Present(c)
             /\ \A c \in doc.comps : s.prev.val[c] = s.next.val[c] => Holds(c)
             /\ s.prev.wired # s.next.wired => \A c \in doc.comps : s.prev.val[c] = s.next.val[c]
Clean ==
    /\ \A i \in DOMAIN queue : queue[i].k = "add" => Coming(i)
    /\ SnapDue => Due
    /\ ~SnapDue => Mirrored

\* A rebuild that has read the document, with nothing behind it, and that nothing crossed.
Repairing ==
    /\ queue # <<>> /\ IsRebuild(Current) /\ Current.phase \in {"add", "wire", "resume"}
    /\ Current.undisturbed /\ Len(queue) = 1
Repairs == Repairing => \A c \in doc.comps : Holds(c)

\* The inductive invariant.
Regular == Apart /\ Removals /\ Aimed /\ Sequenced /\ Scheduled /\ Recorded
Faithful == Sound /\ Regular /\ (~tainted => Clean) /\ Repairs
-----------------------------------------------------------------------------
(* How the queue carries values *)

\* A job that is the same for every value and every instance.
Echo(a, b) ==
    /\ a.k = b.k /\ a.c = b.c
    /\ b.k # "preview" => a.v = b.v
    /\ b.k = "remove" => a.id = b.id
    /\ Renews(a) <=> Renews(b)
    /\ Restores(a) <=> Restores(b)
    /\ Restores(b) => a.ids = b.ids

\* The jobs of the queue, without the first d, begin the new queue.
Echoed(d) ==
    /\ queue' \in Seq(Jobs)
    /\ Len(queue) >= d /\ Len(queue') >= Len(queue) - d
    /\ \A i \in 1..(Len(queue) - d) : Echo(queue'[i], queue[i + d])

\* An echo does to a component what the job did.
LEMMA EchoSays ==
  ASSUME NEW a, NEW b, Echo(a, b), NEW c, NEW x
  PROVE  /\ Supplies(a, c) <=> Supplies(b, c)
         /\ Gives(a, c, x) <=> Gives(b, c, x)
         /\ Touches(a, c) <=> Touches(b, c)
         /\ Spoils(a, c, x) <=> Spoils(b, c, x)
         /\ IsRebuild(a) <=> IsRebuild(b)
<1>1. Supplies(a, c) <=> Supplies(b, c)
  BY DEF Echo, Supplies
<1>2. Gives(a, c, x) <=> Gives(b, c, x)
  BY DEF Echo, Gives
<1>3. Touches(a, c) <=> Touches(b, c)
  BY DEF Echo, Touches
<1> QED BY <1>1, <1>2, <1>3 DEF Spoils, Echo, IsRebuild

\* Where a job of the new queue comes from, and where one of the old queue is now.
LEMMA EchoOrigin ==
  ASSUME Types, NEW d \in {0, 1}, Echoed(d)
  PROVE  /\ Len(queue) \in Nat /\ DOMAIN queue = 1..Len(queue)
         /\ Len(queue') \in Nat /\ DOMAIN queue' = 1..Len(queue')
         /\ \A i \in DOMAIN queue' :
               \/ i + d \in DOMAIN queue /\ i + d > d /\ Echo(queue'[i], queue[i + d])
               \/ i > Len(queue) - d
         /\ \A i \in DOMAIN queue : i > d =>
               /\ i - d \in DOMAIN queue' /\ (i - d) + d = i
               /\ Echo(queue'[i - d], queue[i]) /\ ~(i - d > Len(queue) - d)
         /\ \A i, j \in DOMAIN queue' : i \in Int /\ (i < j <=> i + d < j + d)
<1>1. Len(queue) \in Nat /\ DOMAIN queue = 1..Len(queue)
  BY QueueFacts
<1>2. Len(queue') \in Nat /\ DOMAIN queue' = 1..Len(queue')
  BY LenProperties DEF Echoed
<1>3. \A i \in DOMAIN queue' : i \in 1..(Len(queue) - d) => i + d \in DOMAIN queue /\ i + d > d
  BY <1>1, <1>2
<1>4. \A i \in DOMAIN queue' : i \in 1..(Len(queue) - d) \/ i > Len(queue) - d
  BY <1>1, <1>2
<1>5. ASSUME NEW i \in DOMAIN queue, i > d
      PROVE  /\ i - d \in DOMAIN queue' /\ (i - d) + d = i
             /\ Echo(queue'[i - d], queue[i]) /\ ~(i - d > Len(queue) - d)
  <2>1. i - d \in 1..(Len(queue) - d) /\ (i - d) + d = i /\ ~(i - d > Len(queue) - d)
    BY <1>1, <1>5
  <2>2. Echo(queue'[i - d], queue[(i - d) + d]) /\ i - d \in 1..Len(queue')
    BY <1>1, <1>2, <2>1 DEF Echoed
  <2> QED BY <1>2, <2>1, <2>2
<1>6. \A i, j \in DOMAIN queue' : i \in Int /\ (i < j <=> i + d < j + d)
  BY <1>2
<1> QED BY <1>1, <1>2, <1>3, <1>4, <1>5, <1>6 DEF Echoed

\* The job does to component c, and to its value x, what another did.
EchoFor(a, b, c, x) ==
    /\ Supplies(a, c) <=> Supplies(b, c)
    /\ Gives(a, c, x) <=> Gives(b, c, x)
    /\ Spoils(a, c, x) <=> Spoils(b, c, x)

\* What a component holds survives a step: what the queue did to it is still there, what
\* was there first or is taken from the queue is in the instance, and nothing new spoils it.
LEMMA KeptHoldsFor ==
  ASSUME Types, NEW d \in {0, 1}, NEW c, NEW x,
         queue' \in Seq(Jobs), Len(queue) >= d, Len(queue') >= Len(queue) - d,
         \A i \in 1..(Len(queue) - d) : EchoFor(queue'[i], queue[i + d], c, x),
         x = doc.val[c], doc'.val[c] = x, lastInput'[c] = "commit" => lastInput[c] = "commit",
         \A i \in DOMAIN queue' : i > Len(queue) - d => ~Spoils(queue'[i], c, x),
         map[c] # 0 \/ (d = 1 /\ Supplies(Current, c)) =>
             map'[c] # 0 \/ \E i \in DOMAIN queue : i > d /\ Supplies(queue[i], c),
         \/ Based(c, x) /\ (queue # <<>> => ~Spoils(Current, c, x))
         \/ d = 1 /\ Gives(Current, c, x)
         => Based(c, x)' \/ \E i \in DOMAIN queue : i > d /\ Gives(queue[i], c, x),
         Holds(c)
  PROVE  Holds(c)'
<1>1. /\ Len(queue) \in Nat /\ DOMAIN queue = 1..Len(queue)
      /\ Len(queue') \in Nat /\ DOMAIN queue' = 1..Len(queue')
      /\ \A i \in DOMAIN queue' :
               \/ i + d \in DOMAIN queue /\ i + d > d /\ EchoFor(queue'[i], queue[i + d], c, x)
               \/ i > Len(queue) - d
      /\ \A i \in DOMAIN queue : i > d =>
               i - d \in DOMAIN queue' /\ (i - d) + d = i /\ EchoFor(queue'[i - d], queue[i], c, x)
      /\ \A i, j \in DOMAIN queue' : i \in Int /\ (i < j <=> i + d < j + d)
  <2>1. Len(queue) \in Nat /\ DOMAIN queue = 1..Len(queue)
    BY QueueFacts
  <2>2. Len(queue') \in Nat /\ DOMAIN queue' = 1..Len(queue')
    BY LenProperties
  <2>3. \A i \in DOMAIN queue' :
           \/ i \in 1..(Len(queue) - d) /\ i + d \in DOMAIN queue /\ i + d > d
           \/ i > Len(queue) - d
    BY <2>1, <2>2
  <2>4. \A i \in DOMAIN queue : i > d =>
           i - d \in DOMAIN queue' /\ (i - d) + d = i /\ i - d \in 1..(Len(queue) - d)
    BY <2>1, <2>2
  <2>5. \A i, j \in DOMAIN queue' : i \in Int /\ (i < j <=> i + d < j + d)
    BY <2>2
  <2>6. \A i \in DOMAIN queue : i > d => EchoFor(queue'[i - d], queue[i], c, x)
    <3> SUFFICES ASSUME NEW i \in DOMAIN queue, i > d
                 PROVE  EchoFor(queue'[i - d], queue[i], c, x)
      OBVIOUS
    <3>1. EchoFor(queue'[i - d], queue[(i - d) + d], c, x)
      BY <2>4
    <3> QED BY <2>4, <3>1
  <2> QED BY <2>1, <2>2, <2>3, <2>4, <2>5, <2>6
<1>2. \A i \in DOMAIN queue : i > d \/ (d = 1 /\ i = 1 /\ queue[i] = Current)
  <2>1. queue # <<>> => Current = queue[1]
    BY DEF Current
  <2>2. \A i \in DOMAIN queue : queue # <<>> /\ (i > d \/ (d = 1 /\ i = 1))
    BY <1>1
  <2> QED BY <2>1, <2>2
<1>3. ASSUME NEW i \in DOMAIN queue, i > d
      PROVE  /\ i - d \in DOMAIN queue'
             /\ Supplies(queue'[i - d], c) <=> Supplies(queue[i], c)
             /\ Gives(queue'[i - d], c, x) <=> Gives(queue[i], c, x)
  BY <1>1, <1>3 DEF EchoFor
<1>4. Present(c)'
  <2>1. CASE map'[c] # 0
    BY <2>1 DEF Present
  <2>2. CASE \E i \in DOMAIN queue : i > d /\ Supplies(queue[i], c)
    BY <1>3, <2>2 DEF Present
  <2>3. map[c] # 0 \/ \E i \in DOMAIN queue : Supplies(queue[i], c)
    BY DEF Holds, Present
  <2> QED BY <1>2, <2>1, <2>2, <2>3
<1>5. ASSUME lastInput'[c] = "commit" PROVE Valued(c)'
  <2>1. Valued(c)
    BY <1>5 DEF Holds
  <2>2. ASSUME NEW n \in Int, n >= d, \A j \in DOMAIN queue : j > n => ~Spoils(queue[j], c, x)
        PROVE  \A j \in DOMAIN queue' : j > n - d => ~Spoils(queue'[j], c, x)
    <3> SUFFICES ASSUME NEW j \in DOMAIN queue', j > n - d
                 PROVE  ~Spoils(queue'[j], c, x)
      OBVIOUS
    <3>1. CASE j > Len(queue) - d
      BY <3>1
    <3>2. CASE j + d \in DOMAIN queue /\ EchoFor(queue'[j], queue[j + d], c, x)
      <4>1. j + d > n
        BY <1>1, <2>2
      <4>2. ~Spoils(queue[j + d], c, x)
        BY <2>2, <3>2, <4>1
      <4> QED BY <3>2, <4>2 DEF EchoFor
    <3> QED BY <1>1, <3>1, <3>2
  <2>3. ASSUME NEW i \in DOMAIN queue, i > d, Gives(queue[i], c, x),
               \A j \in DOMAIN queue : j > i => ~Spoils(queue[j], c, x)
        PROVE  Valued(c)'
    <3>1. \A j \in DOMAIN queue' : j > i - d => ~Spoils(queue'[j], c, x)
      <4>1. i \in Int /\ i >= d
        BY <1>1, <2>3
      <4> QED BY <2>2, <2>3, <4>1
    <3>2. i - d \in DOMAIN queue' /\ Gives(queue'[i - d], c, x)
      BY <1>3, <2>3
    <3> QED BY <3>1, <3>2 DEF Valued
  <2>4. ASSUME Based(c, x)', \A j \in DOMAIN queue : j > d => ~Spoils(queue[j], c, x)
        PROVE  Valued(c)'
    <3>1. \A j \in DOMAIN queue' : j > d - d => ~Spoils(queue'[j], c, x)
      <4>1. d \in Int /\ d >= d
        OBVIOUS
      <4> QED BY <2>2, <2>4, <4>1
    <3>2. \A j \in DOMAIN queue' : ~Spoils(queue'[j], c, x)
      BY <1>1, <3>1
    <3> QED BY <2>4, <3>2 DEF Valued
  <2>5. ASSUME \A j \in DOMAIN queue : j > d => ~Spoils(queue[j], c, x),
               Based(c, x)' \/ \E i \in DOMAIN queue : i > d /\ Gives(queue[i], c, x)
        PROVE  Valued(c)'
    <3>1. ASSUME NEW i \in DOMAIN queue, i > d, Gives(queue[i], c, x)
          PROVE  Valued(c)'
      <4>1. \A j \in DOMAIN queue : j > i => j > d
        BY <1>1, <3>1
      <4> QED BY <2>3, <2>5, <3>1, <4>1
    <3> QED BY <2>4, <2>5, <3>1
  <2>6. CASE Based(c, x) /\ \A j \in DOMAIN queue : ~Spoils(queue[j], c, x)
    <3>1. queue # <<>> => ~Spoils(Current, c, x)
      <4>1. queue # <<>> => Current = queue[1] /\ 1 \in DOMAIN queue
        BY QueueFacts
      <4> QED BY <2>6, <4>1
    <3> QED BY <2>5, <2>6, <3>1
  <2>7. ASSUME NEW i \in DOMAIN queue, Gives(queue[i], c, x),
               \A j \in DOMAIN queue : j > i => ~Spoils(queue[j], c, x)
        PROVE  Valued(c)'
    <3>1. CASE i > d
      BY <2>3, <2>7, <3>1
    <3>2. CASE d = 1 /\ i = 1 /\ queue[i] = Current
      BY <2>5, <2>7, <3>2
    <3> QED BY <1>2, <3>1, <3>2
  <2> QED BY <2>1, <2>6, <2>7 DEF Valued
<1> QED BY <1>4, <1>5 DEF Holds

\* So it does when the queue is echoed for every component.
LEMMA KeptHolds ==
  ASSUME Types, NEW d \in {0, 1}, Echoed(d), NEW c, NEW x,
         x = doc.val[c], doc'.val[c] = x, lastInput'[c] = "commit" => lastInput[c] = "commit",
         \A i \in DOMAIN queue' : i > Len(queue) - d => ~Spoils(queue'[i], c, x),
         map[c] # 0 \/ (d = 1 /\ Supplies(Current, c)) =>
             map'[c] # 0 \/ \E i \in DOMAIN queue : i > d /\ Supplies(queue[i], c),
         \/ Based(c, x) /\ (queue # <<>> => ~Spoils(Current, c, x))
         \/ d = 1 /\ Gives(Current, c, x)
         => Based(c, x)' \/ \E i \in DOMAIN queue : i > d /\ Gives(queue[i], c, x),
         Holds(c)
  PROVE  Holds(c)'
<1>1. \A i \in 1..(Len(queue) - d) : EchoFor(queue'[i], queue[i + d], c, x)
  <2> SUFFICES ASSUME NEW i \in 1..(Len(queue) - d)
               PROVE  EchoFor(queue'[i], queue[i + d], c, x)
    OBVIOUS
  <2>1. Echo(queue'[i], queue[i + d])
    BY DEF Echoed
  <2> QED BY <2>1, EchoSays DEF EchoFor
<1>2. queue' \in Seq(Jobs) /\ Len(queue) >= d /\ Len(queue') >= Len(queue) - d
  BY DEF Echoed
<1> QED BY <1>1, <1>2, KeptHoldsFor, Zenon

\* A component that is to be added still is.
LEMMA KeptComing ==
  ASSUME Types, NEW d \in {0, 1}, Echoed(d), ~SnapDue,
         NEW i \in DOMAIN queue, i > d, Coming(i), NEW c, c = queue[i].c, queue[i].k = "add",
         c \in doc'.comps <=> c \in doc.comps, c \notin doc.comps => doc'.val[c] = doc.val[c],
         c \notin doc.comps => \A j \in DOMAIN queue' :
             j > Len(queue) - d /\ Touches(queue'[j], c) => Renews(queue'[j])
  PROVE  Coming(i - d)'
<1>1. /\ Len(queue) \in Nat /\ DOMAIN queue = 1..Len(queue)
      /\ DOMAIN queue' = 1..Len(queue') /\ Len(queue') \in Nat
      /\ \A j \in DOMAIN queue' :
               \/ j + d \in DOMAIN queue /\ j + d > d /\ Echo(queue'[j], queue[j + d])
               \/ j > Len(queue) - d
      /\ \A j \in DOMAIN queue : j > d =>
               j - d \in DOMAIN queue' /\ (j - d) + d = j /\ Echo(queue'[j - d], queue[j])
  BY EchoOrigin
<1>2. queue'[i - d].c = c /\ queue'[i - d].v = queue[i].v
  BY <1>1 DEF Echo
<1>3. CASE /\ c \notin doc.comps /\ doc.val[c] = 0 /\ queue[i].v = 0
           /\ \A j \in DOMAIN queue : j # i /\ Touches(queue[j], c) => Renews(queue[j])
  <2>1. ASSUME NEW j \in DOMAIN queue', j # i - d, Touches(queue'[j], c)
        PROVE  Renews(queue'[j])
    <3>1. CASE j > Len(queue) - d
      BY <1>3, <2>1, <3>1
    <3>2. CASE j + d \in DOMAIN queue /\ Echo(queue'[j], queue[j + d])
      <4>1. j + d # i
        BY <1>1, <2>1
      <4>2. Touches(queue[j + d], c)
        BY <2>1, <3>2, EchoSays
      <4> QED BY <1>3, <3>2, <4>1, <4>2 DEF Echo
    <3> QED BY <1>1, <3>1, <3>2
  <2> QED BY <1>2, <1>3, <2>1 DEF Coming
<1>4. CASE c \in doc.comps /\ \E j \in DOMAIN queue : j > i /\ IsRebuild(queue[j])
  <2>1. PICK j \in DOMAIN queue : j > i /\ IsRebuild(queue[j])
    BY <1>4
  <2>2. j > d /\ j - d > i - d
    BY <1>1, <2>1
  <2>3. IsRebuild(queue'[j - d]) /\ j - d \in DOMAIN queue'
    BY <1>1, <2>1, <2>2, EchoSays
  <2> QED BY <1>2, <1>4, <2>2, <2>3 DEF Coming
<1> QED BY <1>3, <1>4 DEF Coming

\* No instance of the map becomes the subject of a removal.
LEMMA KeptRemovals ==
  ASSUME Types, NEW d \in {0, 1}, Echoed(d), Removals,
         \A i \in DOMAIN queue' : i > Len(queue) - d => queue'[i].k # "remove",
         DOMAIN inst \subseteq DOMAIN inst',
         \A c \in Components : map'[c] \in {0, map[c], Len(inst) + 1}
  PROVE  Removals'
<1> SUFFICES ASSUME NEW i \in DOMAIN queue', queue'[i].k = "remove"
             PROVE  queue'[i].id \in DOMAIN inst' /\ \A c \in Components : map'[c] # queue'[i].id
  BY DEF Removals
<1>1. i + d \in DOMAIN queue /\ Echo(queue'[i], queue[i + d])
  BY EchoOrigin
<1>2. queue[i + d].k = "remove" /\ queue'[i].id = queue[i + d].id
  BY <1>1 DEF Echo
<1>3. queue'[i].id \in DOMAIN inst /\ \A c \in Components : map[c] # queue'[i].id
  BY <1>1, <1>2 DEF Removals
<1>4. queue'[i].id # 0 /\ queue'[i].id # Len(inst) + 1
  BY <1>3, InstFacts
<1> QED BY <1>3, <1>4

\* Values stay behind the paste of their component.
LEMMA KeptSequenced ==
  ASSUME Types, NEW d \in {0, 1}, Echoed(d), Sequenced, born \subseteq born',
         \A i \in DOMAIN queue' : i > Len(queue) - d =>
             /\ queue'[i].k \in {"property", "preview"} => queue'[i].c \in born
             /\ queue'[i].k = "insert" => queue'[i].c \notin born
  PROVE  Sequenced'
<1>1. \A i \in DOMAIN queue' :
         \/ i + d \in DOMAIN queue /\ Echo(queue'[i], queue[i + d])
         \/ i > Len(queue) - d
  BY EchoOrigin
<1>2. \A i \in DOMAIN queue' : queue'[i].k \in {"property", "preview"} => queue'[i].c \in born
  BY <1>1 DEF Echo, Sequenced
<1>3. ASSUME NEW i \in DOMAIN queue', NEW j \in DOMAIN queue',
             queue'[i].k \in {"property", "preview"}, queue'[j].k = "insert",
             queue'[i].c = queue'[j].c
      PROVE  j < i
  <2>1. ~(j > Len(queue) - d)
    BY <1>2, <1>3
  <2>2. j + d \in DOMAIN queue /\ Echo(queue'[j], queue[j + d])
    BY <1>1, <2>1
  <2>3. CASE i > Len(queue) - d
    BY <2>1, <2>3, EchoOrigin
  <2>4. CASE i + d \in DOMAIN queue /\ Echo(queue'[i], queue[i + d])
    <3>1. j + d < i + d
      BY <1>3, <2>2, <2>4 DEF Echo, Sequenced
    <3> QED BY <3>1, EchoOrigin
  <2> QED BY <1>1, <2>3, <2>4
<1> QED BY <1>2, <1>3 DEF Sequenced

\* Jobs that do nothing to a component any more.
Spent(j) ==
    \/ j.k \in {"add", "remove", "transaction", "wire", "preview"}
    \/ IsRebuild(j) /\ j.phase = "resume"
\* What is new is about wires or reads the whole document.
Neutral(d) ==
    \A i \in DOMAIN queue' : i > Len(queue) - d =>
        queue'[i].k \in {"transaction", "wire", "rebuild", "stop"} /\ queue'[i].phase = "queued"

\* Neither does anything to the value of a component.
LEMMA NeutralSays ==
  ASSUME NEW j, NEW c, NEW x
  PROVE  /\ Spent(j) => ~Supplies(j, c) /\ ~Gives(j, c, x)
         /\ j.k \in {"transaction", "wire", "rebuild", "stop"} /\ j.phase = "queued" =>
               ~Spoils(j, c, x) /\ (Touches(j, c) => Renews(j))
         /\ j.k = "preview" /\ j.c = c => Spoils(j, c, x)
BY DEF Spent, Supplies, Gives, Spoils, Touches, Renews, Restores, IsRebuild

\* An instance keeps its value, and what it refused.
SameValue(i) == inst'[i].val = inst[i].val /\ inst'[i].denied = inst[i].denied

\* What every component holds survives a step that sets no value.
LEMMA KeptAll ==
  ASSUME Types, NEW d \in {0, 1}, Echoed(d), Neutral(d), d = 1 => Spent(Current),
         NEW c \in Components, doc'.val = doc.val, UNCHANGED <<lastInput, map>>,
         map[c] # 0 => \/ SameValue(map[c])
                       \/ queue # <<>> /\ Current.k = "preview" /\ Current.c = c,
         Holds(c)
  PROVE  Holds(c)'
<1>0. PICK x : x = doc.val[c] /\ doc'.val[c] = x
  OBVIOUS
<1>1. \A i \in DOMAIN queue' : i > Len(queue) - d => ~Spoils(queue'[i], c, x)
  BY NeutralSays DEF Neutral
<1>2. d = 1 => ~Supplies(Current, c) /\ ~Gives(Current, c, x)
  BY NeutralSays
<1>3. Based(c, x) /\ (queue # <<>> => ~Spoils(Current, c, x)) => Based(c, x)'
  BY NeutralSays DEF Based, SameValue
<1>5. map[c] # 0 \/ (d = 1 /\ Supplies(Current, c)) =>
         map'[c] # 0 \/ \E i \in DOMAIN queue : i > d /\ Supplies(queue[i], c)
  BY <1>2
<1>6. \/ Based(c, x) /\ (queue # <<>> => ~Spoils(Current, c, x))
      \/ d = 1 /\ Gives(Current, c, x)
      => Based(c, x)' \/ \E i \in DOMAIN queue : i > d /\ Gives(queue[i], c, x)
  BY <1>2, <1>3
<1>7. lastInput'[c] = "commit" => lastInput[c] = "commit"
  OBVIOUS
<1> QED BY <1>0, <1>1, <1>5, <1>6, <1>7, KeptHolds

\* The document, the map and the instances in it stay.
Calm ==
    /\ doc'.comps = doc.comps /\ doc'.val = doc.val /\ UNCHANGED <<born, lastInput, map>>
    /\ DOMAIN inst \subseteq DOMAIN inst'
    /\ ~Emptying' => \A c \in Components : map[c] # 0 => inst'[map[c]].live
\* The values of the instances stay, up to what a preview sets that is not over.
Still ==
    \A c \in Components : map[c] # 0 =>
        \/ SameValue(map[c])
        \/ queue # <<>> /\ Current.k = "preview" /\ Current.c = c

\* What a step may do to the snapshots and to the history, unless it changes the document.
Onward ==
    /\ \/ snaps' = snaps /\ (snapWait' = "none" => snapWait = "none")
       \/ snaps # <<>> /\ snaps' = Tail(snaps)
    /\ snapWait' \in {"none", "txn", "rebuild"} /\ tainted' \in BOOLEAN
    /\ tainted => tainted' \/ (Repairing /\ queue' = <<>> /\ snaps' = <<>>)
    /\ Repairing' => Repairing

\* A tail, position by position.
LEMMA TailIs ==
  ASSUME NEW S, NEW q \in Seq(S), q # <<>>
  PROVE  /\ Len(q) \in Nat /\ Len(q) >= 1 /\ Tail(q) \in Seq(S) /\ Len(Tail(q)) = Len(q) - 1
         /\ DOMAIN Tail(q) = 1..(Len(q) - 1) /\ DOMAIN q = 1..Len(q)
         /\ \A i \in 1..(Len(q) - 1) : Tail(q)[i] = q[i + 1]
<1>1. Len(q) \in Nat /\ Len(q) >= 1 /\ DOMAIN q = 1..Len(q)
  BY LenProperties, EmptySeq
<1>2. Tail(q) \in Seq(S) /\ Len(Tail(q)) = Len(q) - 1
      /\ \A i \in 1..(Len(q) - 1) : Tail(q)[i] = q[i + 1]
  BY <1>1, HeadTailProperties
<1>3. DOMAIN Tail(q) = 1..(Len(q) - 1)
  BY <1>2, LenProperties
<1> QED BY <1>1, <1>2, <1>3

\* The snapshots that are left are those there were.
LEMMA FewerSnaps ==
  ASSUME Types, snaps' = snaps \/ (snaps # <<>> /\ snaps' = Tail(snaps)),
         \A i \in DOMAIN snaps : snaps[i].next.comps \subseteq born
  PROVE  /\ \A i \in DOMAIN snaps' : snaps'[i].next.comps \subseteq born
         /\ Len(snaps) <= 1 => Len(snaps') <= 1 /\ (snaps' # snaps => snaps' = <<>>)
<1> DEFINE T == [prev : Docs, next : Docs]
<1>1. snaps \in Seq(T) /\ Len(snaps) \in Nat /\ DOMAIN snaps = 1..Len(snaps)
  BY LenProperties DEF Types
<1> HIDE DEF T
<1>2. CASE snaps' = snaps
  BY <1>1, <1>2
<1>3. CASE snaps # <<>> /\ snaps' = Tail(snaps)
  <2>1. /\ Len(snaps) >= 1 /\ snaps' \in Seq(T) /\ Len(snaps') = Len(snaps) - 1
        /\ \A i \in 1..(Len(snaps) - 1) : snaps'[i] = snaps[i + 1]
    BY <1>1, <1>3, TailIs
  <2>2. DOMAIN snaps' = 1..(Len(snaps) - 1)
    BY <1>1, <2>1, LenProperties
  <2>3. \A i \in DOMAIN snaps' : i + 1 \in DOMAIN snaps /\ snaps'[i] = snaps[i + 1]
    BY <1>1, <2>1, <2>2
  <2>4. Len(snaps) <= 1 => Len(snaps') = 0
    BY <1>1, <2>1
  <2>5. Len(snaps) <= 1 => snaps' = <<>>
    BY <2>1, <2>4, EmptySeq
  <2> QED BY <2>3, <2>4, <2>5
<1> QED BY <1>2, <1>3

\* A step that changes no component keeps the invariant if it taints the history or every
\* component keeps its value.
LEMMA KeptByValue ==
  ASSUME Faithful, Sound', NEW d \in {0, 1}, Echoed(d), Neutral(d),
         ~SnapDue, Calm, Onward, Aimed', Scheduled',
         ~tainted' \/ Repairing' => \A c \in doc.comps : Holds(c) => Holds(c)'
  PROVE  Faithful'
<1>1. Types /\ Types' /\ Apart /\ Removals /\ Sequenced /\ Recorded
  BY DEF Faithful, Regular, Sound
<1>2. \A c \in doc.comps : c \in Components
  BY <1>1 DEF Types, Docs
<1>3. ASSUME ~tainted' \/ Repairing', NEW c \in doc.comps, Holds(c) PROVE Holds(c)'
  BY <1>3
<1>4. Apart'
  BY <1>1 DEF Apart, Calm
<1>5. Removals'
  <2>1. \A i \in DOMAIN queue' : i > Len(queue) - d => queue'[i].k # "remove"
    BY DEF Neutral
  <2> QED BY <1>1, <2>1, KeptRemovals DEF Calm
<1>6. Sequenced'
  <2>1. \A i \in DOMAIN queue' : i > Len(queue) - d =>
           queue'[i].k \notin {"property", "preview", "insert"}
    BY DEF Neutral
  <2>2. born \subseteq born'
    BY DEF Calm
  <2> QED BY <1>1, <2>1, <2>2, KeptSequenced
<1>7. /\ \A i \in DOMAIN snaps' : snaps'[i].next.comps \subseteq born
      /\ Len(snaps) <= 1 => Len(snaps') <= 1 /\ (snaps' # snaps => snaps' = <<>>)
  BY <1>1, FewerSnaps DEF Onward, Recorded
<1>8. Recorded'
  BY <1>1, <1>7 DEF Recorded, Calm, Onward
<1>9. Regular'
  BY <1>4, <1>5, <1>6, <1>8 DEF Regular
<1>10. ASSUME ~tainted' PROVE Clean'
  <2>1. CASE tainted
    <3>1. Repairing /\ queue' = <<>> /\ snaps' = <<>>
      BY <1>10, <2>1 DEF Onward
    <3>2. ~SnapDue' /\ DOMAIN queue' = {} /\ Len(snaps') <= 1
      BY <3>1 DEF SnapDue
    <3>3. \A c \in doc.comps : Holds(c)
      BY <3>1 DEF Faithful, Repairs
    <3>4. Mirrored'
      BY <1>3, <1>10, <3>2, <3>3 DEF Mirrored, Calm
    <3> QED BY <3>2, <3>4 DEF Clean
  <2>2. CASE ~tainted
    <3>1. Clean /\ Mirrored
      BY <2>2 DEF Faithful, Clean
    <3>2. Mirrored'
      BY <1>3, <1>7, <1>10, <3>1 DEF Mirrored, Calm
    <3>3. ~SnapDue'
      BY <1>7, <3>1 DEF SnapDue, Onward, Mirrored
    <3>4. ASSUME NEW i \in DOMAIN queue', queue'[i].k = "add" PROVE Coming(i)'
      <4>1. ~(i > Len(queue) - d)
        BY <3>4 DEF Neutral
      <4>2. i + d \in DOMAIN queue /\ i + d > d /\ Echo(queue'[i], queue[i + d])
            /\ i \in Int /\ (i + d) - d = i
        BY <1>1, <4>1, EchoOrigin
      <4>3. PICK n, c : n = i + d /\ c = queue[n].c
        OBVIOUS
      <4>4. n \in DOMAIN queue /\ n > d /\ Coming(n) /\ queue[n].k = "add"
        BY <3>1, <3>4, <4>2, <4>3 DEF Clean, Echo
      <4>5. \A j \in DOMAIN queue' :
               j > Len(queue) - d /\ Touches(queue'[j], c) => Renews(queue'[j])
        BY NeutralSays DEF Neutral
      <4>6. (c \in doc'.comps <=> c \in doc.comps) /\ doc'.val[c] = doc.val[c]
        BY DEF Calm
      <4>7. Coming(n - d)'
        BY <1>1, <4>3, <4>4, <4>5, <4>6, KeptComing
      <4> QED BY <4>2, <4>3, <4>7
    <3> QED BY <3>2, <3>3, <3>4 DEF Clean
  <2> QED BY <2>1, <2>2, <1>1 DEF Recorded
<1>11. Repairs'
  <2> SUFFICES ASSUME Repairing' PROVE \A c \in doc'.comps : Holds(c)'
    BY DEF Repairs
  <2>1. \A c \in doc.comps : Holds(c)
    BY DEF Onward, Faithful, Repairs
  <2> QED BY <1>3, <2>1 DEF Calm
<1> QED BY <1>9, <1>10, <1>11 DEF Faithful

\* A step that sets no value keeps the invariant.
LEMMA KeptFaithful ==
  ASSUME Faithful, Sound', NEW d \in {0, 1}, Echoed(d), Neutral(d), d = 1 => Spent(Current),
         ~SnapDue, Calm, Still, Onward, Aimed', Scheduled'
  PROVE  Faithful'
<1>1. Types /\ \A c \in doc.comps : c \in Components
  BY DEF Faithful, Sound, Types, Docs
<1>2. ASSUME NEW c \in doc.comps, Holds(c) PROVE Holds(c)'
  BY <1>1, <1>2, KeptAll DEF Calm, Still
<1> QED BY <1>2, KeptByValue

-----------------------------------------------------------------------------
(* The changes of the queue, as echoes *)

\* A job with the same data in the same phase is an echo.
LEMMA EchoSame ==
  ASSUME NEW a, NEW b, a.k = b.k, a.phase = b.phase, a.c = b.c, a.v = b.v, a.id = b.id,
         a.ids = b.ids
  PROVE  Echo(a, b)
BY DEF Echo, Renews, Restores, IsRebuild

\* The first job goes on.
LEMMA EchoProceed ==
  ASSUME Types, queue # <<>>, NEW j \in Jobs, queue' = [queue EXCEPT ![1] = j], Echo(j, Current)
  PROVE  /\ Echoed(0) /\ Neutral(0) /\ Len(queue') = Len(queue) /\ queue' # <<>> /\ Current' = j
         /\ DOMAIN queue' = DOMAIN queue
         /\ \A i \in DOMAIN queue : i # 1 => queue'[i] = queue[i]
         /\ \A i \in DOMAIN queue : i = 1 => queue[i] = Current
<1>1. /\ queue \in Seq(Jobs) /\ Len(queue) \in Nat /\ Len(queue) >= 1 /\ Current = queue[1]
      /\ DOMAIN queue = 1..Len(queue)
  BY QueueFacts DEF Types
<1>2. /\ queue' \in Seq(Jobs) /\ Len(queue') = Len(queue) /\ DOMAIN queue' = DOMAIN queue
      /\ \A i \in 1..Len(queue) : queue'[i] = IF i = 1 THEN j ELSE queue[i]
  BY <1>1
<1>3. queue' # <<>> /\ Head(queue') = j
  BY <1>1, <1>2
<1>4. \A i \in 1..Len(queue) : Echo(queue'[i], queue[i])
  <2>1. \A i \in 1..Len(queue) : i # 1 => Echo(queue'[i], queue[i])
    BY <1>2, EchoSame
  <2> QED BY <1>1, <1>2, <2>1
<1>5. Echoed(0)
  <2>1. \A i \in 1..(Len(queue) - 0) : i \in 1..Len(queue) /\ i + 0 = i
    BY <1>1
  <2>2. Len(queue) >= 0 /\ Len(queue') >= Len(queue) - 0
    BY <1>1, <1>2
  <2> QED BY <1>2, <1>4, <2>1, <2>2 DEF Echoed
<1>6. Neutral(0)
  <2>1. \A i \in DOMAIN queue' : ~(i > Len(queue) - 0)
    BY <1>1, <1>2
  <2> QED BY <2>1 DEF Neutral
<1>7. Current' = j
  BY <1>3 DEF Current
<1> QED BY <1>1, <1>2, <1>3, <1>5, <1>6, <1>7

\* A job that goes on and sets no value keeps the invariant.
LEMMA FaithfulProceed ==
  ASSUME Faithful, Sound', ~SnapDue, Calm, Still, queue # <<>>, NEW j \in Jobs,
         queue' = [queue EXCEPT ![1] = j], Echo(j, Current), j.phase # "add",
         IsRebuild(j) /\ j.phase \in {"wire", "resume"} =>
             Current.phase \in {"add", "wire"} /\ (j.undisturbed => Current.undisturbed),
         rebuildScheduled' => rebuildScheduled /\ ~Waits(Current),
         UNCHANGED <<snaps, snapWait>>, tainted' \in BOOLEAN, tainted => tainted', Aimed'
  PROVE  Faithful'
<1>1. Types /\ Scheduled /\ Recorded
  BY DEF Faithful, Sound, Regular
<1>2. /\ Echoed(0) /\ Neutral(0) /\ Len(queue') = Len(queue) /\ queue' # <<>> /\ Current' = j
      /\ DOMAIN queue' = DOMAIN queue
      /\ \A i \in DOMAIN queue : i # 1 => queue'[i] = queue[i]
      /\ \A i \in DOMAIN queue : i = 1 => queue[i] = Current
  BY <1>1, EchoProceed
<1>3. Scheduled'
  <2>1. ~Filling'
    BY <1>2 DEF Filling, Rebuilding
  <2>2. rebuildScheduled' => \E i \in DOMAIN queue' : Waits(queue'[i])
    BY <1>1, <1>2 DEF Scheduled
  <2> QED BY <2>1, <2>2 DEF Scheduled
<1>4. Repairing' => Repairing
  <2>1. IsRebuild(j) <=> IsRebuild(Current)
    BY EchoSays
  <2> QED BY <1>2, <2>1 DEF Repairing
<1>5. Onward
  BY <1>1, <1>4 DEF Onward, Recorded
<1> QED BY <1>2, <1>3, <1>5, KeptFaithful

\* The first job ends, and jobs may follow.
LEMMA EchoPop ==
  ASSUME Types, OneAtATime, queue # <<>>, queue' \in Seq(Jobs), Len(queue') >= Len(queue) - 1,
         \A i \in 1..(Len(queue) - 1) :
             /\ queue'[i].k = queue[i + 1].k /\ queue'[i].phase = queue[i + 1].phase
             /\ queue'[i].c = queue[i + 1].c /\ queue'[i].v = queue[i + 1].v
             /\ queue'[i].id = queue[i + 1].id /\ queue'[i].ids = queue[i + 1].ids,
         \A i \in DOMAIN queue' : i > Len(queue) - 1 => queue'[i].phase = "queued"
  PROVE  /\ Echoed(1) /\ Aimed' /\ ~Filling' /\ ~Emptying' /\ ~Repairing'
         /\ (\E i \in DOMAIN queue : Waits(queue[i])) /\ ~Waits(Current) =>
               \E i \in DOMAIN queue' : Waits(queue'[i])
<1>1. Len(queue) \in Nat /\ Len(queue) >= 1 /\ Current = queue[1] /\ DOMAIN queue = 1..Len(queue)
  BY QueueFacts
<1>2. \A i \in 1..(Len(queue) - 1) : Echo(queue'[i], queue[i + 1])
  BY EchoSame
<1>3. Echoed(1)
  BY <1>1, <1>2 DEF Echoed
<1>4. DOMAIN queue' = 1..Len(queue') /\ Len(queue') \in Nat
  BY LenProperties
<1>5. \A i \in DOMAIN queue' : queue'[i].phase = "queued"
  <2>1. \A i \in 1..(Len(queue) - 1) : i + 1 \in DOMAIN queue /\ i + 1 # 1
    BY <1>1
  <2>2. \A i \in 1..(Len(queue) - 1) : queue'[i].phase = "queued"
    BY <2>1 DEF OneAtATime
  <2>3. \A i \in DOMAIN queue' : i \in 1..(Len(queue) - 1) \/ i > Len(queue) - 1
    BY <1>1, <1>4
  <2> QED BY <2>2, <2>3
<1>6. queue' # <<>> => Current'.phase = "queued"
  <2> SUFFICES ASSUME queue' # <<>> PROVE Current'.phase = "queued"
    OBVIOUS
  <2>1. Len(queue') >= 1 /\ Current' = queue'[1]
    BY <1>4, EmptySeq DEF Current
  <2> QED BY <1>4, <1>5, <2>1
<1>7. Aimed' /\ ~Filling' /\ ~Emptying' /\ ~Repairing'
  BY <1>6 DEF Aimed, Setting, Filling, Emptying, Rebuilding, Repairing
<1>8. ASSUME NEW i \in DOMAIN queue, Waits(queue[i]), ~Waits(Current)
      PROVE  \E n \in DOMAIN queue' : Waits(queue'[n])
  <2>1. i - 1 \in 1..(Len(queue) - 1) /\ (i - 1) + 1 = i /\ i - 1 \in DOMAIN queue'
    BY <1>1, <1>4, <1>8
  <2>2. Waits(queue'[i - 1])
    BY <1>8, <2>1 DEF Waits
  <2> QED BY <2>1, <2>2
<1> QED BY <1>3, <1>7, <1>8

\* A job that ends and has set no value keeps the invariant.
LEMMA FaithfulPop ==
  ASSUME Faithful, Sound', ~SnapDue, Calm, Still, queue # <<>>, Spent(Current), ~Waits(Current),
         Echoed(1), Neutral(1), Aimed', ~Filling', ~Repairing',
         rebuildScheduled' => \E i \in DOMAIN queue' : Waits(queue'[i]),
         \/ snaps' = snaps /\ (snapWait' = "none" => snapWait = "none")
         \/ snaps # <<>> /\ snaps' = Tail(snaps),
         snapWait' \in {"none", "txn", "rebuild"}, tainted' \in BOOLEAN,
         tainted => tainted' \/ (Repairing /\ queue' = <<>> /\ snaps' = <<>>)
  PROVE  Faithful'
<1>1. Scheduled'
  BY DEF Scheduled
<1>2. Onward
  BY DEF Onward
<1> QED BY <1>1, <1>2, KeptFaithful

\* So does an end without a job that follows.
LEMMA FaithfulFinish ==
  ASSUME Faithful, Sound', ~SnapDue, Calm, Still, queue # <<>>, Spent(Current), ~Waits(Current),
         queue' = Tail(queue), UNCHANGED rebuildScheduled,
         \/ UNCHANGED <<snaps, snapWait>>
         \/ /\ snaps' = (IF Current.awaited THEN Tail(snaps) ELSE snaps)
            /\ snapWait' = (IF Current.awaited THEN "none" ELSE snapWait),
         tainted' \in BOOLEAN,
         tainted => tainted' \/ (Repairing /\ queue' = <<>> /\ snaps' = <<>>)
  PROVE  Faithful'
<1>1. Types /\ OneAtATime /\ Awaits /\ Scheduled /\ Recorded
  BY DEF Faithful, Sound, Regular
<1>2. queue \in Seq(Jobs) /\ 1 \in DOMAIN queue /\ Current = queue[1] /\ Current \in Jobs
  BY <1>1, QueueFacts DEF Types
<1>3. /\ queue' \in Seq(Jobs) /\ Len(queue') = Len(queue) - 1 /\ Len(queue) \in Nat
      /\ DOMAIN queue' = 1..(Len(queue) - 1)
      /\ \A i \in 1..(Len(queue) - 1) : queue'[i] = queue[i + 1]
  BY <1>2, TailIs
<1>4. \A i \in DOMAIN queue' : ~(i > Len(queue) - 1)
  BY <1>3
<1>5. Neutral(1)
  BY <1>4 DEF Neutral
<1>6. /\ Echoed(1) /\ Aimed' /\ ~Filling' /\ ~Repairing'
      /\ (\E i \in DOMAIN queue : Waits(queue[i])) /\ ~Waits(Current) =>
               \E i \in DOMAIN queue' : Waits(queue'[i])
  <2>1. Len(queue') >= Len(queue) - 1
    BY <1>3
  <2> QED BY <1>1, <1>3, <1>4, <2>1, EchoPop
<1>7. rebuildScheduled' => \E i \in DOMAIN queue' : Waits(queue'[i])
  BY <1>1, <1>6 DEF Scheduled
<1>8. /\ snapWait' \in {"none", "txn", "rebuild"}
      /\ \/ snaps' = snaps /\ (snapWait' = "none" => snapWait = "none")
         \/ snaps # <<>> /\ snaps' = Tail(snaps)
  <2>1. Current.awaited => snaps # <<>>
    BY <1>1, <1>2 DEF Awaits
  <2>2. Current.awaited \in BOOLEAN
    BY <1>2 DEF Jobs
  <2> QED BY <1>1, <2>1, <2>2 DEF Recorded
<1> QED BY <1>5, <1>6, <1>7, <1>8, FaithfulPop

\* The queue stays, up to what an edit disturbs, and a job may follow.
LEMMA EchoFollowed ==
  ASSUME Types, NEW n \in {0, 1}, Followed(n)
  PROVE  /\ Echoed(0)
         /\ \A i \in DOMAIN queue' : i > Len(queue) - 0 => n = 1 /\ i = Len(queue) + 1
         /\ \A i \in DOMAIN queue :
               i \in DOMAIN queue' /\ queue'[i].phase = queue[i].phase /\ Echo(queue'[i], queue[i])
<1>1. Len(queue) \in Nat /\ DOMAIN queue = 1..Len(queue) /\ DOMAIN queue' = 1..(Len(queue) + n)
      /\ queue' \in Seq(Jobs)
  BY DEF Followed
<1>2. Len(queue') = Len(queue) + n
  BY <1>1, LenProperties
<1>3. \A i \in DOMAIN queue : Echo(queue'[i], queue[i]) /\ queue'[i].phase = queue[i].phase
  BY EchoSame DEF Followed
<1>4. \A i \in 1..(Len(queue) - 0) : i \in DOMAIN queue /\ i + 0 = i
  BY <1>1
<1>5. Len(queue) >= 0 /\ Len(queue') >= Len(queue) - 0
  BY <1>1, <1>2
<1>6. Echoed(0)
  BY <1>1, <1>3, <1>4, <1>5 DEF Echoed
<1> QED BY <1>1, <1>3, <1>6

\* The head of the queue after an edit.
LEMMA FollowedHead ==
  ASSUME Types, NEW n \in {0, 1}, Followed(n),
         n = 1 => queue'[Len(queue) + 1].phase = "queued"
  PROVE  /\ queue # <<>> =>
               /\ queue' # <<>> /\ Current'.k = Current.k /\ Current'.phase = Current.phase
               /\ Current'.c = Current.c /\ Current'.id = Current.id
               /\ Current'.ids = Current.ids /\ Current' = queue'[1]
         /\ queue = <<>> /\ queue' # <<>> => Current'.phase = "queued"
         /\ n = 1 /\ Len(queue') = 1 => queue = <<>>
         /\ n = 0 => Len(queue') = Len(queue)
<1>1. Len(queue) \in Nat /\ DOMAIN queue = 1..Len(queue) /\ DOMAIN queue' = 1..(Len(queue) + n)
      /\ queue' \in Seq(Jobs)
  BY DEF Followed
<1>2. Len(queue') = Len(queue) + n
  BY <1>1, LenProperties
<1>3. queue # <<>> => 1 \in DOMAIN queue /\ Current = queue[1]
  BY QueueFacts
<1>4. queue' # <<>> => Len(queue') >= 1 /\ Current' = queue'[1]
  BY <1>1, <1>2, EmptySeq DEF Current
<1>5. queue = <<>> <=> Len(queue) = 0
  BY QueueFacts
<1>6. queue # <<>> => queue' # <<>>
  BY <1>1, <1>2, <1>5
<1>7. ASSUME queue = <<>>, queue' # <<>> PROVE Current'.phase = "queued"
  BY <1>1, <1>2, <1>4, <1>5, <1>7
<1>8. ASSUME queue # <<>>
      PROVE  /\ queue' # <<>> /\ Current'.k = Current.k /\ Current'.phase = Current.phase
             /\ Current'.c = Current.c /\ Current'.id = Current.id
             /\ Current'.ids = Current.ids /\ Current' = queue'[1]
  BY <1>3, <1>4, <1>6, <1>8 DEF Followed
<1>9. Len(queue) \in Nat
  BY <1>1
<1>10. (n = 1 /\ Len(queue') = 1 => Len(queue) = 0) /\ (n = 0 => Len(queue') = Len(queue))
  BY <1>2, <1>9
<1> QED BY <1>5, <1>7, <1>8, <1>10, Zenon

\* What the invariant says of the head of the queue, after an edit.
LEMMA KeptHead ==
  ASSUME Types, NEW n \in {0, 1}, Followed(n),
         n = 1 => queue'[Len(queue) + 1].phase = "queued",
         Aimed, Scheduled, UNCHANGED <<inst, rebuildScheduled>>,
         \A c \in Components : map'[c] \in {0, map[c]}
  PROVE  Aimed' /\ Scheduled'
<1>1. /\ queue # <<>> =>
               /\ queue' # <<>> /\ Current'.k = Current.k /\ Current'.phase = Current.phase
               /\ Current'.c = Current.c /\ Current'.id = Current.id
               /\ Current'.ids = Current.ids
      /\ queue = <<>> /\ queue' # <<>> => Current'.phase = "queued"
  BY FollowedHead
<1>2. Aimed'
  <2> SUFFICES ASSUME Setting'
               PROVE  /\ Current'.id \in DOMAIN inst' /\ map'[Current'.c] \in {0, Current'.id}
                      /\ \A e \in Components : map'[e] = Current'.id => e = Current'.c
    BY DEF Aimed
  <2>1. queue # <<>> /\ Setting
    BY <1>1 DEF Setting
  <2>2. /\ Current.id \in DOMAIN inst /\ map[Current.c] \in {0, Current.id}
        /\ \A e \in Components : map[e] = Current.id => e = Current.c
    BY <2>1 DEF Aimed
  <2>3. Current.c \in Components
    BY <2>1, QueueFacts DEF Setting, Jobs
  <2>4. Current.id # 0
    BY <2>2, InstFacts
  <2> QED BY <1>1, <2>1, <2>2, <2>3, <2>4
<1>3. Filling' => \A i, j \in DOMAIN Current'.ids : Current'.ids[i][1] = Current'.ids[j][1] => i = j
  <2> SUFFICES ASSUME Filling'
               PROVE  Filling /\ Current'.ids = Current.ids
    BY DEF Scheduled
  <2> QED BY DEF Followed
<1>4. rebuildScheduled' => \E i \in DOMAIN queue' : Waits(queue'[i])
  <2>1. \A i \in DOMAIN queue : i \in DOMAIN queue' /\ (Waits(queue[i]) => Waits(queue'[i]))
    BY DEF Followed, Waits
  <2> QED BY <2>1 DEF Scheduled
<1> QED BY <1>2, <1>3, <1>4 DEF Scheduled

\* An edit that adds a job about wires, or a stop.
LEMMA FaithfulEnqueue ==
  ASSUME Faithful, Sound', ~SnapDue, NEW b \in BOOLEAN, NEW j \in Jobs, j.phase = "queued",
         Enqueued(j, b), j.k \in {"transaction", "stop"},
         doc'.comps = doc.comps, doc'.val = doc.val,
         UNCHANGED <<born, lastInput, map, inst, snaps, snapWait>>,
         tainted' \in BOOLEAN, tainted => tainted'
  PROVE  Faithful'
<1>1. Types /\ Apart /\ Aimed /\ Scheduled /\ Recorded
  BY DEF Faithful, Sound, Regular
<1>2. Followed(1) /\ queue'[Len(queue) + 1] = j /\ UNCHANGED rebuildScheduled
  BY <1>1, EnqueuedFollows DEF Enqueued
<1>3. Echoed(0) /\ Neutral(0)
  BY <1>1, <1>2, EchoFollowed DEF Neutral
<1>4. Aimed' /\ Scheduled'
  BY <1>1, <1>2, KeptHead
<1>5. ~Repairing'
  BY <1>1, <1>2, FollowedHead DEF Repairing
<1>6. Calm /\ Still
  <2>1. Emptying' <=> Emptying
    BY <1>2 DEF Followed
  <2> QED BY <1>1, <2>1 DEF Calm, Still, Apart, SameValue
<1>7. Onward
  BY <1>1, <1>5 DEF Onward, Recorded
<1> QED BY <1>3, <1>4, <1>6, <1>7, KeptFaithful

\* A step that leaves the queue and the values alone.
LEMMA FaithfulIdle ==
  ASSUME Faithful, Sound',
         UNCHANGED <<queue, rebuildScheduled, doc, born, lastInput, map, inst, snaps, snapWait, tainted>>
  PROVE  Faithful'
<1>1. Sound /\ Regular /\ (~tainted => Clean) /\ Repairs
  BY DEF Faithful
<1>2. Regular'
  BY <1>1 DEF Regular, Apart, Removals, Aimed, Sequenced, Scheduled, Recorded, Setting, Current,
     Emptying, Filling, Rebuilding
<1>3. \A c \in Components : (Holds(c) => Holds(c)') /\ (Present(c) => Present(c)')
  BY DEF Holds, Present, Valued, Based
<1>4. doc.comps \subseteq Components
  BY <1>1 DEF Sound, Types, Docs
<1>5. ASSUME ~tainted' PROVE Clean'
  <2>1. Clean /\ (SnapDue' <=> SnapDue)
    BY <1>1, <1>5 DEF SnapDue
  <2>2. SnapDue => Due'
    BY <1>3, <1>4, <2>1 DEF Clean, Due
  <2>3. ~SnapDue => Mirrored'
    BY <1>3, <1>4, <2>1 DEF Clean, Mirrored
  <2>4. \A i \in DOMAIN queue : queue[i].k = "add" => Coming(i)'
    BY <2>1 DEF Clean, Coming
  <2> QED BY <2>1, <2>2, <2>3, <2>4 DEF Clean
<1>6. Repairs'
  BY <1>1, <1>3, <1>4 DEF Repairs, Repairing, Current
<1> QED BY <1>2, <1>5, <1>6 DEF Faithful

\* A rebuild takes the place of a transaction that failed.
LEMMA FaithfulRebuildInstead ==
  ASSUME Faithful, Sound', ~SnapDue, Calm, Still, queue # <<>>, Current.k = "transaction",
         queueCoreRebuild(Tail(queue), Current.awaited),
         snapWait' = (IF Current.awaited THEN "rebuild" ELSE snapWait),
         UNCHANGED <<snaps, tainted>>
  PROVE  Faithful'
<1>1. Types /\ OneAtATime /\ Awaits /\ Scheduled /\ Recorded
  BY DEF Faithful, Sound, Regular
<1>2. queue \in Seq(Jobs) /\ 1 \in DOMAIN queue /\ Current = queue[1] /\ Current.awaited \in BOOLEAN
  BY <1>1, QueueFacts DEF Types, Jobs
<1> DEFINE q == Tail(queue)
           a == Current.awaited
<1>3. /\ q \in Seq(Jobs) /\ Len(q) = Len(queue) - 1 /\ Len(queue) \in Nat /\ Len(queue) >= 1
      /\ \A i \in 1..(Len(queue) - 1) : q[i] = queue[i + 1]
  BY <1>2, TailIs
<1>4. queueCoreRebuild(q, a) /\ a \in BOOLEAN
  BY <1>2
<1> HIDE DEF q, a
<1>5. /\ queue' \in Seq(Jobs)
      /\ Len(queue') = IF rebuildScheduled THEN Len(q) ELSE Len(q) + 1
      /\ \A i \in 1..Len(q) :
               /\ queue'[i].k = q[i].k /\ queue'[i].phase = q[i].phase /\ queue'[i].c = q[i].c
               /\ queue'[i].id = q[i].id /\ queue'[i].ids = q[i].ids /\ queue'[i].v = q[i].v
      /\ ~rebuildScheduled => /\ queue'[Len(q) + 1].k = "rebuild"
                              /\ queue'[Len(q) + 1].phase = "queued"
  BY <1>3, <1>4, RebuildShape
<1>6. DOMAIN queue' = 1..Len(queue')
  BY <1>5, LenProperties
<1>7. \A i \in DOMAIN queue' : i > Len(queue) - 1 =>
         queue'[i].k = "rebuild" /\ queue'[i].phase = "queued"
  BY <1>3, <1>5, <1>6
<1>8. ~Waits(Current) /\ Spent(Current)
  BY DEF Waits, Spent
<1>9. /\ Echoed(1) /\ Aimed' /\ ~Filling' /\ ~Repairing'
      /\ (\E i \in DOMAIN queue : Waits(queue[i])) => \E i \in DOMAIN queue' : Waits(queue'[i])
  <2>1. Len(queue') >= Len(queue) - 1
    BY <1>3, <1>5
  <2>2. \A i \in 1..(Len(queue) - 1) :
             /\ queue'[i].k = queue[i + 1].k /\ queue'[i].phase = queue[i + 1].phase
             /\ queue'[i].c = queue[i + 1].c /\ queue'[i].v = queue[i + 1].v
             /\ queue'[i].id = queue[i + 1].id /\ queue'[i].ids = queue[i + 1].ids
    BY <1>3, <1>5
  <2> QED BY <1>1, <1>5, <1>7, <1>8, <2>1, <2>2, EchoPop
<1>10. \E i \in DOMAIN queue' : Waits(queue'[i])
  <2>1. CASE rebuildScheduled
    BY <1>1, <1>9, <2>1 DEF Scheduled
  <2>2. CASE ~rebuildScheduled
    <3>1. Len(q) + 1 \in DOMAIN queue' /\ Waits(queue'[Len(q) + 1])
      BY <1>3, <1>5, <1>6, <2>2 DEF Waits
    <3> QED BY <3>1
  <2> QED BY <2>1, <2>2
<1>11. Neutral(1)
  BY <1>7 DEF Neutral
<1>12. /\ snapWait' \in {"none", "txn", "rebuild"} /\ (snapWait' = "none" => snapWait = "none")
       /\ tainted' \in BOOLEAN
  BY <1>1 DEF Recorded
<1> QED BY <1>8, <1>9, <1>10, <1>11, <1>12, FaithfulPop

-----------------------------------------------------------------------------
(* The steps of the jobs *)

\* Nothing changes for the instances, and no rebuild begins to remove them.
LEMMA CalmSame ==
  ASSUME Apart, doc'.comps = doc.comps, doc'.val = doc.val,
         UNCHANGED <<born, lastInput, map, inst>>, Emptying => Emptying'
  PROVE  Calm /\ Still
BY DEF Apart, Calm, Still, SameValue

\* A value was set, or there was no instance to take it: then the component is rebuilt later.
LEMMA FaithfulProperty ==
  ASSUME Faithful, Sound', ~SnapDue, queue # <<>>, Current.k = "property",
         queue' = Tail(queue), Calm, UNCHANGED <<rebuildScheduled, snaps, snapWait>>,
         tainted' \in BOOLEAN, tainted => tainted',
         \A c \in Components : map[c] # 0 =>
             IF c = Current.c THEN Current.v \in {inst'[map[c]].val, inst'[map[c]].denied}
             ELSE SameValue(map[c])
  PROVE  Faithful'
<1>1. Types /\ OneAtATime /\ Scheduled /\ Recorded /\ Sequenced
  BY DEF Faithful, Sound, Regular
<1>2. queue \in Seq(Jobs) /\ 1 \in DOMAIN queue /\ Current = queue[1] /\ DOMAIN queue = 1..Len(queue)
  BY <1>1, QueueFacts DEF Types
<1>3. /\ queue' \in Seq(Jobs) /\ Len(queue') = Len(queue) - 1 /\ Len(queue) \in Nat
      /\ DOMAIN queue' = 1..(Len(queue) - 1)
      /\ \A i \in 1..(Len(queue) - 1) : queue'[i] = queue[i + 1]
  BY <1>2, TailIs
<1>4. \A i \in DOMAIN queue' : ~(i > Len(queue) - 1)
  BY <1>3
<1>5. ~Waits(Current)
  BY DEF Waits
<1>6. /\ Echoed(1) /\ Aimed' /\ ~Filling' /\ ~Repairing'
      /\ (\E i \in DOMAIN queue : Waits(queue[i])) => \E i \in DOMAIN queue' : Waits(queue'[i])
  <2>1. Len(queue') >= Len(queue) - 1
    BY <1>3
  <2> QED BY <1>1, <1>3, <1>4, <1>5, <2>1, EchoPop
<1>7. Scheduled'
  BY <1>1, <1>6 DEF Scheduled
<1>8. Onward
  BY <1>1, <1>6 DEF Onward, Recorded
<1>9. ASSUME NEW c \in doc.comps, Holds(c) PROVE Holds(c)'
  <2>1. c \in Components
    BY <1>1 DEF Types, Docs
  <2>2. PICK x : x = doc.val[c] /\ doc'.val[c] = x
    BY DEF Calm
  <2>3. ~Supplies(Current, c) /\ (Gives(Current, c, x) => Current.c = c)
    BY DEF Supplies, Gives, Renews, Restores, IsRebuild
  <2>4. ASSUME Current.c = c, map[c] = 0
        PROVE  \E i \in DOMAIN queue : i > 1 /\ Gives(queue[i], c, x)
    <3>1. PICK i \in DOMAIN queue : Supplies(queue[i], c)
      BY <1>9, <2>4 DEF Holds, Present
    <3>2. i # 1 /\ i > 1
      BY <1>2, <1>3, <2>3, <3>1
    <3>3. ~Restores(queue[i])
      BY <1>1, <3>1, <3>2 DEF OneAtATime, Restores
    <3>4. ~(queue[i].k = "insert" /\ queue[i].c = c)
      <4> SUFFICES ASSUME queue[i].k = "insert", queue[i].c = c PROVE FALSE
        OBVIOUS
      <4>1. i < 1
        BY <1>1, <1>2, <2>4 DEF Sequenced
      <4> QED BY <1>2, <1>3, <3>2, <4>1
    <3> QED BY <3>1, <3>2, <3>3, <3>4 DEF Supplies, Gives
  <2>5. /\ Gives(Current, c, x) /\ map[c] # 0 => Based(c, x)'
        /\ Based(c, x) /\ ~Spoils(Current, c, x) => Based(c, x)'
    <3>1. Gives(Current, c, x) => Current.c = c /\ Current.v = x
      BY DEF Gives, Renews, Restores, IsRebuild
    <3>2. Current.c = c /\ ~Spoils(Current, c, x) => Gives(Current, c, x)
      BY DEF Spoils, Touches
    <3>3. map'[c] = map[c]
      BY DEF Calm
    <3> QED BY <2>1, <3>1, <3>2, <3>3 DEF Based, SameValue
  <2>6. map[c] # 0 => map'[c] # 0
    BY DEF Calm
  <2>7. lastInput'[c] = "commit" => lastInput[c] = "commit"
    BY DEF Calm
  <2> QED BY <1>1, <1>4, <1>6, <1>9, <2>2, <2>3, <2>4, <2>5, <2>6, <2>7, KeptHolds
<1>10. Neutral(1)
  BY <1>4 DEF Neutral
<1> QED BY <1>6, <1>7, <1>8, <1>9, <1>10, KeptByValue

\* The code of a job up to its first request.
LEMMA FaithfulStart ==
  ASSUME Faithful, Sound', ~SnapDue, Start
  PROVE  Faithful'
<1>0. Types /\ Apart /\ Recorded /\ OneAtATime
  BY DEF Faithful, Sound, Regular
<1>1. /\ queue # <<>> /\ Current \in Jobs /\ Current.phase = "queued" /\ ~Emptying
      /\ Current = queue[1] /\ 1 \in DOMAIN queue
  BY <1>0, QueueFacts DEF Start, StartDue, Emptying, Rebuilding
<1>2. UNCHANGED <<doc, map, born, lastInput, inst, snaps, tainted>>
  BY DEF Start, docVars, coreVars, ghosts
<1>3. Calm /\ Still
  BY <1>0, <1>1, <1>2, CalmSame
<1>4. tainted' \in BOOLEAN /\ (tainted => tainted')
  BY <1>0, <1>2 DEF Recorded
<1>5. ASSUME NEW p \in {"sent", "stopping", "prepare"},
             queue' = [queue EXCEPT ![1] = [Current EXCEPT !.phase = p]],
             Current.k \notin {"property", "preview"}, IsRebuild(Current) <=> p # "sent",
             rebuildScheduled' => rebuildScheduled /\ ~Waits(Current), UNCHANGED snapWait
      PROVE  Faithful'
  <2> DEFINE j == [Current EXCEPT !.phase = p]
  <2>1. /\ j \in Jobs /\ j.k = Current.k /\ j.c = Current.c /\ j.id = Current.id
        /\ j.v = Current.v /\ j.phase = p
    BY <1>1, <1>5 DEF Jobs, Phases
  <2> HIDE DEF j
  <2>2. Echo(j, Current)
    BY <1>1, <1>5, <2>1 DEF Echo, Renews, Restores, IsRebuild
  <2>3. queue' = [queue EXCEPT ![1] = j]
    BY <1>5 DEF j
  <2>4. Aimed'
    <3>1. Current' = j
      BY <1>0, <1>1, <2>1, <2>2, <2>3, EchoProceed
    <3> QED BY <1>5, <2>1, <3>1 DEF Aimed, Setting
  <2> QED BY <1>1, <1>2, <1>3, <1>4, <1>5, <2>1, <2>2, <2>3, <2>4, FaithfulProceed
<1>6. CASE StartAdd \/ StartRemove
  <2>1. Current.k \in {"add", "insert", "remove"} /\ UNCHANGED <<rebuildScheduled, snapWait>>
        /\ queue' = [queue EXCEPT ![1] = [Current EXCEPT !.phase = "sent"]]
    BY <1>6 DEF StartAdd, StartRemove, Proceed
  <2>2. ~IsRebuild(Current) /\ ~Waits(Current)
    BY <2>1 DEF IsRebuild, Waits
  <2> QED BY <1>5, <2>1, <2>2
<1>7. ASSUME Current.k \in {"property", "preview"}, map[Current.c] # 0, NEW v \in Values,
             Current.k = "property" => v = Current.v,
             Proceed([Current EXCEPT !.phase = "sent", !.id = map[Current.c], !.v = v]),
             UNCHANGED snapWait
      PROVE  Faithful'
  <2> DEFINE j == [Current EXCEPT !.phase = "sent", !.id = map[Current.c], !.v = v]
  <2>1. Current.c \in Components /\ map[Current.c] \in Nat
    BY <1>0, <1>1, <1>7 DEF Jobs, Types
  <2>2. /\ j \in Jobs /\ j.k = Current.k /\ j.c = Current.c /\ j.id = map[Current.c]
        /\ j.v = v /\ j.phase = "sent"
    BY <1>1, <2>1 DEF Jobs, Phases
  <2>3. queue' = [queue EXCEPT ![1] = j] /\ UNCHANGED rebuildScheduled
    BY <1>7 DEF Proceed
  <2> HIDE DEF j
  <2>4. Echo(j, Current) /\ ~IsRebuild(j) /\ ~Waits(Current)
    BY <1>7, <2>2 DEF Echo, Renews, Restores, IsRebuild, Waits
  <2>5. Aimed'
    <3>1. Current' = j
      BY <1>0, <1>1, <2>2, <2>3, <2>4, EchoProceed
    <3>2. map[Current.c] \in DOMAIN inst
          /\ \A e \in Components : map[e] = map[Current.c] => e = Current.c
      BY <1>0, <1>7, <2>1 DEF Apart
    <3>3. Current'.id = map[Current.c] /\ Current'.c = Current.c
      BY <2>2, <3>1
    <3> QED BY <1>2, <3>2, <3>3 DEF Aimed
  <2>6. j.phase # "add"
    BY <2>2
  <2> QED BY <1>1, <1>2, <1>3, <1>4, <1>7, <2>2, <2>3, <2>4, <2>5, <2>6, FaithfulProceed
<1>8. CASE StartProperty
  <2>1. Current.k = "property" /\ UNCHANGED snapWait
    BY <1>8 DEF StartProperty
  <2>2. CASE map[Current.c] = 0
    <3>1. queue' = Tail(queue) /\ UNCHANGED rebuildScheduled
      BY <1>8, <2>2 DEF StartProperty, Finish
    <3>2. \A c \in Components : map[c] # 0 =>
             IF c = Current.c THEN Current.v \in {inst'[map[c]].val, inst'[map[c]].denied}
             ELSE SameValue(map[c])
      BY <1>2, <2>2 DEF SameValue
    <3>3. tainted' \in BOOLEAN /\ (tainted => tainted')
      BY <1>2 DEF Faithful, Regular, Recorded
    <3> QED BY <1>1, <1>2, <1>3, <2>1, <3>1, <3>2, <3>3, FaithfulProperty
  <2>3. CASE map[Current.c] # 0
    <3>1. Proceed([Current EXCEPT !.phase = "sent", !.id = map[Current.c]])
      BY <1>8, <2>3 DEF StartProperty
    <3>2. [Current EXCEPT !.phase = "sent", !.id = map[Current.c]]
          = [Current EXCEPT !.phase = "sent", !.id = map[Current.c], !.v = Current.v]
      BY <1>1 DEF Jobs
    <3>3. PICK v : v = Current.v /\ v \in Values
      BY <1>1 DEF Jobs
    <3>4. Proceed([Current EXCEPT !.phase = "sent", !.id = map[Current.c], !.v = v])
      BY <3>1, <3>2, <3>3
    <3> QED BY <1>7, <2>1, <2>3, <3>3, <3>4
  <2> QED BY <2>2, <2>3
<1>9. CASE StartPreview
  <2>1. Current.k = "preview" /\ UNCHANGED snapWait /\ Current.c \in Components
    BY <1>1, <1>9 DEF StartPreview, Jobs
  <2>2. Spent(Current) /\ ~Waits(Current)
    BY <2>1 DEF Spent, Waits
  <2>3. CASE Finish
    <3>1. queue' = Tail(queue) /\ UNCHANGED rebuildScheduled
      BY <2>3 DEF Finish
    <3> QED BY <1>1, <1>2, <1>3, <1>4, <2>1, <2>2, <3>1, FaithfulFinish
  <2>4. CASE /\ previews[Current.c] # -1 /\ map[Current.c] # 0
             /\ Proceed([Current EXCEPT !.phase = "sent", !.id = map[Current.c],
                                        !.v = previews[Current.c]])
    <3>1. PICK v : v = previews[Current.c] /\ v \in Values
      BY <1>0, <2>1, <2>4 DEF Types
    <3>2. Proceed([Current EXCEPT !.phase = "sent", !.id = map[Current.c], !.v = v])
      BY <2>4, <3>1
    <3> QED BY <1>7, <2>1, <2>4, <3>1, <3>2
  <2> QED BY <1>9, <2>3, <2>4 DEF StartPreview
<1>10. ASSUME Current.k \in {"transaction", "wire"},
              Proceed([Current EXCEPT !.phase = "sent", !.ids = SetToSeq(Pair)]),
              UNCHANGED snapWait
       PROVE  Faithful'
  <2> DEFINE j == [Current EXCEPT !.phase = "sent", !.ids = SetToSeq(Pair)]
  <2>1. SetToSeq(Pair) \in Seq(Nat \cup (Components \X Values))
    BY <1>0, PairIsFinite
  <2>2. /\ j \in Jobs /\ j.k = Current.k /\ j.c = Current.c /\ j.id = Current.id
        /\ j.v = Current.v /\ j.phase = "sent"
    BY <1>1, <2>1 DEF Jobs, Phases
  <2>3. queue' = [queue EXCEPT ![1] = j] /\ UNCHANGED rebuildScheduled
    BY <1>10 DEF Proceed
  <2> HIDE DEF j
  <2>4. Echo(j, Current) /\ ~IsRebuild(j) /\ ~Waits(Current) /\ j.phase # "add"
    BY <1>10, <2>2 DEF Echo, Renews, Restores, IsRebuild, Waits
  <2>5. Aimed'
    <3>1. Current' = j
      BY <1>0, <1>1, <2>2, <2>3, <2>4, EchoProceed
    <3> QED BY <1>10, <2>2, <3>1 DEF Aimed, Setting
  <2> QED BY <1>1, <1>2, <1>3, <1>4, <1>10, <2>2, <2>3, <2>4, <2>5, FaithfulProceed
<1>11. CASE StartTransaction
  <2>1. CASE Resolved
    BY <1>10, <1>11, <2>1 DEF StartTransaction
  <2>2. CASE ~Resolved
    <3>1. /\ queueCoreRebuild(Tail(queue), Current.awaited) /\ Current.k = "transaction"
          /\ snapWait' = IF Current.awaited THEN "rebuild" ELSE snapWait
      BY <1>11, <2>2 DEF StartTransaction
    <3> QED BY <1>1, <1>2, <1>3, <3>1, FaithfulRebuildInstead
  <2> QED BY <2>1, <2>2
<1>12. CASE StartWire
  <2>1. CASE Resolved
    BY <1>10, <1>12, <2>1 DEF StartWire
  <2>2. CASE ~Resolved
    <3>1. /\ queue' = Tail(queue) /\ UNCHANGED <<rebuildScheduled, snapWait>>
          /\ Spent(Current) /\ ~Waits(Current)
      BY <1>12, <2>2 DEF StartWire, Finish, Spent, Waits
    <3> QED BY <1>1, <1>2, <1>3, <1>4, <3>1, FaithfulFinish
  <2> QED BY <2>1, <2>2
<1>13. CASE StartRebuild
  <2>1. queue \in Seq(Jobs) /\ Len(queue) \in Nat /\ Len(queue) >= 1 /\ DOMAIN queue = 1..Len(queue)
    BY <1>0, <1>1, QueueFacts DEF Types
  <2>2. /\ queue' = [queue EXCEPT ![1] = [Current EXCEPT !.phase = "prepare"]]
        /\ ~rebuildScheduled' /\ UNCHANGED snapWait /\ Current.k = "rebuild"
    BY <1>1, <1>13, <2>1 DEF StartRebuild
  <2> QED BY <1>5, <2>2 DEF IsRebuild
<1>14. CASE StartStop
  <2>1. /\ queue' = [queue EXCEPT ![1] = [Current EXCEPT !.phase = "stopping"]]
        /\ Current.k = "stop" /\ UNCHANGED <<rebuildScheduled, snapWait>>
    BY <1>14 DEF StartStop, Proceed
  <2>2. IsRebuild(Current) /\ ~Waits(Current)
    BY <2>1 DEF IsRebuild, Waits
  <2> QED BY <1>5, <2>1, <2>2
<1> QED BY <1>6, <1>8, <1>9, <1>11, <1>12, <1>13, <1>14 DEF Start

\* A removal ends the instance it names and changes no value.
LEMMA RemoveInstanceSays ==
  ASSUME Types, NEW n, RemoveInstance(n)
  PROVE  /\ DOMAIN inst' = DOMAIN inst
         /\ \A i \in DOMAIN inst : SameValue(i)
         /\ \A i \in DOMAIN inst : i # n => inst'[i].live = inst[i].live
<1>1. \A i \in DOMAIN inst : inst[i] \in Instances
  BY InstFacts
<1>2. inst' = [inst EXCEPT ![n].live = FALSE]
  BY DEF RemoveInstance
<1> QED BY <1>1, <1>2 DEF Instances, SameValue

\* A removal.
LEMMA FaithfulAnswerRemove ==
  ASSUME Faithful, Sound', ~SnapDue, queue # <<>>, AnswerRemove
  PROVE  Faithful'
<1>1. Types /\ Apart /\ Removals /\ Recorded
  BY DEF Faithful, Sound, Regular
<1>2. /\ Current.k = "remove" /\ queue' = Tail(queue)
      /\ UNCHANGED <<doc, map, born, lastInput, rebuildScheduled, snaps, snapWait, tainted>>
      /\ UNCHANGED inst \/ RemoveInstance(Current.id)
  BY DEF AnswerRemove, Finish, docVars, snapVars
<1>3. ~Emptying /\ Spent(Current) /\ ~Waits(Current)
  BY <1>2 DEF Emptying, Rebuilding, IsRebuild, Spent, Waits
<1>4. \A c \in Components : map[c] # Current.id
  <2>1. 1 \in DOMAIN queue /\ Current = queue[1]
    BY <1>1, QueueFacts
  <2> QED BY <1>1, <1>2, <2>1 DEF Removals
<1>5. CASE UNCHANGED inst
  <2>1. Calm /\ Still
    BY <1>1, <1>2, <1>3, <1>5, CalmSame
  <2> QED BY <1>1, <1>2, <1>3, <2>1, FaithfulFinish DEF Recorded
<1>6. CASE RemoveInstance(Current.id)
  <2>1. PICK n : n = Current.id /\ RemoveInstance(n)
    BY <1>6
  <2>2. /\ DOMAIN inst' = DOMAIN inst
        /\ \A i \in DOMAIN inst : SameValue(i)
        /\ \A i \in DOMAIN inst : i # n => inst'[i].live = inst[i].live
    BY <1>1, <2>1, RemoveInstanceSays
  <2>3. Calm /\ Still
    BY <1>1, <1>2, <1>3, <1>4, <2>1, <2>2 DEF Calm, Still, Apart
  <2> QED BY <1>1, <1>2, <1>3, <2>3, FaithfulFinish DEF Recorded
<1> QED BY <1>2, <1>5, <1>6

\* A value set.
LEMMA FaithfulAnswerProperty ==
  ASSUME Faithful, Sound', ~SnapDue, queue # <<>>, AnswerProperty
  PROVE  Faithful'
<1>1. Types /\ Apart /\ Aimed /\ Recorded
  BY DEF Faithful, Sound, Regular
<1>2. /\ Current.k = "property" /\ Current.phase = "sent" /\ queue' = Tail(queue)
      /\ UNCHANGED <<doc, map, born, lastInput, rebuildScheduled, snaps, snapWait>>
      /\ tainted' \in BOOLEAN /\ (tainted => tainted')
  BY <1>1 DEF AnswerProperty, Finish, docVars, snapVars, Recorded
<1>3. ~Emptying /\ Current.c \in Components /\ Current.v \in Values
  BY <1>1, <1>2, QueueFacts DEF Emptying, Rebuilding, IsRebuild, Jobs
<1>4. /\ Current.id \in DOMAIN inst /\ map[Current.c] \in {0, Current.id}
      /\ \A e \in Components : map[e] = Current.id => e = Current.c
  BY <1>1, <1>2 DEF Aimed, Setting
<1>5. PICK n, v : /\ n = Current.id /\ v = Current.v
                  /\ \/ inst' = [inst EXCEPT ![n].val = v, ![n].denied = -1]
                     \/ inst' = [inst EXCEPT ![n].denied = v]
  BY DEF AnswerProperty
<1>6. /\ DOMAIN inst' = DOMAIN inst
      /\ \A i \in DOMAIN inst : inst'[i].live = inst[i].live
      /\ \A i \in DOMAIN inst : i # n => inst'[i] = inst[i]
      /\ v \in {inst'[n].val, inst'[n].denied}
  <2>1. n \in DOMAIN inst /\ v \in Values /\ inst[n] \in Instances
    BY <1>1, <1>3, <1>4, <1>5, InstFacts
  <2>2. v \in {inst'[n].val, inst'[n].denied}
    BY <1>5, <2>1 DEF Instances
  <2> QED BY <1>1, <1>5, <2>1, <2>2, SetSays
<1>7. Calm
  BY <1>1, <1>2, <1>3, <1>6 DEF Calm, Apart
<1>8. \A c \in Components : map[c] # 0 =>
         IF c = Current.c THEN Current.v \in {inst'[map[c]].val, inst'[map[c]].denied}
             ELSE SameValue(map[c])
  <2>1. \A c \in Components : map[c] # 0 => map[c] \in DOMAIN inst
    BY <1>1 DEF Apart
  <2> QED BY <1>3, <1>4, <1>5, <1>6, <2>1 DEF SameValue
<1> QED BY <1>2, <1>7, <1>8, FaithfulProperty

\* A preview set: the drain is still there, and what it sets does not count.
LEMMA FaithfulAnswerPreview ==
  ASSUME Faithful, Sound', ~SnapDue, queue # <<>>, AnswerPreview
  PROVE  Faithful'
<1>1. Types /\ Apart /\ Aimed /\ Recorded
  BY DEF Faithful, Sound, Regular
<1>2. /\ Current.k = "preview" /\ Current.phase = "sent"
      /\ queue' = [queue EXCEPT ![1] = [Current EXCEPT !.phase = "queued"]]
      /\ UNCHANGED <<doc, map, born, lastInput, rebuildScheduled, snaps, snapWait>>
      /\ tainted' \in BOOLEAN /\ (tainted => tainted')
  BY <1>1 DEF AnswerPreview, Proceed, docVars, snapVars, Recorded
<1>3. ~Emptying /\ Current.c \in Components /\ Current \in Jobs /\ Current.v \in Values
  BY <1>1, <1>2, QueueFacts DEF Emptying, Rebuilding, IsRebuild, Jobs
<1>4. /\ Current.id \in DOMAIN inst
      /\ \A e \in Components : map[e] = Current.id => e = Current.c
  BY <1>1, <1>2 DEF Aimed, Setting
<1>5. PICK n, v : /\ n = Current.id /\ v = Current.v
                  /\ inst' = [inst EXCEPT ![n].val = v] \/ inst' = inst
  BY DEF AnswerPreview
<1>6. /\ DOMAIN inst' = DOMAIN inst
      /\ \A i \in DOMAIN inst : inst'[i].live = inst[i].live
      /\ \A i \in DOMAIN inst : i # n => inst'[i] = inst[i]
  BY <1>1, <1>3, <1>5, SetSays
<1>7. Calm
  BY <1>1, <1>2, <1>3, <1>6 DEF Calm, Apart
<1>8. Still
  BY <1>1, <1>2, <1>4, <1>5, <1>6 DEF Still, Apart, SameValue
<1> DEFINE j == [Current EXCEPT !.phase = "queued"]
<1>9. j \in Jobs /\ j.k = Current.k /\ j.c = Current.c /\ j.phase = "queued"
  BY <1>3 DEF Jobs, Phases
<1>10. queue' = [queue EXCEPT ![1] = j]
  BY <1>2
<1> HIDE DEF j
<1>11. Echo(j, Current) /\ ~IsRebuild(j) /\ ~Waits(Current) /\ j.phase # "add"
  BY <1>2, <1>9 DEF Echo, Renews, Restores, IsRebuild, Waits
<1>12. Aimed'
  <2>1. Current' = j
    BY <1>1, <1>9, <1>10, <1>11, EchoProceed
  <2> QED BY <1>9, <2>1 DEF Aimed, Setting
<1> QED BY <1>2, <1>7, <1>8, <1>9, <1>10, <1>11, <1>12, FaithfulProceed

\* A transaction of wires.
LEMMA FaithfulAnswerTransaction ==
  ASSUME Faithful, Sound', ~SnapDue, queue # <<>>, AnswerTransaction
  PROVE  Faithful'
<1>1. Types /\ Apart /\ Recorded
  BY DEF Faithful, Sound, Regular
<1>2. Current.k = "transaction" /\ UNCHANGED <<doc, map, born, lastInput, inst, tainted>>
  BY DEF AnswerTransaction, docVars, ghosts
<1>3. ~Emptying /\ Spent(Current) /\ ~Waits(Current)
  BY <1>2 DEF Emptying, Rebuilding, IsRebuild, Spent, Waits
<1>4. Calm /\ Still
  BY <1>1, <1>2, <1>3, CalmSame
<1>5. tainted' \in BOOLEAN /\ (tainted => tainted')
  BY <1>1, <1>2 DEF Recorded
<1>6. \/ /\ queue' = Tail(queue) /\ UNCHANGED rebuildScheduled
         /\ snaps' = (IF Current.awaited THEN Tail(snaps) ELSE snaps)
         /\ snapWait' = (IF Current.awaited THEN "none" ELSE snapWait)
      \/ /\ queueCoreRebuild(Tail(queue), Current.awaited)
         /\ snapWait' = (IF Current.awaited THEN "rebuild" ELSE snapWait)
         /\ UNCHANGED snaps
  BY DEF AnswerTransaction, Finish
<1> QED BY <1>2, <1>3, <1>4, <1>5, <1>6, FaithfulFinish, FaithfulRebuildInstead

\* A wire of what was pasted.
LEMMA FaithfulAnswerWire ==
  ASSUME Faithful, Sound', ~SnapDue, queue # <<>>, AnswerWire
  PROVE  Faithful'
<1>1. Types /\ Apart /\ Recorded
  BY DEF Faithful, Sound, Regular
<1>2. /\ Current.k = "wire" /\ queue' = Tail(queue)
      /\ UNCHANGED <<doc, map, born, lastInput, inst, rebuildScheduled, snaps, snapWait>>
  BY DEF AnswerWire, Finish, docVars, snapVars
<1>3. ~Emptying /\ Spent(Current) /\ ~Waits(Current)
  BY <1>2 DEF Emptying, Rebuilding, IsRebuild, Spent, Waits
<1>4. Calm /\ Still
  BY <1>1, <1>2, <1>3, CalmSame
<1>5. tainted' \in BOOLEAN /\ (tainted => tainted')
  BY <1>1 DEF Recorded, AnswerWire
<1> QED BY <1>2, <1>3, <1>4, <1>5, FaithfulFinish

\* The queue after the answer to an add or a paste, whose wire may follow.
LEMMA EchoAdded ==
  ASSUME Faithful, queue # <<>>, AnswerAdd
  PROVE  /\ Echoed(1) /\ Neutral(1) /\ Aimed' /\ ~Filling' /\ ~Emptying' /\ ~Repairing'
         /\ rebuildScheduled' => \E i \in DOMAIN queue' : Waits(queue'[i])
<1>1. Types /\ OneAtATime /\ Scheduled
  BY DEF Faithful, Sound, Regular
<1>2. /\ Current.k \in {"add", "insert"} /\ UNCHANGED rebuildScheduled
      /\ queue' = (IF Current.connect THEN Append(Tail(queue), Job("wire")) ELSE Tail(queue))
  BY DEF AnswerAdd
<1> DEFINE w == Job("wire")
<1>3. w \in Jobs /\ w.k = "wire" /\ w.phase = "queued"
  BY ValuesAssumption DEF Job, Jobs, Kinds, Phases, Structural
<1>4. queue \in Seq(Jobs)
  BY <1>1 DEF Types
<1>5. queue' = (IF Current.connect THEN Append(Tail(queue), w) ELSE Tail(queue))
  BY <1>2
<1> HIDE DEF w
<1>6. /\ queue' \in Seq(Jobs) /\ Len(queue') >= Len(queue) - 1
      /\ \A i \in 1..(Len(queue) - 1) : queue'[i] = queue[i + 1]
      /\ \A i \in 1..Len(queue') : i > Len(queue) - 1 => queue'[i] = w
  BY <1>3, <1>4, <1>5, OneMore
<1>7. \A i \in DOMAIN queue' : i > Len(queue) - 1 => queue'[i].k = "wire" /\ queue'[i].phase = "queued"
  BY <1>3, <1>6, LenProperties
<1>8. /\ Echoed(1) /\ Aimed' /\ ~Filling' /\ ~Emptying' /\ ~Repairing'
      /\ (\E i \in DOMAIN queue : Waits(queue[i])) /\ ~Waits(Current) =>
               \E i \in DOMAIN queue' : Waits(queue'[i])
  BY <1>1, <1>6, <1>7, EchoPop
<1>9. Neutral(1)
  BY <1>7 DEF Neutral
<1>10. ~Waits(Current)
  BY <1>2 DEF Waits
<1> QED BY <1>1, <1>2, <1>8, <1>9, <1>10 DEF Scheduled

\* An instance more: the others stay as they are.
LEMMA AddInstanceSays ==
  ASSUME Types, NEW e \in Components, NEW v \in Values, AddInstance(e, v)
  PROVE  /\ DOMAIN inst \subseteq DOMAIN inst' /\ Len(inst) + 1 \in DOMAIN inst'
         /\ Len(inst) + 1 \notin DOMAIN inst /\ Len(inst) + 1 \in Nat /\ Len(inst) + 1 # 0
         /\ \A i \in DOMAIN inst : inst'[i] = inst[i]
         /\ inst'[Len(inst) + 1].live /\ v \in {inst'[Len(inst) + 1].val, inst'[Len(inst) + 1].denied}
<1>1. PICK r \in Instances : inst' = Append(inst, r) /\ r.live /\ v \in {r.val, r.denied}
  BY AddedIs
<1>2. inst \in Seq(Instances) /\ Len(inst) \in Nat /\ DOMAIN inst = 1..Len(inst)
  BY InstFacts
<1>3. inst' = Append(inst, r)
  BY <1>1
<1>4. /\ inst' \in Seq(Instances) /\ Len(inst') = Len(inst) + 1 /\ inst'[Len(inst) + 1] = r
      /\ \A i \in 1..Len(inst) : inst'[i] = inst[i]
  BY <1>1, <1>2, <1>3, AppendProperties
<1>5. DOMAIN inst' = 1..(Len(inst) + 1)
  BY <1>4, LenProperties
<1> QED BY <1>1, <1>2, <1>4, <1>5

\* An entry of the map gets an instance of its own.
LEMMA ApartAdd ==
  ASSUME Types, Apart, ~Emptying, NEW c \in Components, NEW v \in Values, AddInstance(c, v),
         map' = [map EXCEPT ![c] = Len(inst) + 1]
  PROVE  /\ Apart' /\ \A e \in Components : map'[e] = IF e = c THEN Len(inst) + 1 ELSE map[e]
         /\ \A e \in Components : map'[e] \in {0, map[e], Len(inst) + 1}
         /\ \A e \in Components : e # c /\ map[e] # 0 => inst'[map'[e]] = inst[map[e]]
         /\ map'[c] # 0 /\ v \in {inst'[map'[c]].val, inst'[map'[c]].denied}
<1>1. /\ DOMAIN inst \subseteq DOMAIN inst' /\ Len(inst) + 1 \in DOMAIN inst'
      /\ Len(inst) + 1 \notin DOMAIN inst /\ Len(inst) + 1 # 0
      /\ \A i \in DOMAIN inst : inst'[i] = inst[i]
      /\ inst'[Len(inst) + 1].live /\ v \in {inst'[Len(inst) + 1].val, inst'[Len(inst) + 1].denied}
  BY AddInstanceSays
<1>2. \A e \in Components : map'[e] = IF e = c THEN Len(inst) + 1 ELSE map[e]
  BY DEF Types
<1>3. \A e \in Components : map[e] # 0 => map[e] \in DOMAIN inst /\ inst[map[e]].live
  BY DEF Apart
<1>4. \A e \in Components : e # c /\ map[e] # 0 => inst'[map'[e]] = inst[map[e]]
  BY <1>1, <1>2, <1>3
<1>5. \A e \in Components : map'[e] # 0 => map'[e] \in DOMAIN inst' /\ inst'[map'[e]].live
  BY <1>1, <1>2, <1>3
<1>6. \A e, f \in Components : map'[e] = map'[f] /\ map'[e] # 0 => e = f
  BY <1>1, <1>2, <1>3 DEF Apart
<1>7. Apart'
  BY <1>5, <1>6 DEF Apart
<1> QED BY <1>1, <1>2, <1>4, <1>7

\* An add or a paste that is confirmed.
LEMMA FaithfulAdded ==
  ASSUME Faithful, Sound', ~SnapDue, queue # <<>>, AnswerAdd,
         AddInstance(Current.c, Current.v),
         map' = [map EXCEPT ![Current.c] = Len(inst) + 1],
         doc' = (IF Current.k = "add" THEN [doc EXCEPT !.comps = @ \cup {Current.c}] ELSE doc),
         UNCHANGED tainted
  PROVE  Faithful'
<1>1. Types /\ Births /\ OneAtATime /\ Apart /\ Removals /\ Sequenced /\ Recorded
  BY DEF Faithful, Sound, Regular
<1>2. /\ 1 \in DOMAIN queue /\ Current = queue[1] /\ Current \in Jobs
      /\ Current.k \in {"add", "insert"} /\ Current.v \in Values /\ Current.c \in Components
      /\ UNCHANGED <<born, lastInput, snaps, snapWait>>
  BY <1>1, QueueFacts DEF AnswerAdd, Jobs, Structural, snapVars
<1>3. PICK e, v : e = Current.c /\ v = Current.v
  OBVIOUS
<1>4. ~Emptying
  BY <1>2 DEF Emptying, Rebuilding, IsRebuild
<1>5. /\ Apart' /\ \A c \in Components : map'[c] = IF c = e THEN Len(inst) + 1 ELSE map[c]
      /\ \A c \in Components : map'[c] \in {0, map[c], Len(inst) + 1}
      /\ \A c \in Components : c # e /\ map[c] # 0 => inst'[map'[c]] = inst[map[c]]
      /\ map'[e] # 0 /\ v \in {inst'[map'[e]].val, inst'[map'[e]].denied}
  <2>1. AddInstance(e, v) /\ map' = [map EXCEPT ![e] = Len(inst) + 1] /\ e \in Components /\ v \in Values
    BY <1>2, <1>3
  <2> QED BY <1>1, <1>4, <2>1, ApartAdd
<1>6. /\ Echoed(1) /\ Neutral(1) /\ Aimed' /\ ~Filling' /\ ~Emptying' /\ ~Repairing'
      /\ rebuildScheduled' => \E i \in DOMAIN queue' : Waits(queue'[i])
  BY EchoAdded
<1>7. Scheduled'
  BY <1>6 DEF Scheduled
<1>8. Removals'
  <2>1. \A i \in DOMAIN queue' : i > Len(queue) - 1 => queue'[i].k # "remove"
    BY <1>6 DEF Neutral
  <2>2. DOMAIN inst \subseteq DOMAIN inst'
    BY <1>1, <1>2, AddInstanceSays
  <2> QED BY <1>1, <1>5, <1>6, <2>1, <2>2, KeptRemovals
<1>9. Sequenced'
  <2>1. \A i \in DOMAIN queue' : i > Len(queue) - 1 =>
           queue'[i].k \notin {"property", "preview", "insert"}
    BY <1>6 DEF Neutral
  <2> QED BY <1>1, <1>2, <1>6, <2>1, KeptSequenced
<1>10. /\ doc'.val = doc.val /\ doc'.comps \subseteq doc.comps \cup {e}
       /\ doc.comps \subseteq doc'.comps /\ (Current.k = "insert" => doc'.comps = doc.comps)
  BY <1>1, <1>2, <1>3 DEF Types, Docs
<1>11. Recorded'
  BY <1>1, <1>2, <1>10 DEF Recorded
<1>12. Regular'
  BY <1>5, <1>6, <1>7, <1>8, <1>9, <1>11 DEF Regular
<1>13. Repairs'
  BY <1>6 DEF Repairs
<1>14. ASSUME ~tainted' PROVE Clean'
  <2>1. Clean /\ Mirrored /\ ~SnapDue'
    BY <1>2, <1>14 DEF Faithful, Clean, SnapDue
  <2>2. ASSUME NEW c \in doc.comps, c # e PROVE Holds(c)'
    <3>1. c \in Components /\ Holds(c)
      BY <1>1, <2>1, <2>2 DEF Types, Docs, Mirrored
    <3>2. PICK x : x = doc.val[c] /\ doc'.val[c] = x
      BY <1>10
    <3>3. ~Supplies(Current, c) /\ ~Gives(Current, c, x)
      BY <1>2, <1>3, <2>2 DEF Supplies, Gives, Renews, Restores, IsRebuild
    <3>4. map[c] # 0 => map'[c] # 0
      BY <1>5, <2>2, <3>1
    <3>5. Based(c, x) => Based(c, x)'
      BY <1>5, <2>2, <3>1 DEF Based
    <3>6. \A i \in DOMAIN queue' : i > Len(queue) - 1 => ~Spoils(queue'[i], c, x)
      BY <1>6, NeutralSays DEF Neutral
    <3> QED BY <1>1, <1>2, <1>6, <3>1, <3>2, <3>3, <3>4, <3>5, <3>6, KeptHolds
  <2>3. ASSUME e \in doc.comps PROVE Holds(e)'
    <3>1. Holds(e)
      BY <2>1, <2>3 DEF Mirrored
    <3>2. PICK x : x = doc.val[e] /\ doc'.val[e] = x
      BY <1>10
    <3>3. Gives(Current, e, x) => v = x
      BY <1>2, <1>3 DEF Gives, Renews, Restores, IsRebuild
    <3>4. ~Spoils(Current, e, x) => Gives(Current, e, x)
      BY <1>2, <1>3 DEF Spoils, Touches
    <3>5. v = x => Based(e, x)'
      BY <1>5 DEF Based
    <3>6. \A i \in DOMAIN queue' : i > Len(queue) - 1 => ~Spoils(queue'[i], e, x)
      BY <1>6, NeutralSays DEF Neutral
    <3> QED BY <1>1, <1>2, <1>5, <1>6, <3>1, <3>2, <3>3, <3>4, <3>5, <3>6, KeptHolds
  <2>4. ASSUME e \notin doc.comps, Current.k = "add" PROVE Holds(e)'
    <3>1. /\ doc.val[e] = 0 /\ v = 0
          /\ \A j \in DOMAIN queue : j # 1 /\ Touches(queue[j], e) => Renews(queue[j])
      BY <1>2, <1>3, <2>1, <2>4 DEF Clean, Coming
    <3>2. ASSUME NEW j \in DOMAIN queue' PROVE ~Spoils(queue'[j], e, 0)
      <4>1. CASE j > Len(queue) - 1
        BY <1>6, <4>1, NeutralSays DEF Neutral
      <4>2. CASE j + 1 \in DOMAIN queue /\ j + 1 > 1 /\ Echo(queue'[j], queue[j + 1])
        <5>1. j + 1 # 1
          BY <4>2
        <5>2. Touches(queue[j + 1], e) => Renews(queue[j + 1])
          BY <3>1, <4>2, <5>1
        <5>3. ~Spoils(queue[j + 1], e, 0)
          BY <5>2 DEF Spoils, Gives
        <5> QED BY <4>2, <5>3, EchoSays
      <4> QED BY <1>1, <1>6, <4>1, <4>2, EchoOrigin
    <3>3. doc'.val[e] = 0 /\ Based(e, 0)'
      BY <1>5, <1>10, <3>1 DEF Based
    <3>4. Valued(e)'
      BY <3>2, <3>3 DEF Valued
    <3> QED BY <1>5, <3>4 DEF Holds, Present
  <2>5. Mirrored'
    <3>1. \A c \in doc'.comps : Holds(c)'
      BY <1>2, <1>10, <2>2, <2>3, <2>4
    <3> QED BY <1>2, <2>1, <3>1 DEF Mirrored
  <2>6. ASSUME NEW i \in DOMAIN queue', queue'[i].k = "add" PROVE Coming(i)'
    <3>1. ~(i > Len(queue) - 1)
      BY <1>6, <2>6 DEF Neutral
    <3>2. i + 1 \in DOMAIN queue /\ i + 1 > 1 /\ Echo(queue'[i], queue[i + 1])
          /\ i \in Int /\ (i + 1) - 1 = i
      BY <1>1, <1>6, <3>1, EchoOrigin
    <3>3. PICK n, c : n = i + 1 /\ c = queue[n].c
      OBVIOUS
    <3>4. n \in DOMAIN queue /\ n > 1 /\ Coming(n) /\ queue[n].k = "add" /\ n # 1
      BY <2>1, <2>6, <3>2, <3>3 DEF Clean, Echo
    <3>5. \A j \in DOMAIN queue' :
             j > Len(queue) - 1 /\ Touches(queue'[j], c) => Renews(queue'[j])
      BY <1>6, NeutralSays DEF Neutral
    <3>6. c # e
      BY <1>1, <1>2, <1>3, <3>3, <3>4 DEF Births, Structural
    <3>7. (c \in doc'.comps <=> c \in doc.comps) /\ doc'.val[c] = doc.val[c]
      BY <1>10, <3>6
    <3>8. Coming(n - 1)'
      BY <1>1, <1>6, <3>3, <3>4, <3>5, <3>7, KeptComing
    <3> QED BY <3>2, <3>3, <3>8
  <2> QED BY <2>1, <2>5, <2>6 DEF Clean
<1> QED BY <1>12, <1>13, <1>14 DEF Faithful

\* The answer to an add or a paste.
LEMMA FaithfulAnswerAdd ==
  ASSUME Faithful, Sound', ~SnapDue, queue # <<>>, AnswerAdd
  PROVE  Faithful'
<1>1. Types /\ Apart /\ Recorded
  BY DEF Faithful, Sound, Regular
<1>2. /\ Current.k \in {"add", "insert"} /\ Current.v \in Values /\ Current.c \in Components
      /\ UNCHANGED <<born, lastInput, snaps, snapWait>>
  BY <1>1, QueueFacts DEF AnswerAdd, Jobs, Structural, snapVars
<1>3. PICK answer \in Answers(~on) :
           /\ IF answer = "refused" THEN UNCHANGED inst ELSE AddInstance(Current.c, Current.v)
           /\ map' = IF answer = "ok" THEN [map EXCEPT ![Current.c] = Len(inst) + 1] ELSE map
           /\ doc' = IF answer = "ok" /\ Current.k = "add"
                     THEN [doc EXCEPT !.comps = @ \cup {Current.c}] ELSE doc
           /\ tainted' = (tainted \/ (Current.k = "insert" /\ answer # "ok"))
  BY DEF AnswerAdd
<1>4. CASE answer = "ok"
  <2>1. tainted' = tainted
    BY <1>1, <1>3, <1>4 DEF Recorded
  <2>2. AddInstance(Current.c, Current.v)
    BY <1>3, <1>4
  <2>3. map' = [map EXCEPT ![Current.c] = Len(inst) + 1]
    BY <1>3, <1>4
  <2>4. doc' = (IF Current.k = "add" THEN [doc EXCEPT !.comps = @ \cup {Current.c}] ELSE doc)
    BY <1>3, <1>4
  <2> QED BY <2>1, <2>2, <2>3, <2>4, FaithfulAdded
<1>5. CASE answer # "ok"
  <2>1. /\ UNCHANGED <<map, doc>> /\ (UNCHANGED inst \/ AddInstance(Current.c, Current.v))
        /\ tainted' \in BOOLEAN /\ (tainted => tainted') /\ (Current.k = "insert" => tainted')
    BY <1>1, <1>3, <1>5 DEF Recorded
  <2>2. ~Emptying
    BY <1>2 DEF Emptying, Rebuilding, IsRebuild
  <2>3. DOMAIN inst \subseteq DOMAIN inst' /\ \A i \in DOMAIN inst : inst'[i] = inst[i]
    BY <1>1, <1>2, <2>1, AddInstanceSays
  <2>4. Calm /\ Still
    BY <1>1, <1>2, <2>1, <2>2, <2>3 DEF Calm, Still, Apart, SameValue
  <2>5. /\ Echoed(1) /\ Neutral(1) /\ Aimed' /\ ~Filling' /\ ~Emptying' /\ ~Repairing'
        /\ rebuildScheduled' => \E i \in DOMAIN queue' : Waits(queue'[i])
    BY EchoAdded
  <2>6. Scheduled'
    BY <2>5 DEF Scheduled
  <2>7. Onward
    BY <1>1, <1>2, <2>1, <2>5 DEF Onward, Recorded
  <2>8. CASE Current.k = "insert"
    BY <2>1, <2>4, <2>5, <2>6, <2>7, <2>8, KeptByValue
  <2>9. CASE Current.k = "add"
    <3>1. Spent(Current)
      BY <2>9 DEF Spent
    <3> QED BY <2>4, <2>5, <2>6, <2>7, <3>1, KeptFaithful
  <2> QED BY <1>2, <2>8, <2>9
<1> QED BY <1>4, <1>5

-----------------------------------------------------------------------------
(* The steps of a rebuild *)

\* The job that takes the place of the first one, after a step that keeps the types.
LEMMA HeadIs ==
  ASSUME Types, Types', queue # <<>>, NEW j, queue' = [queue EXCEPT ![1] = j]
  PROVE  j \in Jobs /\ queue' # <<>> /\ Current' = j /\ Len(queue') = Len(queue)
<1>1. /\ queue \in Seq(Jobs) /\ Len(queue) \in Nat /\ Len(queue) >= 1
      /\ DOMAIN queue = 1..Len(queue)
  BY QueueFacts DEF Types
<1>2. queue' \in Seq(Jobs)
  BY DEF Types
<1>3. queue'[1] = j /\ DOMAIN queue' = 1..Len(queue) /\ 1 \in DOMAIN queue'
  BY <1>1
<1>4. Len(queue') = Len(queue)
  BY <1>1, <1>2, <1>3, LenProperties
<1>5. j \in Jobs
  BY <1>1, <1>2, <1>3, <1>4, ElementOfSeq
<1>6. queue' # <<>> /\ Head(queue') = queue'[1]
  BY <1>3
<1> QED BY <1>3, <1>4, <1>5, <1>6 DEF Current

\* A rebuild that goes on, before it reads the document or after it added the components.
LEMMA FaithfulRebuildGoes ==
  ASSUME Faithful, Sound', ~SnapDue, Calm, Still, queue # <<>>, IsRebuild(Current),
         Current.phase # "queued", NEW j, Proceed(j),
         j.k = Current.k, j.c = Current.c, j.v = Current.v,
         \/ Current.phase \in {"stopping", "prepare", "halt", "remove"}
            /\ j.phase \in {"prepare", "halt", "remove"}
         \/ Current.phase \in {"add", "wire"} /\ ~Restores(Current)
            /\ j.phase \in {"wire", "resume"} /\ (j.undisturbed => Current.undisturbed),
         UNCHANGED <<snaps, snapWait>>, tainted' \in BOOLEAN, tainted => tainted'
  PROVE  Faithful'
<1>1. Types /\ Types'
  BY DEF Faithful, Sound
<1>2. queue' = [queue EXCEPT ![1] = j] /\ UNCHANGED rebuildScheduled
  BY DEF Proceed
<1>3. j \in Jobs /\ Current' = j
  BY <1>1, <1>2, HeadIs
<1>4. IsRebuild(j) /\ ~Waits(Current) /\ j.phase # "add"
  BY DEF IsRebuild, Waits
<1>5. Echo(j, Current)
  BY <1>4 DEF Echo, Renews, Restores, IsRebuild
<1>6. Aimed'
  BY <1>3, <1>4 DEF Aimed, Setting, IsRebuild
<1>7. IsRebuild(j) /\ j.phase \in {"wire", "resume"} =>
             Current.phase \in {"add", "wire"} /\ (j.undisturbed => Current.undisturbed)
  OBVIOUS
<1> QED BY <1>2, <1>3, <1>4, <1>5, <1>6, <1>7, FaithfulProceed

\* The steps before it removes the instances.
LEMMA FaithfulRebuildBegins ==
  ASSUME Faithful, Sound', ~SnapDue, StopCore \/ RebuildPrepare \/ RebuildHalt
  PROVE  Faithful'
<1>1. Types /\ Apart /\ Recorded
  BY DEF Faithful, Sound, Regular
<1>2. /\ queue # <<>> /\ IsRebuild(Current) /\ Current.phase \in {"stopping", "prepare", "halt"}
      /\ Current \in Jobs
  BY <1>1, QueueFacts DEF StopCore, RebuildPrepare, RebuildHalt, Rebuilding
<1>3. UNCHANGED <<doc, map, inst, born, lastInput, snaps, snapWait, tainted>>
  BY DEF StopCore, RebuildPrepare, RebuildHalt, docVars, coreVars, snapVars, ghosts
<1>4. Calm /\ Still
  BY <1>1, <1>2, <1>3, CalmSame DEF Emptying, Rebuilding
<1>5. tainted' \in BOOLEAN /\ (tainted => tainted')
  BY <1>1, <1>3 DEF Recorded
<1>6. PICK j : /\ Proceed(j) /\ j.k = Current.k /\ j.c = Current.c /\ j.v = Current.v
               /\ j.phase \in {"prepare", "halt", "remove"}
  <2>1. CASE StopCore
    <3>1. PICK j : j = [Current EXCEPT !.phase = "prepare"] /\ Proceed(j)
      BY <2>1 DEF StopCore
    <3>2. j.k = Current.k /\ j.c = Current.c /\ j.v = Current.v /\ j.phase = "prepare"
      BY <1>2, <3>1 DEF Jobs
    <3> QED BY <3>1, <3>2
  <2>2. CASE RebuildPrepare
    <3>1. PICK r, j : j = [Current EXCEPT !.phase = "halt", !.resume = r] /\ Proceed(j)
      BY <2>2 DEF RebuildPrepare
    <3>2. j.k = Current.k /\ j.c = Current.c /\ j.v = Current.v /\ j.phase = "halt"
      BY <1>2, <3>1 DEF Jobs
    <3> QED BY <3>1, <3>2
  <2>3. CASE RebuildHalt
    <3>1. PICK r, j : j = [Current EXCEPT !.phase = "remove", !.ids = r] /\ Proceed(j)
      BY <2>3 DEF RebuildHalt, CaptureInstances
    <3>2. j.k = Current.k /\ j.c = Current.c /\ j.v = Current.v /\ j.phase = "remove"
      BY <1>2, <3>1 DEF Jobs
    <3> QED BY <3>1, <3>2
  <2> QED BY <2>1, <2>2, <2>3
<1>7. Current.phase # "queued"
  BY <1>2
<1> QED BY <1>2, <1>3, <1>4, <1>5, <1>6, <1>7, FaithfulRebuildGoes

\* It removes an instance: no value changes, and the components are still to be read.
LEMMA FaithfulRebuildRemove ==
  ASSUME Faithful, Sound', ~SnapDue, RebuildRemove
  PROVE  Faithful'
<1>1. Types /\ Types' /\ Apart /\ Recorded
  BY DEF Faithful, Sound, Regular
<1>2. queue # <<>> /\ IsRebuild(Current) /\ Current.phase = "remove" /\ Current \in Jobs
  BY <1>1, QueueFacts DEF RebuildRemove, Rebuilding
<1>3. UNCHANGED <<doc, map, born, lastInput, snaps, snapWait, tainted>>
  BY DEF RebuildRemove, docVars, snapVars
<1>4. PICK r, j : j = [Current EXCEPT !.ids = r] /\ Proceed(j)
  BY <1>2 DEF RebuildRemove, Jobs
<1>5. j.k = Current.k /\ j.c = Current.c /\ j.v = Current.v /\ j.phase = "remove"
  BY <1>2, <1>4 DEF Jobs
<1>6. Emptying'
  <2>1. queue' # <<>> /\ Current' = j
    BY <1>1, <1>2, <1>4, HeadIs DEF Proceed
  <2> QED BY <1>2, <1>5, <2>1 DEF Emptying, Rebuilding, IsRebuild
<1>7. DOMAIN inst' = DOMAIN inst /\ \A i \in DOMAIN inst : SameValue(i)
  <2>1. UNCHANGED inst \/ RemoveInstance(Head(Current.ids))
    BY DEF RebuildRemove
  <2>2. PICK n : n = Head(Current.ids)
    OBVIOUS
  <2> QED BY <1>1, <2>1, <2>2, RemoveInstanceSays DEF SameValue
<1>8. Calm /\ Still
  BY <1>1, <1>3, <1>6, <1>7 DEF Calm, Still, Apart
<1>9. tainted' \in BOOLEAN /\ (tainted => tainted') /\ Current.phase # "queued"
  BY <1>1, <1>2, <1>3 DEF Recorded
<1> QED BY <1>2, <1>3, <1>4, <1>5, <1>8, <1>9, FaithfulRebuildGoes

\* The components are added: the wire, and what follows it.
LEMMA FaithfulRebuildEnds ==
  ASSUME Faithful, Sound', ~SnapDue, RebuildEdges \/ RebuildWire
  PROVE  Faithful'
<1>1. Types /\ Types' /\ Apart /\ Recorded
  BY DEF Faithful, Sound, Regular
<1>2. /\ queue # <<>> /\ IsRebuild(Current) /\ Current.phase \in {"add", "wire"} /\ Current \in Jobs
      /\ ~Restores(Current)
  BY <1>1, QueueFacts DEF RebuildEdges, RebuildWire, Rebuilding, Restores
<1>3. UNCHANGED <<doc, map, inst, born, lastInput, snaps, snapWait>>
  BY DEF RebuildEdges, RebuildWire, docVars, coreVars, snapVars
<1>4. Calm /\ Still
  BY <1>1, <1>2, <1>3, CalmSame DEF Emptying, Rebuilding
<1>5. tainted' \in BOOLEAN /\ (tainted => tainted')
  BY <1>1 DEF Recorded, RebuildEdges, RebuildWire, ghosts
<1>6. PICK j : /\ Proceed(j) /\ j.k = Current.k /\ j.c = Current.c /\ j.v = Current.v
               /\ j.phase \in {"wire", "resume"} /\ (j.undisturbed => Current.undisturbed)
  <2>1. CASE RebuildEdges
    <3>1. CASE Proceed([Current EXCEPT !.phase = "wire", !.ids = SetToSeq(Pair)])
      <4>1. PICK r, j : j = [Current EXCEPT !.phase = "wire", !.ids = r] /\ Proceed(j)
        BY <3>1
      <4>2. /\ j.k = Current.k /\ j.c = Current.c /\ j.v = Current.v /\ j.phase = "wire"
            /\ j.undisturbed = Current.undisturbed
        BY <1>2, <4>1 DEF Jobs
      <4> QED BY <4>1, <4>2
    <3>2. CASE Proceed([Current EXCEPT !.phase = "resume"])
      <4>1. PICK j : j = [Current EXCEPT !.phase = "resume"] /\ Proceed(j)
        BY <3>2
      <4>2. /\ j.k = Current.k /\ j.c = Current.c /\ j.v = Current.v /\ j.phase = "resume"
            /\ j.undisturbed = Current.undisturbed
        BY <1>2, <4>1 DEF Jobs
      <4> QED BY <4>1, <4>2
    <3> QED BY <2>1, <3>1, <3>2 DEF RebuildEdges
  <2>2. CASE RebuildWire
    <3>1. PICK a, j : /\ j = [Current EXCEPT !.phase = "resume",
                                             !.undisturbed = @ /\ a # "refused"]
                      /\ Proceed(j)
      BY <2>2 DEF RebuildWire
    <3>2. /\ j.k = Current.k /\ j.c = Current.c /\ j.v = Current.v /\ j.phase = "resume"
          /\ j.undisturbed => Current.undisturbed
      BY <1>2, <3>1 DEF Jobs
    <3> QED BY <3>1, <3>2
  <2> QED BY <2>1, <2>2
<1>7. Current.phase # "queued"
  BY <1>2
<1> QED BY <1>2, <1>3, <1>4, <1>5, <1>6, <1>7, FaithfulRebuildGoes

\* The end of a rebuild, and of a history that is tainted when nothing crossed it.
LEMMA FaithfulRebuildResume ==
  ASSUME Faithful, Sound', ~SnapDue, RebuildResume
  PROVE  Faithful'
<1>1. Types /\ Apart /\ Recorded
  BY DEF Faithful, Sound, Regular
<1>2. queue # <<>> /\ IsRebuild(Current) /\ Current.phase = "resume"
  BY DEF RebuildResume, Rebuilding
<1>3. /\ UNCHANGED <<doc, map, inst, born, lastInput, rebuildScheduled>> /\ queue' = Tail(queue)
      /\ snaps' = (IF Current.awaited THEN Tail(snaps) ELSE snaps)
      /\ snapWait' = (IF Current.awaited THEN "none" ELSE snapWait)
      /\ tainted' = (tainted /\ ~(Current.undisturbed /\ Len(queue) = 1 /\ snaps' = <<>>))
  BY DEF RebuildResume, Finish, docVars
<1>4. Calm /\ Still
  BY <1>1, <1>2, <1>3, CalmSame DEF Emptying, Rebuilding
<1>5. Spent(Current) /\ ~Waits(Current)
  BY <1>2 DEF Spent, Waits
<1>6. Len(queue) = 1 => queue' = <<>>
  <2>1. queue \in Seq(Jobs)
    BY <1>1 DEF Types
  <2>2. queue' \in Seq(Jobs) /\ Len(queue') = Len(queue) - 1
    BY <1>2, <1>3, <2>1, TailIs
  <2> QED BY <2>2, EmptySeq
<1>7. tainted => tainted' \/ (Repairing /\ queue' = <<>> /\ snaps' = <<>>)
  BY <1>2, <1>3, <1>6 DEF Repairing
<1>8. tainted' \in BOOLEAN
  BY <1>1, <1>3 DEF Recorded
<1> QED BY <1>2, <1>3, <1>4, <1>5, <1>7, <1>8, FaithfulFinish

\* A rebuild that is given up.
LEMMA FaithfulRebuildAbort ==
  ASSUME Faithful, Sound', ~SnapDue, RebuildAbort
  PROVE  Faithful'
<1>1. Types /\ OneAtATime /\ Awaits /\ Apart /\ Scheduled /\ Recorded
  BY DEF Faithful, Sound, Regular
<1>2. /\ queue # <<>> /\ Current.phase \in {"stopping", "halt"} /\ queue \in Seq(Jobs)
      /\ 1 \in DOMAIN queue /\ Current = queue[1] /\ Current \in Jobs
  BY <1>1, QueueFacts DEF RebuildAbort, Rebuilding, Types
<1>3. /\ UNCHANGED <<doc, map, inst, born, lastInput, rebuildScheduled>> /\ queue' = Tail(queue)
      /\ snaps' = (IF Current.awaited THEN Tail(snaps) ELSE snaps)
      /\ snapWait' = (IF Current.awaited THEN "none" ELSE snapWait)
      /\ tainted' = TRUE
  BY DEF RebuildAbort, Finish, docVars
<1>4. Calm
  BY <1>1, <1>2, <1>3, CalmSame DEF Emptying, Rebuilding
<1>5. /\ queue' \in Seq(Jobs) /\ Len(queue') = Len(queue) - 1 /\ Len(queue) \in Nat
      /\ DOMAIN queue' = 1..(Len(queue) - 1)
      /\ \A i \in 1..(Len(queue) - 1) : queue'[i] = queue[i + 1]
  BY <1>2, <1>3, TailIs
<1>6. (\A i \in DOMAIN queue' : ~(i > Len(queue) - 1)) /\ Len(queue') >= Len(queue) - 1
  BY <1>5
<1>7. /\ Echoed(1) /\ Aimed' /\ ~Filling' /\ ~Repairing'
      /\ (\E i \in DOMAIN queue : Waits(queue[i])) /\ ~Waits(Current) =>
               \E i \in DOMAIN queue' : Waits(queue'[i])
  BY <1>1, <1>2, <1>5, <1>6, EchoPop
<1>8. ~Waits(Current) /\ Neutral(1)
  BY <1>2, <1>6 DEF Waits, Neutral
<1>9. Scheduled'
  BY <1>1, <1>3, <1>7, <1>8 DEF Scheduled
<1>10. Onward
  <2>1. Current.awaited => snaps # <<>>
    BY <1>1, <1>2 DEF Awaits
  <2>2. Current.awaited \in BOOLEAN
    BY <1>2 DEF Jobs
  <2> QED BY <1>1, <1>3, <1>7, <2>1, <2>2 DEF Onward, Recorded
<1> QED BY <1>3, <1>4, <1>7, <1>8, <1>9, <1>10, KeptByValue

\* What a rebuild has to add: each component of the document once, with its value.
Listed(ids) ==
    /\ \A n \in DOMAIN ids : ids[n][1] \in doc.comps
    /\ \A c \in doc.comps : ids # <<>> /\ \E n \in DOMAIN ids :
          ids[n] = <<c, doc.val[c]>> /\ ids[n][1] = c
    /\ \A m, n \in DOMAIN ids : ids[m][1] = ids[n][1] => m = n

\* A rebuild reads the document.
LEMMA CapturedIs ==
  ASSUME Types, Current \in Jobs, NEW j, j = CaptureComponents(Current)
  PROVE  /\ j.phase = "add" /\ j.k = Current.k /\ j.c = Current.c /\ j.v = Current.v
         /\ j.id = Current.id /\ Listed(j.ids)
<1> DEFINE todo == SetToSeq(doc.comps)
           ids == [i \in DOMAIN todo |-> <<todo[i], doc.val[todo[i]]>>]
<1>1. IsFiniteSet(doc.comps)
  <2>1. doc.comps \subseteq Components
    BY DEF Types, Docs
  <2> QED BY <2>1, ComponentsAssumption, FS_Subset
<1>2. /\ todo \in Seq(doc.comps) /\ DOMAIN todo = 1..Len(todo)
      /\ \A i \in DOMAIN todo : todo[i] \in doc.comps
      /\ \A i, k \in DOMAIN todo : todo[i] = todo[k] => i = k
      /\ ToSet(todo) = doc.comps
  BY <1>1, SetToSeqIs, LenProperties, ElementOfSeq
<1>3. \A c \in doc.comps : \E i \in DOMAIN todo : todo[i] = c
  BY <1>2 DEF ToSet
<1>4. j = [Current EXCEPT !.phase = "add", !.ids = ids]
  BY DEF CaptureComponents
<1> HIDE DEF todo
<1>5. /\ DOMAIN ids = DOMAIN todo
      /\ \A i \in DOMAIN todo : ids[i] = <<todo[i], doc.val[todo[i]]>> /\ ids[i][1] = todo[i]
  OBVIOUS
<1> HIDE DEF ids
<1>6. /\ j.phase = "add" /\ j.k = Current.k /\ j.c = Current.c /\ j.v = Current.v
      /\ j.id = Current.id /\ j.ids = ids
  BY <1>4 DEF Jobs
<1>7. ASSUME NEW c \in doc.comps
      PROVE  ids # <<>> /\ \E n \in DOMAIN ids : ids[n] = <<c, doc.val[c]>> /\ ids[n][1] = c
  <2>1. PICK n \in DOMAIN todo : todo[n] = c
    BY <1>3
  <2>2. n \in DOMAIN ids /\ ids[n] = <<c, doc.val[c]>> /\ ids[n][1] = c
    BY <1>5, <2>1
  <2>3. ids # <<>>
    BY <2>2
  <2> QED BY <2>2, <2>3
<1>8. \A n \in DOMAIN ids : ids[n][1] \in doc.comps
  BY <1>2, <1>5
<1>9. \A m, n \in DOMAIN ids : ids[m][1] = ids[n][1] => m = n
  BY <1>2, <1>5
<1>10. Listed(ids)
  BY <1>7, <1>8, <1>9 DEF Listed
<1> QED BY <1>6, <1>10

\* It forgets the map: every component of the document is to be added.
LEMMA FaithfulRebuildClear ==
  ASSUME Faithful, Sound', ~SnapDue, RebuildClear
  PROVE  Faithful'
<1>1. Types /\ Types' /\ OneAtATime /\ Apart /\ Removals /\ Sequenced /\ Scheduled /\ Recorded
  BY DEF Faithful, Sound, Regular
<1>2. /\ queue # <<>> /\ IsRebuild(Current) /\ Current.phase = "remove" /\ Current \in Jobs
      /\ Current = queue[1] /\ 1 \in DOMAIN queue /\ queue \in Seq(Jobs)
      /\ Len(queue) \in Nat /\ DOMAIN queue = 1..Len(queue)
  BY <1>1, QueueFacts DEF RebuildClear, Rebuilding, Types
<1>3. /\ UNCHANGED <<doc, inst, born, lastInput, snaps, snapWait, tainted, rebuildScheduled>>
      /\ map' = [c \in Components |-> 0]
  BY DEF RebuildClear, Proceed, docVars, coreVars, snapVars, ghosts
<1>4. PICK j : j = CaptureComponents(Current) /\ queue' = [queue EXCEPT ![1] = j]
  BY DEF RebuildClear, Proceed
<1>5. /\ j.phase = "add" /\ j.k = Current.k /\ j.c = Current.c /\ j.v = Current.v
      /\ j.id = Current.id
      /\ \A n \in DOMAIN j.ids : j.ids[n][1] \in doc.comps
      /\ \A c \in doc.comps : j.ids # <<>> /\ \E n \in DOMAIN j.ids :
            j.ids[n] = <<c, doc.val[c]>> /\ j.ids[n][1] = c
      /\ \A m, n \in DOMAIN j.ids : j.ids[m][1] = j.ids[n][1] => m = n
  <2>1. /\ j.phase = "add" /\ j.k = Current.k /\ j.c = Current.c /\ j.v = Current.v
        /\ j.id = Current.id /\ Listed(j.ids)
    BY <1>1, <1>2, <1>4, CapturedIs
  <2> QED BY <2>1 DEF Listed
<1>6. j \in Jobs /\ queue' # <<>> /\ Current' = j /\ Len(queue') = Len(queue)
  BY <1>1, <1>2, <1>4, HeadIs
<1>7. /\ queue' \in Seq(Jobs) /\ DOMAIN queue' = DOMAIN queue
      /\ queue'[1] = j /\ \A i \in DOMAIN queue : i # 1 => queue'[i] = queue[i]
  BY <1>1, <1>2, <1>4 DEF Types
<1>8. IsRebuild(j) /\ ~Renews(j) /\ (j.ids # <<>> => Restores(j)) /\ Renews(Current)
  BY <1>2, <1>5 DEF IsRebuild, Renews, Restores
<1>9. ASSUME NEW c \in doc.comps, NEW x, x = doc.val[c]
      PROVE  /\ Supplies(j, c) /\ Gives(j, c, x) /\ ~Spoils(j, c, x)
             /\ Supplies(Current, c) /\ Gives(Current, c, x) /\ ~Spoils(Current, c, x)
  <2>1. Supplies(j, c)
    BY <1>5, <1>8 DEF Supplies
  <2>2. Gives(j, c, x)
    BY <1>5, <1>8, <1>9 DEF Gives
  <2> QED BY <1>8, <2>1, <2>2 DEF Supplies, Gives, Spoils
<1>10. Apart'
  BY <1>3 DEF Apart
<1>11. Removals'
  <2> SUFFICES ASSUME NEW i \in DOMAIN queue', queue'[i].k = "remove"
               PROVE  queue'[i].id \in DOMAIN inst' /\ \A c \in Components : map'[c] # queue'[i].id
    BY DEF Removals
  <2>1. i \in DOMAIN queue /\ queue'[i] = queue[i]
    BY <1>7, <1>8 DEF IsRebuild
  <2>2. queue[i].id \in DOMAIN inst
    BY <1>1, <2>1 DEF Removals
  <2>3. queue[i].id # 0
    BY <1>1, <2>2, InstFacts
  <2> QED BY <1>3, <2>1, <2>2, <2>3
<1>12. Aimed'
  BY <1>6, <1>8 DEF Aimed, Setting, IsRebuild
<1>13. \A i \in DOMAIN queue : queue'[i].k = queue[i].k /\ queue'[i].c = queue[i].c
  BY <1>2, <1>5, <1>7
<1>14. Sequenced'
  BY <1>1, <1>3, <1>7, <1>13 DEF Sequenced
<1>15. Scheduled'
  <2>1. ~Waits(Current)
    BY <1>2 DEF Waits
  <2>2. rebuildScheduled' => \E i \in DOMAIN queue' : Waits(queue'[i])
    BY <1>1, <1>2, <1>3, <1>7, <2>1 DEF Scheduled
  <2> QED BY <1>5, <1>6, <2>2 DEF Scheduled
<1>16. Regular'
  BY <1>1, <1>3, <1>10, <1>11, <1>12, <1>14, <1>15 DEF Regular, Recorded
<1>17. ASSUME NEW c \in doc.comps, Holds(c) PROVE Holds(c)'
  <2>1. PICK x : x = doc.val[c] /\ doc'.val[c] = x
    BY <1>3
  <2>2. EchoFor(j, Current, c, x)
    BY <1>9, <2>1 DEF EchoFor
  <2>3. \A i \in 1..(Len(queue) - 0) : EchoFor(queue'[i], queue[i + 0], c, x)
    <3> SUFFICES ASSUME NEW i \in 1..(Len(queue) - 0)
                 PROVE  EchoFor(queue'[i], queue[i + 0], c, x)
      OBVIOUS
    <3>1. i \in DOMAIN queue /\ i + 0 = i
      BY <1>2
    <3> QED BY <1>2, <1>7, <2>2, <3>1 DEF EchoFor
  <2>4. \E i \in DOMAIN queue : i > 0 /\ Supplies(queue[i], c)
    BY <1>2, <1>9, <2>1
  <2>5. \E i \in DOMAIN queue : i > 0 /\ Gives(queue[i], c, x)
    BY <1>2, <1>9, <2>1
  <2>6. Len(queue) >= 0 /\ Len(queue') >= Len(queue) - 0
        /\ \A i \in DOMAIN queue' : ~(i > Len(queue) - 0)
    BY <1>2, <1>6, <1>7
  <2>7. lastInput'[c] = "commit" => lastInput[c] = "commit"
    BY <1>3
  <2> QED BY <1>1, <1>7, <1>17, <2>1, <2>3, <2>4, <2>5, <2>6, <2>7, KeptHoldsFor
<1>18. ASSUME ~tainted' PROVE Clean'
  <2>1. Clean /\ Mirrored /\ ~SnapDue'
    BY <1>3, <1>18 DEF Faithful, Clean, SnapDue
  <2>2. Mirrored'
    BY <1>3, <1>17, <2>1 DEF Mirrored
  <2>3. ASSUME NEW i \in DOMAIN queue', queue'[i].k = "add" PROVE Coming(i)'
    <3>1. i \in DOMAIN queue /\ queue'[i] = queue[i] /\ i # 1
      BY <1>7, <1>8, <2>3 DEF IsRebuild
    <3>2. Coming(i)
      BY <2>1, <2>3, <3>1 DEF Clean
    <3>3. PICK c : c = queue[i].c
      OBVIOUS
    <3>4. CASE /\ c \notin doc.comps /\ doc.val[c] = 0 /\ queue[i].v = 0
               /\ \A n \in DOMAIN queue : n # i /\ Touches(queue[n], c) => Renews(queue[n])
      <4>1. ~Touches(j, c)
        BY <1>5, <1>8, <3>4 DEF Touches, IsRebuild
      <4>2. \A n \in DOMAIN queue' : n # i /\ Touches(queue'[n], c) => Renews(queue'[n])
        BY <1>7, <3>4, <4>1
      <4> QED BY <1>3, <3>1, <3>3, <3>4, <4>2 DEF Coming
    <3>5. CASE c \in doc.comps /\ \E n \in DOMAIN queue : n > i /\ IsRebuild(queue[n])
      <4>1. \A n \in DOMAIN queue : IsRebuild(queue[n]) => IsRebuild(queue'[n])
        BY <1>13 DEF IsRebuild
      <4> QED BY <1>3, <1>7, <3>1, <3>3, <3>5, <4>1 DEF Coming
    <3> QED BY <3>2, <3>3, <3>4, <3>5 DEF Coming
  <2> QED BY <2>1, <2>2, <2>3 DEF Clean
<1>19. Repairs'
  <2> SUFFICES ASSUME Len(queue') = 1, NEW c \in doc.comps PROVE Holds(c)'
    BY <1>3 DEF Repairs, Repairing
  <2>1. DOMAIN queue' = {1}
    BY <1>2, <1>6, <1>7
  <2>2. PICK x : x = doc.val[c] /\ doc'.val[c] = x
    BY <1>3
  <2>3. Supplies(queue'[1], c) /\ Gives(queue'[1], c, x)
    BY <1>7, <1>9, <2>2
  <2>4. \A n \in DOMAIN queue' : ~(n > 1)
    BY <2>1
  <2>5. Valued(c)'
    BY <2>1, <2>2, <2>3, <2>4 DEF Valued
  <2> QED BY <2>1, <2>3, <2>5 DEF Holds, Present
<1> QED BY <1>16, <1>18, <1>19 DEF Faithful

\* A rebuild adds its next component, e with the value v: a job that did the same to every
\* other component, and does nothing to e any more.
Adds(j, e, v) ==
    /\ e \in Components /\ v \in Values
    /\ j \in Jobs /\ queue' = [queue EXCEPT ![1] = j] /\ queue' # <<>> /\ Current' = j
    /\ j.k = Current.k /\ j.c = Current.c /\ j.v = Current.v /\ j.phase = "add"
    /\ j.undisturbed => Current.undisturbed
    /\ Touches(Current, e) /\ ~Touches(j, e) /\ \A x : Gives(Current, e, x) => x = v
    /\ \A c, x : c # e => EchoFor(j, Current, c, x)
    /\ \A c : Touches(j, c) => Touches(Current, c)
    /\ \A m, n \in DOMAIN j.ids : j.ids[m][1] = j.ids[n][1] => m = n

\* That is what the next element of its list is.
LEMMA NextAdds ==
  ASSUME Types, Types', Scheduled, Filling, Current.ids # <<>>, NEW b \in BOOLEAN,
         Proceed([Current EXCEPT !.ids = Tail(@), !.undisturbed = @ /\ b])
  PROVE  \E j, e, v : /\ Adds(j, e, v) /\ e = Head(Current.ids)[1] /\ v = Head(Current.ids)[2]
                      /\ j.undisturbed => b
<1>1. queue # <<>> /\ Current \in Jobs /\ IsRebuild(Current) /\ Current.phase = "add"
  BY QueueFacts DEF Filling, Rebuilding
<1>2. PICK old : old = Current.ids
  OBVIOUS
<1>3. old \in Seq(Components \X Values) /\ old # <<>>
  BY <1>2 DEF Types
<1>4. PICK ids : ids = Tail(old)
  OBVIOUS
<1>5. /\ Len(old) \in Nat /\ Len(old) >= 1 /\ DOMAIN ids = 1..(Len(old) - 1)
      /\ DOMAIN old = 1..Len(old) /\ \A i \in 1..(Len(old) - 1) : ids[i] = old[i + 1]
  BY <1>3, <1>4, TailIs
<1>6. PICK e, v : e = Head(Current.ids)[1] /\ v = Head(Current.ids)[2]
  OBVIOUS
<1>7. old[1] \in Components \X Values /\ old[1] = Head(Current.ids)
  BY <1>2, <1>3, <1>5, ElementOfSeq
<1>8. e \in Components /\ v \in Values /\ old[1][1] = e /\ old[1] = <<e, v>>
  BY <1>6, <1>7
<1>9. PICK j : j = [Current EXCEPT !.ids = ids, !.undisturbed = Current.undisturbed /\ b]
               /\ queue' = [queue EXCEPT ![1] = j]
  BY <1>1, <1>2, <1>4 DEF Proceed, Jobs
<1>10. /\ j.k = Current.k /\ j.c = Current.c /\ j.v = Current.v /\ j.phase = "add"
       /\ j.ids = ids /\ j.undisturbed = (Current.undisturbed /\ b)
  BY <1>1, <1>9 DEF Jobs
<1>11. j \in Jobs /\ queue' # <<>> /\ Current' = j
  BY <1>1, <1>9, HeadIs
<1>12. \A m, n \in DOMAIN old : old[m][1] = old[n][1] => m = n
  BY <1>2 DEF Scheduled
<1>13. \A n \in DOMAIN ids : n + 1 \in DOMAIN old /\ n + 1 # 1 /\ ids[n] = old[n + 1] /\ n \in Int
  BY <1>5
<1>14. \A n \in DOMAIN old : n = 1 \/ (n - 1 \in DOMAIN ids /\ ids[n - 1] = old[n])
  <2> SUFFICES ASSUME NEW n \in DOMAIN old, n # 1
               PROVE  n - 1 \in DOMAIN ids /\ ids[n - 1] = old[n]
    OBVIOUS
  <2>1. n - 1 \in 1..(Len(old) - 1) /\ (n - 1) + 1 = n
    BY <1>5
  <2>2. ids[n - 1] = old[(n - 1) + 1]
    BY <1>5, <2>1
  <2> QED BY <1>5, <2>1, <2>2
<1>15. 1 \in DOMAIN old
  BY <1>5
<1>16. /\ IsRebuild(j) /\ ~Renews(j) /\ ~Renews(Current) /\ Restores(Current)
       /\ Restores(j) <=> ids # <<>>
       /\ j.k \notin {"property", "preview", "insert", "add"}
       /\ Current.k \notin {"property", "preview", "insert", "add"}
  BY <1>1, <1>2, <1>3, <1>10 DEF IsRebuild, Renews, Restores
<1>17. \A n \in DOMAIN ids : ids # <<>>
  OBVIOUS
<1>18. ASSUME NEW c
       PROVE  /\ Supplies(j, c) <=> \E n \in DOMAIN ids : ids[n][1] = c
              /\ Touches(j, c) <=> \E n \in DOMAIN ids : ids[n][1] = c
              /\ Supplies(Current, c) <=> \E n \in DOMAIN old : old[n][1] = c
              /\ Touches(Current, c) <=> \E n \in DOMAIN old : old[n][1] = c
  BY <1>2, <1>10, <1>16, <1>17 DEF Supplies, Touches
<1>19. ASSUME NEW c, NEW x
       PROVE  /\ Gives(j, c, x) <=> \E n \in DOMAIN ids : ids[n] = <<c, x>>
              /\ Gives(Current, c, x) <=> \E n \in DOMAIN old : old[n] = <<c, x>>
  BY <1>2, <1>10, <1>16, <1>17 DEF Gives
<1>20. Touches(Current, e) /\ ~Touches(j, e)
  BY <1>8, <1>12, <1>13, <1>15, <1>18
<1>21. ASSUME NEW x, Gives(Current, e, x) PROVE x = v
  <2>1. PICK n \in DOMAIN old : old[n] = <<e, x>>
    BY <1>19, <1>21
  <2>2. n = 1
    BY <1>8, <1>12, <1>15, <2>1
  <2> QED BY <1>8, <2>1, <2>2
<1>22. ASSUME NEW c, NEW x, c # e PROVE EchoFor(j, Current, c, x)
  <2>1. (\E n \in DOMAIN ids : ids[n][1] = c) <=> (\E n \in DOMAIN old : old[n][1] = c)
    BY <1>8, <1>13, <1>14, <1>22
  <2>2. (\E n \in DOMAIN ids : ids[n] = <<c, x>>) <=> (\E n \in DOMAIN old : old[n] = <<c, x>>)
    <3>1. old[1] # <<c, x>>
      BY <1>8, <1>22
    <3> QED BY <1>13, <1>14, <3>1
  <2> QED BY <1>18, <1>19, <2>1, <2>2 DEF EchoFor, Spoils
<1>23. \A c : Touches(j, c) => Touches(Current, c)
  BY <1>13, <1>18
<1>24. \A m, n \in DOMAIN ids : ids[m][1] = ids[n][1] => m = n
  <2>1. \A m, n \in DOMAIN ids : ids[m][1] = ids[n][1] => m + 1 = n + 1
    BY <1>12, <1>13
  <2> QED BY <1>13, <2>1
<1>25. Adds(j, e, v)
  <2>1. j.undisturbed => Current.undisturbed
    BY <1>10
  <2>2. \A m, n \in DOMAIN j.ids : j.ids[m][1] = j.ids[n][1] => m = n
    BY <1>10, <1>24
  <2>3. e \in Components /\ v \in Values /\ queue' = [queue EXCEPT ![1] = j]
    BY <1>8, <1>9
  <2>4. j.k = Current.k /\ j.c = Current.c /\ j.v = Current.v /\ j.phase = "add"
    BY <1>10
  <2> QED BY <1>11, <1>20, <1>21, <1>22, <1>23, <2>1, <2>2, <2>3, <2>4, Zenon DEF Adds
<1> QED BY <1>6, <1>10, <1>25

\* The queue after a rebuild added a component.
LEMMA AddsSays ==
  ASSUME Types, Types', queue # <<>>, NEW j, NEW e, NEW v, Adds(j, e, v)
  PROVE  /\ queue' \in Seq(Jobs) /\ DOMAIN queue' = DOMAIN queue /\ Len(queue') = Len(queue)
         /\ Len(queue) \in Nat /\ DOMAIN queue = 1..Len(queue)
         /\ 1 \in DOMAIN queue /\ queue[1] = Current /\ queue'[1] = j
         /\ \A i \in DOMAIN queue : i # 1 => queue'[i] = queue[i]
         /\ \A i \in DOMAIN queue : queue'[i].k = queue[i].k /\ queue'[i].c = queue[i].c
<1>1. /\ queue \in Seq(Jobs) /\ Len(queue) \in Nat /\ Len(queue) >= 1 /\ Current = queue[1]
      /\ DOMAIN queue = 1..Len(queue)
  BY QueueFacts DEF Types
<1>2. queue' = [queue EXCEPT ![1] = j] /\ j.k = Current.k /\ j.c = Current.c
  BY DEF Adds
<1>3. DOMAIN queue' = DOMAIN queue /\ queue'[1] = j /\ queue' \in Seq(Jobs)
      /\ \A i \in DOMAIN queue : i # 1 => queue'[i] = queue[i]
  BY <1>1, <1>2 DEF Types
<1>4. Len(queue') = Len(queue)
  BY <1>1, <1>2, HeadIs
<1> QED BY <1>1, <1>2, <1>3, <1>4

\* What the invariant says of the rest of the queue.
LEMMA AddsRegular ==
  ASSUME Faithful, Sound', Filling, NEW j, NEW e, NEW v, Adds(j, e, v), Apart',
         UNCHANGED <<doc, born, lastInput, snaps, snapWait, rebuildScheduled>>,
         tainted' \in BOOLEAN, DOMAIN inst \subseteq DOMAIN inst',
         \A c \in Components : map'[c] \in {0, map[c], Len(inst) + 1}
  PROVE  Regular'
<1>1. Types /\ Types' /\ Removals /\ Sequenced /\ Scheduled /\ Recorded
  BY DEF Faithful, Sound, Regular
<1>2. queue # <<>> /\ IsRebuild(Current) /\ Current.phase = "add"
  BY DEF Filling, Rebuilding
<1>3. /\ DOMAIN queue' = DOMAIN queue /\ 1 \in DOMAIN queue /\ queue[1] = Current /\ queue'[1] = j
      /\ \A i \in DOMAIN queue : i # 1 => queue'[i] = queue[i]
      /\ \A i \in DOMAIN queue : queue'[i].k = queue[i].k /\ queue'[i].c = queue[i].c
  BY <1>1, <1>2, AddsSays
<1>4. Current' = j /\ IsRebuild(j)
      /\ \A m, n \in DOMAIN j.ids : j.ids[m][1] = j.ids[n][1] => m = n
  BY <1>2 DEF Adds, IsRebuild
<1>5. Removals'
  <2> SUFFICES ASSUME NEW i \in DOMAIN queue', queue'[i].k = "remove"
               PROVE  queue'[i].id \in DOMAIN inst' /\ \A c \in Components : map'[c] # queue'[i].id
    BY DEF Removals
  <2>1. i \in DOMAIN queue /\ queue'[i] = queue[i]
    BY <1>3, <1>4 DEF IsRebuild
  <2>2. queue[i].id \in DOMAIN inst /\ \A c \in Components : map[c] # queue[i].id
    BY <1>1, <2>1 DEF Removals
  <2>3. queue[i].id # 0 /\ queue[i].id # Len(inst) + 1
    BY <1>1, <2>2, InstFacts
  <2> QED BY <2>1, <2>2, <2>3
<1>6. Aimed'
  BY <1>4 DEF Aimed, Setting, IsRebuild
<1>7. Sequenced'
  BY <1>1, <1>3 DEF Sequenced
<1>8. Scheduled'
  <2>1. ~Waits(Current)
    BY <1>2 DEF Waits
  <2>2. rebuildScheduled' => \E i \in DOMAIN queue' : Waits(queue'[i])
    BY <1>1, <1>3, <2>1 DEF Scheduled
  <2> QED BY <1>4, <2>2 DEF Scheduled
<1> QED BY <1>1, <1>5, <1>6, <1>7, <1>8 DEF Regular, Recorded

\* Component e, and no other, gets a new instance, with the value v.
Gained(e, v) ==
    /\ \A c \in Components : c # e => map'[c] = map[c]
    /\ \A c \in Components : c # e /\ map[c] # 0 => inst'[map'[c]] = inst[map[c]]
    /\ map'[e] # 0 /\ v \in {inst'[map'[e]].val, inst'[map'[e]].denied}

\* What is added has the value of the document when the history is not tainted.
LEMMA AddsHolds ==
  ASSUME Types, Types', queue # <<>>, NEW j, NEW e, NEW v, Adds(j, e, v),
         UNCHANGED <<doc, lastInput>>, Gained(e, v), NEW c \in Components, Holds(c)
  PROVE  Holds(c)'
<1>1. /\ queue' \in Seq(Jobs) /\ DOMAIN queue' = DOMAIN queue /\ Len(queue') = Len(queue)
      /\ Len(queue) \in Nat /\ DOMAIN queue = 1..Len(queue)
      /\ 1 \in DOMAIN queue /\ queue[1] = Current /\ queue'[1] = j
      /\ \A i \in DOMAIN queue : i # 1 => queue'[i] = queue[i]
  BY AddsSays
<1>2. PICK x : x = doc.val[c] /\ doc'.val[c] = x
  OBVIOUS
<1>3. CASE c # e
  <2>1. EchoFor(j, Current, c, x)
    BY <1>3 DEF Adds
  <2>2. \A i \in 1..(Len(queue) - 0) : EchoFor(queue'[i], queue[i + 0], c, x)
    <3> SUFFICES ASSUME NEW i \in 1..(Len(queue) - 0)
                 PROVE  EchoFor(queue'[i], queue[i + 0], c, x)
      OBVIOUS
    <3>1. i \in DOMAIN queue /\ i + 0 = i
      BY <1>1
    <3> QED BY <1>1, <2>1, <3>1 DEF EchoFor
  <2>3. map[c] # 0 => map'[c] # 0
    BY <1>3 DEF Gained
  <2>4. Based(c, x) => Based(c, x)'
    BY <1>3 DEF Based, Gained
  <2>5. Len(queue) >= 0 /\ Len(queue') >= Len(queue) - 0
        /\ \A i \in DOMAIN queue' : ~(i > Len(queue) - 0)
    BY <1>1
  <2>6. lastInput'[c] = "commit" => lastInput[c] = "commit"
    OBVIOUS
  <2> QED BY <1>1, <1>2, <2>2, <2>3, <2>4, <2>5, <2>6, KeptHoldsFor
<1>4. CASE c = e
  <2>1. Present(c)'
    BY <1>4 DEF Present, Gained
  <2>2. ASSUME lastInput'[c] = "commit" PROVE Valued(c)'
    <3>1. Valued(c)
      BY <2>2 DEF Holds
    <3>2. Touches(Current, c) /\ ~Touches(j, c) /\ \A y : Gives(Current, c, y) => y = v
      BY <1>4 DEF Adds
    <3>3. ASSUME Gives(Current, c, x), \A n \in DOMAIN queue : n > 1 => ~Spoils(queue[n], c, x)
          PROVE  Valued(c)'
      <4>1. Based(c, x)'
        BY <1>4, <3>2, <3>3 DEF Based, Gained
      <4>2. \A n \in DOMAIN queue' : n = 1 \/ n > 1
        BY <1>1
      <4>3. \A n \in DOMAIN queue' : ~Spoils(queue'[n], c, x)
        <5>1. ~Spoils(j, c, x)
          BY <3>2 DEF Spoils
        <5>2. \A n \in DOMAIN queue' : n > 1 => queue'[n] = queue[n]
          BY <1>1
        <5> QED BY <1>1, <3>3, <4>2, <5>1, <5>2
      <4> QED BY <1>2, <4>1, <4>3 DEF Valued
    <3>4. CASE Based(c, x) /\ \A n \in DOMAIN queue : ~Spoils(queue[n], c, x)
      <4>1. Gives(Current, c, x)
        BY <1>1, <3>2, <3>4 DEF Spoils
      <4> QED BY <3>3, <3>4, <4>1
    <3>5. ASSUME NEW i \in DOMAIN queue, Gives(queue[i], c, x),
                 \A n \in DOMAIN queue : n > i => ~Spoils(queue[n], c, x)
          PROVE  Valued(c)'
      <4>1. CASE i = 1
        BY <1>1, <3>3, <3>5, <4>1
      <4>2. CASE i # 1
        <5>1. queue'[i] = queue[i] /\ i \in DOMAIN queue'
          BY <1>1, <4>2
        <5>2. \A n \in DOMAIN queue' : n > i => n # 1
          BY <1>1
        <5>3. \A n \in DOMAIN queue' : n > i => ~Spoils(queue'[n], c, x)
          BY <1>1, <3>5, <5>2
        <5>4. Gives(queue'[i], c, x)
          BY <3>5, <5>1
        <5> QED BY <1>2, <5>1, <5>3, <5>4 DEF Valued
      <4> QED BY <4>1, <4>2
    <3> QED BY <1>2, <3>1, <3>4, <3>5 DEF Valued
  <2> QED BY <2>1, <2>2 DEF Holds
<1> QED BY <1>3, <1>4

\* It adds the components one by one.
LEMMA FaithfulRebuildAdd ==
  ASSUME Faithful, Sound', ~SnapDue, RebuildAdd
  PROVE  Faithful'
<1>1. Types /\ Types' /\ Apart /\ Scheduled /\ Recorded
  BY DEF Faithful, Sound, Regular
<1>2. /\ queue # <<>> /\ IsRebuild(Current) /\ Current.phase = "add" /\ Current \in Jobs
      /\ Filling /\ ~Emptying /\ Current.ids # <<>>
  BY <1>1, QueueFacts DEF RebuildAdd, Rebuilding, Filling, Emptying
<1>3. UNCHANGED <<doc, born, lastInput, snaps, snapWait, rebuildScheduled>>
  BY DEF RebuildAdd, docVars, snapVars, Proceed
<1>4. PICK a \in Answers(~on) :
           /\ IF a = "refused" THEN UNCHANGED inst
              ELSE AddInstance(Head(Current.ids)[1], Head(Current.ids)[2])
           /\ map' = IF a = "ok" THEN [map EXCEPT ![Head(Current.ids)[1]] = Len(inst) + 1] ELSE map
           /\ tainted' = (tainted \/ a # "ok")
           /\ Proceed([Current EXCEPT !.ids = Tail(@), !.undisturbed = @ /\ a = "ok"])
  BY DEF RebuildAdd
<1>5. PICK b \in BOOLEAN : b = (a = "ok")
  OBVIOUS
<1>6. PICK j, e, v : /\ Adds(j, e, v) /\ e = Head(Current.ids)[1] /\ v = Head(Current.ids)[2]
                     /\ j.undisturbed => b
  BY <1>1, <1>2, <1>4, <1>5, NextAdds
<1>7. e \in Components /\ v \in Values /\ Current' = j /\ (j.undisturbed => Current.undisturbed)
  BY <1>6 DEF Adds
<1>8. tainted' \in BOOLEAN /\ (~tainted' => ~tainted /\ a = "ok")
  BY <1>1, <1>4 DEF Recorded
<1>9. CASE a # "ok"
  <2>1. UNCHANGED map /\ (UNCHANGED inst \/ AddInstance(e, v))
    BY <1>4, <1>6, <1>9
  <2>2. DOMAIN inst \subseteq DOMAIN inst' /\ \A i \in DOMAIN inst : inst'[i] = inst[i]
    BY <1>1, <1>7, <2>1, AddInstanceSays
  <2>3. Apart'
    BY <1>1, <1>2, <2>1, <2>2 DEF Apart
  <2>4. Regular'
    BY <1>2, <1>3, <1>6, <1>8, <2>1, <2>2, <2>3, AddsRegular
  <2>5. ~Repairing' /\ tainted'
    BY <1>5, <1>6, <1>7, <1>8, <1>9 DEF Repairing
  <2> QED BY <2>4, <2>5 DEF Faithful, Repairs
<1>10. CASE a = "ok"
  <2>1. AddInstance(e, v) /\ map' = [map EXCEPT ![e] = Len(inst) + 1]
    BY <1>4, <1>6, <1>10
  <2>2. /\ Apart' /\ \A c \in Components : map'[c] = IF c = e THEN Len(inst) + 1 ELSE map[c]
        /\ \A c \in Components : map'[c] \in {0, map[c], Len(inst) + 1}
        /\ \A c \in Components : c # e /\ map[c] # 0 => inst'[map'[c]] = inst[map[c]]
        /\ map'[e] # 0 /\ v \in {inst'[map'[e]].val, inst'[map'[e]].denied}
    BY <1>1, <1>2, <1>7, <2>1, ApartAdd
  <2>3. DOMAIN inst \subseteq DOMAIN inst'
    BY <1>1, <1>7, <2>1, AddInstanceSays
  <2>4. Regular'
    BY <1>2, <1>3, <1>6, <1>8, <2>2, <2>3, AddsRegular
  <2>5. ASSUME NEW c \in doc.comps, Holds(c) PROVE Holds(c)'
    <3>1. c \in Components
      BY <1>1 DEF Types, Docs
    <3>2. Types /\ Types' /\ queue # <<>> /\ Adds(j, e, v) /\ UNCHANGED <<doc, lastInput>> /\ Holds(c)
      BY <1>1, <1>2, <1>3, <1>6, <2>5
    <3>3. Gained(e, v)
      BY <2>2 DEF Gained
    <3> QED BY <3>1, <3>2, <3>3, AddsHolds
  <2>6. /\ DOMAIN queue' = DOMAIN queue /\ queue[1] = Current /\ queue'[1] = j
        /\ \A i \in DOMAIN queue : i # 1 => queue'[i] = queue[i]
        /\ \A i \in DOMAIN queue : queue'[i].k = queue[i].k /\ queue'[i].c = queue[i].c
        /\ Len(queue') = Len(queue)
    BY <1>1, <1>2, <1>6, AddsSays
  <2>7. Repairs'
    <3> SUFFICES ASSUME Repairing' PROVE \A c \in doc.comps : Holds(c)'
      BY <1>3 DEF Repairs
    <3>1. Repairing
      BY <1>2, <1>7, <2>6 DEF Repairing
    <3> QED BY <2>5, <3>1 DEF Faithful, Repairs
  <2>8. ASSUME ~tainted' PROVE Clean'
    <3>1. Clean /\ Mirrored /\ ~SnapDue'
      BY <1>3, <1>8, <2>8 DEF Faithful, Clean, SnapDue
    <3>2. Mirrored'
      BY <1>3, <2>5, <3>1 DEF Mirrored
    <3>3. ASSUME NEW i \in DOMAIN queue', queue'[i].k = "add" PROVE Coming(i)'
      <4>1. i \in DOMAIN queue /\ queue'[i] = queue[i] /\ i # 1 /\ 1 \in DOMAIN queue
        BY <1>1, <1>2, <2>6, <3>3, QueueFacts DEF IsRebuild
      <4>2. Coming(i)
        BY <3>1, <3>3, <4>1 DEF Clean
      <4>3. PICK c : c = queue[i].c
        OBVIOUS
      <4>4. CASE /\ c \notin doc.comps /\ doc.val[c] = 0 /\ queue[i].v = 0
                 /\ \A n \in DOMAIN queue : n # i /\ Touches(queue[n], c) => Renews(queue[n])
        <5>1. ~Renews(Current)
          BY <1>2 DEF Renews
        <5>2. ~Touches(j, c)
          BY <1>6, <2>6, <4>1, <4>4, <5>1 DEF Adds
        <5>3. \A n \in DOMAIN queue' : n # i /\ Touches(queue'[n], c) => Renews(queue'[n])
          BY <2>6, <4>4, <5>2
        <5> QED BY <1>3, <4>1, <4>3, <4>4, <5>3 DEF Coming
      <4>5. CASE c \in doc.comps /\ \E n \in DOMAIN queue : n > i /\ IsRebuild(queue[n])
        <5>1. \A n \in DOMAIN queue : IsRebuild(queue[n]) => IsRebuild(queue'[n])
          BY <2>6 DEF IsRebuild
        <5> QED BY <1>3, <2>6, <4>1, <4>3, <4>5, <5>1 DEF Coming
      <4> QED BY <4>2, <4>3, <4>4, <4>5 DEF Coming
    <3> QED BY <3>1, <3>2, <3>3 DEF Clean
  <2> QED BY <2>4, <2>7, <2>8 DEF Faithful
<1> QED BY <1>9, <1>10

-----------------------------------------------------------------------------
(* The edits *)

\* What every edit does: a job may follow, an entry of the map may go, and ids are born.
Edited(n) ==
    /\ Followed(n) /\ UNCHANGED <<inst, rebuildScheduled>> /\ born \subseteq born'
    /\ \A c \in Components : map'[c] \in {0, map[c]}
    /\ n = 1 =>
          LET j == queue'[Len(queue) + 1]
          IN /\ j.phase = "queued"
             /\ j.k \in {"property", "preview"} => j.c \in born
             /\ j.k = "insert" => j.c \notin born
             /\ j.k = "remove" => j.id \in DOMAIN inst /\ \A c \in Components : map'[c] # j.id

\* An edit keeps the order of the queue.
LEMMA EditRegular ==
  ASSUME Faithful, NEW n \in {0, 1}, Edited(n), Recorded'
  PROVE  Regular'
<1>1. Types /\ Apart /\ Removals /\ Aimed /\ Sequenced /\ Scheduled
  BY DEF Faithful, Sound, Regular
<1>2. /\ Followed(n) /\ UNCHANGED <<inst, rebuildScheduled>> /\ born \subseteq born'
      /\ \A c \in Components : map'[c] \in {0, map[c]}
      /\ n = 1 => queue'[Len(queue) + 1].phase = "queued"
  BY DEF Edited
<1>3. Aimed' /\ Scheduled'
  BY <1>1, <1>2, KeptHead
<1>4. /\ Echoed(0)
      /\ \A i \in DOMAIN queue' : i > Len(queue) - 0 => n = 1 /\ i = Len(queue) + 1
      /\ \A i \in DOMAIN queue :
               i \in DOMAIN queue' /\ queue'[i].phase = queue[i].phase /\ Echo(queue'[i], queue[i])
  BY <1>1, <1>2, EchoFollowed
<1>5. Apart'
  <2>1. Emptying' <=> Emptying
    BY <1>2 DEF Followed
  <2>2. \A c, e \in Components : map'[c] = map'[e] /\ map'[c] # 0 => c = e
    BY <1>1, <1>2 DEF Apart
  <2>3. \A c \in Components : map'[c] # 0 => map'[c] = map[c]
    BY <1>2
  <2> QED BY <1>1, <1>2, <2>1, <2>2, <2>3 DEF Apart
<1>6. Removals'
  <2> SUFFICES ASSUME NEW i \in DOMAIN queue', queue'[i].k = "remove"
               PROVE  queue'[i].id \in DOMAIN inst' /\ \A c \in Components : map'[c] # queue'[i].id
    BY DEF Removals
  <2>1. CASE i > Len(queue) - 0
    BY <1>2, <1>4, <2>1 DEF Edited
  <2>2. CASE i \in DOMAIN queue
    <3>1. queue[i].k = "remove" /\ queue'[i].id = queue[i].id
      BY <1>4, <2>2 DEF Echo
    <3>2. queue[i].id \in DOMAIN inst /\ \A c \in Components : map[c] # queue[i].id
      BY <1>1, <2>2, <3>1 DEF Removals
    <3>3. queue[i].id # 0
      BY <1>1, <3>2, InstFacts
    <3> QED BY <1>2, <3>1, <3>2, <3>3
  <2>3. i > Len(queue) - 0 \/ i \in DOMAIN queue
    BY <1>2 DEF Followed
  <2> QED BY <2>1, <2>2, <2>3
<1>7. Sequenced'
  <2>1. \A i \in DOMAIN queue' : i > Len(queue) - 0 =>
             /\ queue'[i].k \in {"property", "preview"} => queue'[i].c \in born
             /\ queue'[i].k = "insert" => queue'[i].c \notin born
    BY <1>4 DEF Edited
  <2> QED BY <1>1, <1>2, <1>4, <2>1, KeptSequenced
<1> QED BY <1>3, <1>5, <1>6, <1>7 DEF Regular

\* A component the edit is not about holds what it held.
LEMMA EditHolds ==
  ASSUME Types, NEW n \in {0, 1}, Edited(n), NEW c, NEW x, x = doc.val[c], doc'.val[c] = x,
         map'[c] = map[c], lastInput'[c] = "commit" => lastInput[c] = "commit",
         n = 1 => ~Spoils(queue'[Len(queue) + 1], c, x), Holds(c)
  PROVE  Holds(c)'
<1>1. /\ Echoed(0)
      /\ \A i \in DOMAIN queue' : i > Len(queue) - 0 => n = 1 /\ i = Len(queue) + 1
  BY EchoFollowed DEF Edited
<1>2. \A i \in DOMAIN queue' : i > Len(queue) - 0 => ~Spoils(queue'[i], c, x)
  BY <1>1
<1>3. Based(c, x) => Based(c, x)'
  BY DEF Based, Edited
<1> QED BY <1>1, <1>2, <1>3, KeptHolds

\* A component that has or gets an instance still does.
LEMMA EditPresent ==
  ASSUME Types, NEW n \in {0, 1}, Edited(n), NEW c, map'[c] = map[c], Present(c)
  PROVE  Present(c)'
<1>1. \A i \in DOMAIN queue : i \in DOMAIN queue' /\ Echo(queue'[i], queue[i])
  BY EchoFollowed DEF Edited
<1>2. \A i \in DOMAIN queue : Supplies(queue[i], c) => Supplies(queue'[i], c)
  BY <1>1, EchoSays
<1> QED BY <1>1, <1>2 DEF Present

\* A component whose add is queued is still coming.
LEMMA EditComing ==
  ASSUME Types, NEW n \in {0, 1}, Edited(n), ~SnapDue, NEW i \in DOMAIN queue,
         queue[i].k = "add", Coming(i), NEW c, c = queue[i].c,
         c \in doc'.comps <=> c \in doc.comps,
         c \notin doc.comps =>
             doc'.val[c] = doc.val[c] /\ (n = 1 => ~Touches(queue'[Len(queue) + 1], c))
  PROVE  Coming(i)'
<1>1. /\ Echoed(0)
      /\ \A j \in DOMAIN queue' : j > Len(queue) - 0 => n = 1 /\ j = Len(queue) + 1
  BY EchoFollowed DEF Edited
<1>2. c \notin doc.comps => \A j \in DOMAIN queue' :
             j > Len(queue) - 0 /\ Touches(queue'[j], c) => Renews(queue'[j])
  BY <1>1
<1>3. i > 0 /\ i - 0 = i
  BY QueueFacts
<1>4. Coming(i - 0)'
  BY <1>1, <1>2, <1>3, KeptComing
<1> QED BY <1>3, <1>4

\* An edit that queues no snapshot keeps the invariant if every component holds its value.
LEMMA EditFaithful ==
  ASSUME Faithful, Sound', ~SnapDue, NEW n \in {0, 1}, Edited(n), Recorded',
         UNCHANGED <<snaps, snapWait>>, tainted => tainted',
         ~tainted' => /\ \A c \in doc'.comps : Holds(c)'
                      /\ \A i \in DOMAIN queue' : queue'[i].k = "add" => Coming(i)',
         Repairing' => \A c \in doc'.comps : Holds(c)'
  PROVE  Faithful'
<1>1. Regular'
  BY EditRegular
<1>2. ASSUME ~tainted' PROVE Clean'
  <2>1. Mirrored /\ ~SnapDue'
    BY <1>2 DEF Faithful, Clean, SnapDue
  <2> QED BY <1>2, <2>1 DEF Clean, Mirrored
<1> QED BY <1>1, <1>2 DEF Faithful, Repairs

\* After an edit that queues a job no rebuild is alone in the queue with nothing crossed.
LEMMA EditNotRepairing ==
  ASSUME Types, Edited(1)
  PROVE  ~Repairing'
<1>1. Followed(1) /\ queue'[Len(queue) + 1].phase = "queued"
  BY DEF Edited
<1>2. PICK n \in {0, 1} : n = 1
  OBVIOUS
<1> QED BY <1>1, <1>2, FollowedHead DEF Repairing

\* A job about a component that is not born yet cannot be in the queue.
LEMMA NotBorn ==
  ASSUME Types, OneAtATime, Births, Sequenced, NEW c \in Components, c \notin born,
         NEW i \in DOMAIN queue, Touches(queue[i], c)
  PROVE  Renews(queue[i])
<1>1. \A m \in DOMAIN queue : queue[m].k \in {"property", "preview", "insert", "add"} =>
         queue[m].c \in born
  BY DEF Sequenced, Births, Structural
<1>2. ASSUME Restores(queue[i]) PROVE \A m \in DOMAIN queue[i].ids : queue[i].ids[m][1] \in born
  <2>1. i = 1
    BY <1>2 DEF OneAtATime, Restores
  <2>2. queue # <<>> /\ Current = queue[i]
    BY <2>1, QueueFacts
  <2>3. Filling
    BY <1>2, <2>2 DEF Filling, Rebuilding, Restores
  <2> QED BY <2>2, <2>3 DEF Births
<1> QED BY <1>1, <1>2 DEF Touches

\* A new component.
LEMMA FaithfulAddComponent ==
  ASSUME Faithful, Sound', NEW c \in Components, requestAddComponent(c)
  PROVE  Faithful'
<1>1. Types /\ OneAtATime /\ Births /\ Sequenced /\ Recorded
  BY DEF Faithful, Sound, Regular
<1> DEFINE j == [Job("add") EXCEPT !.c = c]
<1>2. j \in Jobs /\ j.phase = "queued" /\ j.k = "add" /\ j.c = c /\ j.v = 0
  BY ValuesAssumption, EmptySeq DEF Job, Jobs, Kinds, Phases
<1>3. /\ UNCHANGED <<doc, lastInput, map, inst, snaps, snapWait, tainted, rebuildScheduled>>
      /\ c \notin born /\ born' = born \cup {c} /\ ~SnapDue /\ Enqueued(j, FALSE)
  BY DEF requestAddComponent, coreVars, snapVars, ghosts, Edit, Settled, Enqueued
<1> HIDE DEF j
<1>4. Followed(1) /\ queue'[Len(queue) + 1] = j
  BY <1>1, <1>2, <1>3, EnqueuedFollows
<1>5. Edited(1)
  BY <1>2, <1>3, <1>4 DEF Edited
<1>6. PICK n \in {0, 1} : n = 1 /\ Edited(n)
  BY <1>5
<1>7. Recorded'
  BY <1>1, <1>3 DEF Recorded
<1>8. ~Repairing'
  BY <1>1, <1>5, EditNotRepairing
<1>9. ASSUME ~tainted' PROVE \A e \in doc'.comps : Holds(e)'
  <2> SUFFICES ASSUME NEW e \in doc.comps PROVE Holds(e)'
    BY <1>3
  <2>1. Holds(e) /\ e # c
    BY <1>1, <1>3, <1>9 DEF Faithful, Clean, Mirrored, Births
  <2>2. PICK x : x = doc.val[e] /\ doc'.val[e] = x
    BY <1>3
  <2>3. ~Spoils(queue'[Len(queue) + 1], e, x)
    BY <1>2, <1>4, <2>1 DEF Spoils, Touches, Renews, Restores, IsRebuild
  <2> QED BY <1>1, <1>3, <1>6, <2>1, <2>2, <2>3, EditHolds
<1>10. ASSUME ~tainted', NEW i \in DOMAIN queue', queue'[i].k = "add" PROVE Coming(i)'
  <2>1. /\ Len(queue) \in Nat /\ DOMAIN queue = 1..Len(queue) /\ DOMAIN queue' = 1..(Len(queue) + 1)
        /\ \A m \in DOMAIN queue : queue'[m].k = queue[m].k
    BY <1>4 DEF Followed
  <2>2. i \in DOMAIN queue \/ i = Len(queue) + 1
    BY <2>1
  <2>3. CASE i \in DOMAIN queue
    <3>1. Coming(i) /\ queue[i].k = "add"
      BY <1>3, <1>10, <2>1, <2>3 DEF Faithful, Clean
    <3>2. PICK e : e = queue[i].c
      OBVIOUS
    <3>3. e # c
      BY <1>1, <1>3, <2>3, <3>1, <3>2 DEF Births, Structural
    <3>4. ~Touches(queue'[Len(queue) + 1], e)
      BY <1>2, <1>4, <3>3 DEF Touches, Renews, Restores, IsRebuild
    <3>5. (e \in doc'.comps <=> e \in doc.comps) /\ doc'.val[e] = doc.val[e]
      BY <1>3
    <3> QED BY <1>1, <1>3, <1>6, <2>3, <3>1, <3>2, <3>4, <3>5, EditComing
  <2>4. CASE i = Len(queue) + 1
    <3>1. c \notin doc'.comps /\ doc'.val[c] = 0
      BY <1>1, <1>3 DEF Births, Recorded
    <3>2. ASSUME NEW m \in DOMAIN queue', m # i, Touches(queue'[m], c) PROVE Renews(queue'[m])
      <4>1. m \in DOMAIN queue
        BY <2>1, <2>4, <3>2
      <4>2. Echo(queue'[m], queue[m])
        BY <1>1, <1>4, <1>6, <4>1, EchoFollowed
      <4>3. Touches(queue[m], c)
        BY <3>2, <4>2, EchoSays
      <4>4. Renews(queue[m])
        BY <1>1, <1>3, <4>1, <4>3, NotBorn
      <4> QED BY <4>2, <4>4 DEF Echo
    <3> QED BY <1>2, <1>4, <2>4, <3>1, <3>2 DEF Coming
  <2> QED BY <2>2, <2>3, <2>4
<1> QED BY <1>3, <1>6, <1>7, <1>8, <1>9, <1>10, EditFaithful

\* A component that is pasted: its value is the default, and so is that of the instance.
LEMMA FaithfulInsertItems ==
  ASSUME Faithful, Sound', NEW c \in Components, NEW w \in BOOLEAN, requestInsertItems(c, w)
  PROVE  Faithful'
<1>1. Types /\ OneAtATime /\ Births /\ Sequenced /\ Recorded
  BY DEF Faithful, Sound, Regular
<1> DEFINE j == [Job("insert") EXCEPT !.c = c, !.connect = w]
<1>2. j \in Jobs /\ j.phase = "queued" /\ j.k = "insert" /\ j.c = c /\ j.v = 0
  BY ValuesAssumption, EmptySeq DEF Job, Jobs, Kinds, Phases
<1>3. /\ UNCHANGED <<lastInput, map, inst, snaps, snapWait, rebuildScheduled>>
      /\ c \notin born /\ born' = born \cup {c} /\ ~SnapDue /\ Enqueued(j, TRUE)
      /\ tainted' = (tainted \/ Crosses)
  BY DEF requestInsertItems, coreVars, snapVars, Crossing, Edit, Settled, Enqueued
<1> HIDE DEF j
<1>4. doc'.comps = doc.comps \cup {c} /\ doc'.val = doc.val
  BY <1>1 DEF requestInsertItems, Types, Docs
<1>5. Followed(1) /\ queue'[Len(queue) + 1] = j
  BY <1>1, <1>2, <1>3, EnqueuedFollows
<1>6. Edited(1)
  BY <1>2, <1>3, <1>5 DEF Edited
<1>7. PICK n \in {0, 1} : n = 1 /\ Edited(n)
  BY <1>6
<1>8. tainted' \in BOOLEAN /\ (tainted => tainted') /\ (~tainted' => ~tainted)
  BY <1>1, <1>3 DEF Recorded, Crosses, Syncing
<1>9. Recorded'
  BY <1>1, <1>3, <1>4, <1>8 DEF Recorded
<1>10. ~Repairing'
  BY <1>1, <1>6, EditNotRepairing
<1>11. /\ Len(queue) \in Nat /\ DOMAIN queue = 1..Len(queue) /\ DOMAIN queue' = 1..(Len(queue) + 1)
       /\ \A m \in DOMAIN queue : queue'[m].k = queue[m].k
  BY <1>5 DEF Followed
<1>12. ASSUME ~tainted' PROVE \A e \in doc'.comps : Holds(e)'
  <2>1. ASSUME NEW e \in doc.comps PROVE Holds(e)'
    <3>1. Holds(e) /\ e # c
      BY <1>1, <1>3, <1>8, <1>12 DEF Faithful, Clean, Mirrored, Births
    <3>2. PICK x : x = doc.val[e] /\ doc'.val[e] = x
      BY <1>4
    <3>3. ~Spoils(queue'[Len(queue) + 1], e, x)
      BY <1>2, <1>5, <3>1 DEF Spoils, Touches, Renews, Restores, IsRebuild
    <3> QED BY <1>1, <1>3, <1>7, <3>1, <3>2, <3>3, EditHolds
  <2>2. Holds(c)'
    <3>1. doc'.val[c] = 0
      BY <1>1, <1>3, <1>4 DEF Recorded
    <3>2. Len(queue) + 1 \in DOMAIN queue' /\ \A m \in DOMAIN queue' : ~(m > Len(queue) + 1)
      BY <1>11
    <3>3. Supplies(queue'[Len(queue) + 1], c) /\ Gives(queue'[Len(queue) + 1], c, 0)
      BY <1>2, <1>5 DEF Supplies, Gives
    <3>4. Valued(c)'
      BY <3>1, <3>2, <3>3 DEF Valued
    <3> QED BY <3>2, <3>3, <3>4 DEF Holds, Present
  <2> QED BY <1>4, <2>1, <2>2
<1>13. ASSUME ~tainted', NEW i \in DOMAIN queue', queue'[i].k = "add" PROVE Coming(i)'
  <2>1. i \in DOMAIN queue
    BY <1>2, <1>5, <1>11, <1>13
  <2>2. Coming(i) /\ queue[i].k = "add"
    BY <1>3, <1>8, <1>11, <1>13, <2>1 DEF Faithful, Clean
  <2>3. PICK e : e = queue[i].c
    OBVIOUS
  <2>4. e # c
    BY <1>1, <1>3, <2>1, <2>2, <2>3 DEF Births, Structural
  <2>5. ~Touches(queue'[Len(queue) + 1], e)
    BY <1>2, <1>5, <2>4 DEF Touches, Renews, Restores, IsRebuild
  <2>6. (e \in doc'.comps <=> e \in doc.comps) /\ doc'.val[e] = doc.val[e]
    BY <1>4, <2>4
  <2> QED BY <1>1, <1>3, <1>7, <2>1, <2>2, <2>3, <2>5, <2>6, EditComing
<1> QED BY <1>3, <1>7, <1>8, <1>9, <1>10, <1>12, <1>13, EditFaithful

\* A value the user committed: its job is the last that sets the property.
LEMMA FaithfulUpdateProperty ==
  ASSUME Faithful, Sound', NEW c \in Components, NEW v \in Values, requestUpdateProperty(c, v)
  PROVE  Faithful'
<1>1. Types /\ Births /\ Recorded
  BY DEF Faithful, Sound, Regular
<1> DEFINE j == [Job("property") EXCEPT !.c = c, !.v = v]
<1>2. j \in Jobs /\ j.phase = "queued" /\ j.k = "property" /\ j.c = c /\ j.v = v
  BY EmptySeq DEF Job, Jobs, Kinds, Phases
<1>3. /\ UNCHANGED <<born, map, inst, snaps, snapWait, rebuildScheduled>>
      /\ c \in doc.comps /\ c \in born /\ ~SnapDue /\ Enqueued(j, FALSE)
      /\ tainted' = (tainted \/ Syncing) /\ lastInput' = [lastInput EXCEPT ![c] = "commit"]
  BY <1>1 DEF requestUpdateProperty, coreVars, snapVars, Crossing, Edit, Settled, Enqueued, Births
<1> HIDE DEF j
<1>4. /\ doc'.comps = doc.comps /\ doc'.val[c] = v
      /\ \A e \in Components : e # c => doc'.val[e] = doc.val[e]
  BY <1>1 DEF requestUpdateProperty, Types, Docs
<1>5. Followed(1) /\ queue'[Len(queue) + 1] = j
  BY <1>1, <1>2, <1>3, EnqueuedFollows
<1>6. Edited(1)
  BY <1>2, <1>3, <1>5 DEF Edited
<1>7. PICK n \in {0, 1} : n = 1 /\ Edited(n)
  BY <1>6
<1>8. tainted' \in BOOLEAN /\ (tainted => tainted') /\ (~tainted' => ~tainted)
  BY <1>1, <1>3 DEF Recorded, Syncing
<1>9. Recorded'
  <2>1. lastInput' \in [Components -> {"commit", "preview"}]
    BY <1>1, <1>3 DEF Recorded
  <2> QED BY <1>1, <1>3, <1>4, <1>8, <2>1 DEF Recorded
<1>10. ~Repairing'
  BY <1>1, <1>6, EditNotRepairing
<1>11. /\ Len(queue) \in Nat /\ DOMAIN queue = 1..Len(queue) /\ DOMAIN queue' = 1..(Len(queue) + 1)
       /\ \A m \in DOMAIN queue : queue'[m].k = queue[m].k
  BY <1>5 DEF Followed
<1>12. ASSUME ~tainted', NEW e \in doc.comps PROVE Holds(e)'
  <2>1. Holds(e) /\ e \in Components
    BY <1>1, <1>3, <1>8, <1>12 DEF Faithful, Clean, Mirrored, Types, Docs
  <2>2. CASE e # c
    <3>1. PICK x : x = doc.val[e] /\ doc'.val[e] = x
      BY <1>4, <2>1, <2>2
    <3>2. ~Spoils(queue'[Len(queue) + 1], e, x)
      BY <1>2, <1>5, <2>2 DEF Spoils, Touches, Renews, Restores, IsRebuild
    <3>3. lastInput'[e] = lastInput[e]
      BY <1>1, <1>3, <2>1, <2>2 DEF Recorded
    <3> QED BY <1>1, <1>3, <1>7, <2>1, <3>1, <3>2, <3>3, EditHolds
  <2>3. CASE e = c
    <3>1. Present(e)'
      BY <1>1, <1>3, <1>7, <2>1, EditPresent DEF Holds
    <3>2. Len(queue) + 1 \in DOMAIN queue' /\ \A m \in DOMAIN queue' : ~(m > Len(queue) + 1)
      BY <1>11
    <3>3. Gives(queue'[Len(queue) + 1], e, v)
      BY <1>2, <1>5, <2>3 DEF Gives
    <3>4. Valued(e)'
      BY <1>4, <2>3, <3>2, <3>3 DEF Valued
    <3> QED BY <3>1, <3>4 DEF Holds
  <2> QED BY <2>2, <2>3
<1>13. ASSUME ~tainted', NEW i \in DOMAIN queue', queue'[i].k = "add" PROVE Coming(i)'
  <2>1. i \in DOMAIN queue
    BY <1>2, <1>5, <1>11, <1>13
  <2>2. Coming(i) /\ queue[i].k = "add"
    BY <1>3, <1>8, <1>11, <1>13, <2>1 DEF Faithful, Clean
  <2>3. PICK e : e = queue[i].c /\ e \in Components
    BY <1>1, <2>1, <2>2, QueueFacts DEF Jobs, Structural
  <2>4. e \notin doc.comps => ~Touches(queue'[Len(queue) + 1], e)
    BY <1>2, <1>3, <1>5 DEF Touches, Renews, Restores, IsRebuild
  <2>5. (e \in doc'.comps <=> e \in doc.comps) /\ (e \notin doc.comps => doc'.val[e] = doc.val[e])
    BY <1>3, <1>4, <2>3
  <2> QED BY <1>1, <1>3, <1>7, <2>1, <2>2, <2>3, <2>4, <2>5, EditComing
<1>14. \A e \in doc'.comps : e \in doc.comps
  BY <1>4
<1> QED BY <1>3, <1>7, <1>8, <1>9, <1>10, <1>12, <1>13, <1>14, EditFaithful

\* A preview: the property is not committed any more.
LEMMA FaithfulPreviewProperty ==
  ASSUME Faithful, Sound', NEW c \in Components, NEW v \in Values, requestPreviewProperty(c, v)
  PROVE  Faithful'
<1>1. Types /\ Births /\ Recorded
  BY DEF Faithful, Sound, Regular
<1> DEFINE j == [Job("preview") EXCEPT !.c = c]
<1>2. j \in Jobs /\ j.phase = "queued" /\ j.k = "preview" /\ j.c = c
  BY ValuesAssumption, EmptySeq DEF Job, Jobs, Kinds, Phases
<1>3. /\ UNCHANGED <<doc, born, map, inst, snaps, snapWait, tainted, rebuildScheduled>>
      /\ c \in doc.comps /\ c \in born /\ ~SnapDue
      /\ lastInput' = [lastInput EXCEPT ![c] = "preview"]
      /\ UNCHANGED queue \/ Enqueued(j, FALSE)
  BY <1>1 DEF requestPreviewProperty, coreVars, snapVars, ghosts, Edit, Settled, Enqueued, Births
<1> HIDE DEF j
<1>4. PICK n \in {0, 1} :
         /\ Edited(n) /\ (n = 1 => queue'[Len(queue) + 1] = j) /\ (n = 0 => UNCHANGED queue)
  <2>1. CASE UNCHANGED queue
    <3>1. Followed(0)
      <4>1. queue \in Seq(Jobs) /\ Len(queue) \in Nat /\ DOMAIN queue = 1..Len(queue)
        BY <1>1, QueueFacts DEF Types
      <4>2. 1..(Len(queue) + 0) = 1..Len(queue)
        BY <4>1
      <4> QED BY <2>1, <4>1, <4>2 DEF Followed, Emptying, Filling, Rebuilding, Current
    <3> QED BY <1>3, <2>1, <3>1 DEF Edited
  <2>2. CASE Enqueued(j, FALSE)
    <3>1. Followed(1) /\ queue'[Len(queue) + 1] = j
      BY <1>1, <1>2, <2>2, EnqueuedFollows
    <3> QED BY <1>2, <1>3, <3>1 DEF Edited
  <2> QED BY <1>3, <2>1, <2>2
<1>5. Recorded'
  <2>1. lastInput' \in [Components -> {"commit", "preview"}]
    BY <1>1, <1>3 DEF Recorded
  <2> QED BY <1>1, <1>3, <2>1 DEF Recorded
<1>6. Repairing' => Repairing
  <2>1. n = 1 => ~Repairing'
    BY <1>1, <1>4, EditNotRepairing
  <2>2. n = 0 => (Repairing' <=> Repairing)
    BY <1>4 DEF Repairing, Current
  <2> QED BY <2>1, <2>2
<1>7. ASSUME NEW e \in doc.comps, Holds(e) PROVE Holds(e)'
  <2>1. e \in Components
    BY <1>1 DEF Types, Docs
  <2>2. CASE e # c
    <3>1. PICK x : x = doc.val[e] /\ doc'.val[e] = x
      BY <1>3
    <3>2. n = 1 => ~Spoils(queue'[Len(queue) + 1], e, x)
      BY <1>2, <1>4, <2>2 DEF Spoils, Touches, Renews, Restores, IsRebuild
    <3>3. lastInput'[e] = lastInput[e]
      BY <1>1, <1>3, <2>1, <2>2 DEF Recorded
    <3> QED BY <1>1, <1>3, <1>4, <1>7, <3>1, <3>2, <3>3, EditHolds
  <2>3. CASE e = c
    <3>1. Present(e)'
      BY <1>1, <1>3, <1>4, <1>7, EditPresent DEF Holds
    <3>2. lastInput'[e] = "preview"
      BY <1>1, <1>3, <2>1, <2>3 DEF Recorded
    <3> QED BY <3>1, <3>2 DEF Holds
  <2> QED BY <2>2, <2>3
<1>8. ASSUME ~tainted', NEW i \in DOMAIN queue', queue'[i].k = "add" PROVE Coming(i)'
  <2>1. /\ Len(queue) \in Nat /\ DOMAIN queue = 1..Len(queue) /\ DOMAIN queue' = 1..(Len(queue) + n)
        /\ \A m \in DOMAIN queue : queue'[m].k = queue[m].k
    BY <1>4 DEF Edited, Followed
  <2>2. i \in DOMAIN queue
    BY <1>2, <1>4, <1>8, <2>1
  <2>3. Coming(i) /\ queue[i].k = "add"
    BY <1>3, <1>8, <2>1, <2>2 DEF Faithful, Clean
  <2>4. PICK e : e = queue[i].c
    OBVIOUS
  <2>5. e \notin doc.comps => (n = 1 => ~Touches(queue'[Len(queue) + 1], e))
    BY <1>2, <1>3, <1>4 DEF Touches, Renews, Restores, IsRebuild
  <2>6. (e \in doc'.comps <=> e \in doc.comps) /\ doc'.val[e] = doc.val[e]
    BY <1>3
  <2> QED BY <1>1, <1>3, <1>4, <2>2, <2>3, <2>4, <2>5, <2>6, EditComing
<1>9. ~tainted' => \A e \in doc'.comps : Holds(e)'
  BY <1>3, <1>7 DEF Faithful, Clean, Mirrored
<1>10. Repairing' => \A e \in doc'.comps : Holds(e)'
  BY <1>3, <1>6, <1>7 DEF Faithful, Repairs
<1> QED BY <1>3, <1>4, <1>5, <1>8, <1>9, <1>10, EditFaithful

\* What a step that disturbs every job leaves: no rebuild is undisturbed.
LEMMA Disturbed ==
  ASSUME Types, queue' = [i \in DOMAIN queue |-> [queue[i] EXCEPT !.undisturbed = FALSE]]
  PROVE  ~Repairing'
<1>1. Len(queue) \in Nat /\ DOMAIN queue = 1..Len(queue) /\ DOMAIN queue' = 1..Len(queue)
  BY QueueFacts
<1>2. Followed(0)
  BY DisturbedFollows
<1>3. \A i \in DOMAIN queue : queue[i] \in Jobs
  BY QueueFacts
<1>4. \A i \in DOMAIN queue : queue'[i].undisturbed = FALSE
  BY <1>3 DEF Jobs
<1>5. queue' \in Seq(Jobs)
  BY <1>2 DEF Followed
<1>6. queue' # <<>> => 1 \in DOMAIN queue' /\ Head(queue') = queue'[1]
  BY <1>5
<1> QED BY <1>1, <1>4, <1>6 DEF Repairing, Current

\* A component goes: an entry of the map with it, and its removal aims at nothing else.
LEMMA FaithfulRemoveComponent ==
  ASSUME Faithful, Sound', NEW c \in Components, requestRemoveComponent(c)
  PROVE  Faithful'
<1>1. Types /\ Births /\ Apart /\ Recorded
  BY DEF Faithful, Sound, Regular
<1> DEFINE j == [Job("remove") EXCEPT !.id = map[c]]
<1>2. j \in Jobs /\ j.phase = "queued" /\ j.k = "remove" /\ j.id = map[c]
  BY <1>1, ValuesAssumption, EmptySeq DEF Types, Job, Jobs, Kinds, Phases, Structural
<1>3. /\ UNCHANGED <<born, lastInput, inst, snaps, snapWait, rebuildScheduled>>
      /\ c \in doc.comps /\ ~SnapDue /\ tainted' = (tainted \/ Crosses)
      /\ map' = [map EXCEPT ![c] = 0]
      /\ map[c] # 0 => Enqueued(j, TRUE)
      /\ map[c] = 0 =>
            queue' = [i \in DOMAIN queue |-> [queue[i] EXCEPT !.undisturbed = FALSE]]
  BY DEF requestRemoveComponent, coreVars, snapVars, Crossing, Edit, Settled, Enqueued
<1> HIDE DEF j
<1>4. doc'.comps = doc.comps \ {c} /\ doc'.val = doc.val
  BY <1>1 DEF requestRemoveComponent, Types, Docs
<1>5. \A e \in Components : map'[e] = IF e = c THEN 0 ELSE map[e]
  BY <1>1, <1>3 DEF Types
<1>6. PICK n \in {0, 1} :
         /\ Edited(n) /\ ~Repairing' /\ (n = 1 => queue'[Len(queue) + 1] = j)
  <2>1. CASE map[c] # 0
    <3>1. Followed(1) /\ queue'[Len(queue) + 1] = j
      BY <1>1, <1>2, <1>3, <2>1, EnqueuedFollows
    <3>2. map[c] \in DOMAIN inst /\ \A e \in Components : map'[e] # map[c]
      BY <1>1, <1>5, <2>1 DEF Apart
    <3>3. Edited(1)
      BY <1>2, <1>3, <1>5, <3>1, <3>2 DEF Edited
    <3>4. ~Repairing'
      BY <1>1, <3>3, EditNotRepairing
    <3> QED BY <3>1, <3>3, <3>4
  <2>2. CASE map[c] = 0
    <3>1. Followed(0) /\ ~Repairing'
      BY <1>1, <1>3, <2>2, DisturbedFollows, Disturbed
    <3>2. Edited(0)
      BY <1>3, <1>5, <3>1 DEF Edited
    <3> QED BY <3>1, <3>2
  <2> QED BY <2>1, <2>2
<1>7. tainted' \in BOOLEAN /\ (tainted => tainted') /\ (~tainted' => ~tainted /\ ~Crosses)
  BY <1>1, <1>3 DEF Recorded, Crosses, Syncing
<1>8. Recorded'
  BY <1>1, <1>3, <1>4, <1>7 DEF Recorded
<1>9. /\ Len(queue) \in Nat /\ DOMAIN queue = 1..Len(queue) /\ DOMAIN queue' = 1..(Len(queue) + n)
      /\ \A m \in DOMAIN queue : queue'[m].k = queue[m].k
  BY <1>6 DEF Edited, Followed
<1>10. ASSUME ~tainted' PROVE \A e \in doc'.comps : Holds(e)'
  <2> SUFFICES ASSUME NEW e \in doc'.comps PROVE Holds(e)'
    OBVIOUS
  <2>1. Holds(e) /\ e # c /\ e \in Components
    BY <1>1, <1>3, <1>4, <1>7, <1>10 DEF Faithful, Clean, Mirrored, Types, Docs
  <2>2. PICK x : x = doc.val[e] /\ doc'.val[e] = x
    BY <1>4
  <2>3. n = 1 => ~Spoils(queue'[Len(queue) + 1], e, x)
    BY <1>2, <1>6 DEF Spoils, Touches, Renews, Restores, IsRebuild
  <2>4. map'[e] = map[e] /\ lastInput'[e] = lastInput[e]
    BY <1>3, <1>5, <2>1
  <2> QED BY <1>1, <1>6, <2>1, <2>2, <2>3, <2>4, EditHolds
<1>11. ASSUME ~tainted', NEW i \in DOMAIN queue', queue'[i].k = "add" PROVE Coming(i)'
  <2>1. i \in DOMAIN queue
    BY <1>2, <1>6, <1>9, <1>11
  <2>2. Coming(i) /\ queue[i].k = "add"
    BY <1>3, <1>7, <1>9, <1>11, <2>1 DEF Faithful, Clean
  <2>3. PICK e : e = queue[i].c
    OBVIOUS
  <2>4. e # c
    BY <1>3, <1>7, <1>11, <2>1, <2>2, <2>3 DEF Coming, Crosses
  <2>5. n = 1 => ~Touches(queue'[Len(queue) + 1], e)
    BY <1>2, <1>6 DEF Touches, Renews, Restores, IsRebuild
  <2>6. (e \in doc'.comps <=> e \in doc.comps) /\ doc'.val[e] = doc.val[e]
    BY <1>4, <2>4
  <2> QED BY <1>1, <1>3, <1>6, <2>1, <2>2, <2>3, <2>5, <2>6, EditComing
<1> QED BY <1>3, <1>6, <1>7, <1>8, <1>10, <1>11, EditFaithful

\* A wire drawn or removed, and the simulation run, paused or stopped.
LEMMA FaithfulWireOrControl ==
  ASSUME Faithful, Sound',
         requestConnectEndpoints \/ requestRemoveWire \/ runSimulation \/ pauseSimulation
         \/ stopSimulation
  PROVE  Faithful'
<1>1. Types /\ Recorded
  BY DEF Faithful, Sound, Regular
<1>2. CASE runSimulation \/ pauseSimulation
  <2>1. UNCHANGED <<queue, rebuildScheduled, doc, born, lastInput, map, inst, snaps, snapWait, tainted>>
    BY <1>2 DEF runSimulation, pauseSimulation, docVars, coreVars, snapVars, ghosts
  <2> QED BY <2>1, FaithfulIdle
<1>3. CASE requestConnectEndpoints \/ requestRemoveWire \/ stopSimulation
  <2>1. PICK j \in Jobs, b \in BOOLEAN :
           Enqueued(j, b) /\ j.phase = "queued" /\ j.k \in {"transaction", "stop"}
    <3>1. CASE requestConnectEndpoints
      <4> DEFINE j == [Job("transaction") EXCEPT !.connect = TRUE]
      <4>1. j \in Jobs /\ j.phase = "queued" /\ j.k = "transaction"
        BY ValuesAssumption, EmptySeq DEF Job, Jobs, Kinds, Phases, Structural
      <4>2. Enqueued(j, TRUE)
        BY <3>1 DEF requestConnectEndpoints
      <4> HIDE DEF j
      <4> QED BY <4>1, <4>2
    <3>2. CASE requestRemoveWire \/ stopSimulation
      <4>1. PICK k \in {"transaction", "stop"} : Enqueued(Job(k), FALSE)
        BY <3>2 DEF requestRemoveWire, stopSimulation
      <4>2. Job(k) \in Jobs /\ Job(k).phase = "queued" /\ Job(k).k = k
        BY ValuesAssumption, EmptySeq DEF Job, Jobs, Kinds, Phases, Structural
      <4> QED BY <4>1, <4>2
    <3> QED BY <1>3, <3>1, <3>2
  <2>2. UNCHANGED <<born, lastInput, map, inst, snaps, snapWait>> /\ ~SnapDue
    BY <1>3 DEF requestConnectEndpoints, requestRemoveWire, stopSimulation, docVars, coreVars,
       snapVars, Edit, Control, Settled
  <2>3. doc'.comps = doc.comps /\ doc'.val = doc.val
    BY <1>1, <1>3 DEF Types, Docs, requestConnectEndpoints, requestRemoveWire, stopSimulation, docVars
  <2>4. tainted' \in BOOLEAN /\ (tainted => tainted')
    BY <1>1, <1>3 DEF Recorded, requestConnectEndpoints, requestRemoveWire, stopSimulation, ghosts,
       Crossing, Crosses, Syncing
  <2> QED BY <2>1, <2>2, <2>3, <2>4, FaithfulEnqueue
<1> QED BY <1>2, <1>3

\* The snapshot of an undo or a redo: unless it crosses another edit, it is the only one due.
LEMMA FaithfulProjectChanged ==
  ASSUME Faithful, Sound', NEW next \in Snapshots, projectChanged(next)
  PROVE  Faithful'
<1>1. Types /\ Births /\ Awaits /\ Recorded
  BY DEF Faithful, Sound, Regular
<1>2. /\ UNCHANGED <<born, map, inst, snapWait, rebuildScheduled>> /\ ~SnapDue
      /\ queue' = [i \in DOMAIN queue |-> [queue[i] EXCEPT !.undisturbed = FALSE]]
      /\ doc' = next /\ snaps' = Append(snaps, [prev |-> doc, next |-> next])
      /\ lastInput' = [c \in Components |-> IF next.val[c] # doc.val[c] THEN "commit" ELSE lastInput[c]]
  BY DEF projectChanged, coreVars, Edit, Settled
<1>3. /\ tainted' \in BOOLEAN
      /\ ~tainted' => /\ ~tainted /\ ~Crosses
                      /\ ~(/\ next.comps = doc.comps /\ next.wired # doc.wired
                           /\ \E c \in doc.comps : next.val[c] # doc.val[c])
  <2>1. tainted \in BOOLEAN /\ Crosses \in BOOLEAN
    BY <1>1 DEF Recorded, Crosses, Syncing
  <2> QED BY <2>1 DEF projectChanged, Crossing
<1>4. /\ next \in Docs /\ next.comps \subseteq born
      /\ \A c \in Components \ next.comps : next.val[c] = doc.val[c]
  BY <1>1 DEF Snapshots, Docs, Types
<1>5. Followed(0) /\ ~Repairing'
  BY <1>1, <1>2, DisturbedFollows, Disturbed
<1>6. PICK n \in {0, 1} : n = 0 /\ Edited(n)
  BY <1>2, <1>5 DEF Edited
<1>7. /\ Len(snaps) \in Nat /\ DOMAIN snaps' = 1..(Len(snaps) + 1) /\ DOMAIN snaps = 1..Len(snaps)
      /\ Len(snaps') = Len(snaps) + 1 /\ snaps' # <<>> /\ Head(snaps') = snaps'[1]
      /\ \A i \in 1..Len(snaps) : snaps'[i] = snaps[i]
      /\ snaps'[Len(snaps) + 1] = [prev |-> doc, next |-> next]
  <2>1. [prev |-> doc, next |-> next] \in [prev : Docs, next : Docs]
    BY <1>1, <1>4 DEF Types
  <2>2. snaps \in Seq([prev : Docs, next : Docs])
    BY <1>1 DEF Types
  <2>3. snaps' \in Seq([prev : Docs, next : Docs]) /\ Len(snaps') = Len(snaps) + 1
    BY <1>2, <2>1, <2>2, AppendProperties
  <2>4. Len(snaps) \in Nat /\ DOMAIN snaps = 1..Len(snaps) /\ DOMAIN snaps' = 1..(Len(snaps) + 1)
    BY <2>2, <2>3, LenProperties
  <2>5. snaps' # <<>>
    BY <2>3, <2>4, EmptySeq
  <2>6. Head(snaps') = snaps'[1]
    BY <2>3, <2>5
  <2> QED BY <1>2, <2>1, <2>2, <2>3, <2>4, <2>5, <2>6, AppendProperties
<1>8. Recorded'
  <2>1. \A c \in Components \ born' : doc'.val[c] = 0
    BY <1>1, <1>2, <1>4 DEF Recorded
  <2>2. \A i \in DOMAIN snaps' : snaps'[i].next.comps \subseteq born'
    <3> SUFFICES ASSUME NEW i \in DOMAIN snaps' PROVE snaps'[i].next.comps \subseteq born
      BY <1>2
    <3>1. i \in 1..Len(snaps) \/ i = Len(snaps) + 1
      BY <1>7
    <3> QED BY <1>1, <1>4, <1>7, <3>1 DEF Recorded
  <2>3. lastInput' \in [Components -> {"commit", "preview"}]
    BY <1>1, <1>2 DEF Recorded
  <2> QED BY <1>1, <1>2, <1>3, <2>1, <2>2, <2>3 DEF Recorded
<1>9. Regular'
  BY <1>6, <1>8, EditRegular
<1>10. ASSUME ~tainted' PROVE Clean'
  <2>1. Clean /\ Mirrored /\ ~Crosses
    BY <1>2, <1>3, <1>10 DEF Faithful, Clean
  <2>2. snaps = <<>> /\ snapWait = "none"
    BY <1>1, <2>1 DEF Crosses, Syncing, Awaits
  <2>3. SnapDue' /\ Len(snaps') = 1 /\ Head(snaps') = [prev |-> doc, next |-> next]
    BY <1>2, <1>7, <2>2 DEF SnapDue
  <2>4. \A m \in DOMAIN queue :
           ~IsRebuild(queue[m]) /\ queue[m].k \notin {"insert", "wire"}
    BY <2>1 DEF Crosses, Syncing
  <2>5. DOMAIN queue' = DOMAIN queue /\ \A m \in DOMAIN queue : queue'[m].k = queue[m].k
    BY <1>5 DEF Followed
  <2>6. \A m \in DOMAIN queue' :
           ~IsRebuild(queue'[m]) /\ queue'[m].k \notin {"insert", "wire"}
    BY <2>4, <2>5 DEF IsRebuild
  <2>7. ASSUME next.comps = doc.comps, NEW c \in next.comps
        PROVE  Present(c)' /\ (doc.val[c] = next.val[c] => Holds(c)')
    <3>1. Holds(c) /\ c \in Components /\ map'[c] = map[c]
      BY <1>2, <1>4, <2>1, <2>7 DEF Mirrored, Docs
    <3>2. Present(c)'
      BY <1>1, <1>6, <3>1, EditPresent DEF Holds
    <3>3. ASSUME doc.val[c] = next.val[c] PROVE Holds(c)'
      <4>1. PICK x : x = doc.val[c] /\ doc'.val[c] = x
        BY <1>2, <3>3
      <4>2. lastInput'[c] = lastInput[c]
        BY <1>2, <3>1, <3>3
      <4> QED BY <1>1, <1>6, <3>1, <4>1, <4>2, EditHolds
    <3> QED BY <3>2, <3>3
  <2>8. next.comps = doc.comps /\ next.wired # doc.wired =>
           \A c \in doc.comps : next.val[c] = doc.val[c]
    BY <1>3, <1>10
  <2>9. Due'
    BY <1>2, <2>3, <2>6, <2>7, <2>8 DEF Due
  <2>10. ASSUME NEW i \in DOMAIN queue', queue'[i].k = "add" PROVE Coming(i)'
    <3>1. i \in DOMAIN queue /\ queue[i].k = "add" /\ queue'[i].c = queue[i].c
      BY <1>5, <2>5, <2>10 DEF Followed
    <3>2. Coming(i)
      BY <2>1, <3>1 DEF Clean
    <3>3. PICK c : c = queue[i].c /\ c \in Components
      BY <1>1, <3>1, QueueFacts DEF Jobs, Structural
    <3>4. c \notin doc.comps
      BY <1>2, <2>4, <3>2, <3>3 DEF Coming
    <3>5. CASE c \in next.comps
      BY <1>2, <2>3, <3>1, <3>3, <3>4, <3>5 DEF Coming
    <3>6. CASE c \notin next.comps
      <4>1. (c \in doc'.comps <=> c \in doc.comps) /\ doc'.val[c] = doc.val[c]
        BY <1>2, <1>4, <3>3, <3>4, <3>6
      <4> QED BY <1>1, <1>2, <1>6, <3>1, <3>2, <3>3, <4>1, EditComing
    <3> QED BY <3>5, <3>6
  <2> QED BY <2>3, <2>9, <2>10 DEF Clean
<1> QED BY <1>5, <1>9, <1>10 DEF Faithful, Repairs

-----------------------------------------------------------------------------
(* Snapshots *)

\* What the synchronisation of a snapshot does: the queue stays, up to who awaits a job, and
\* jobs may follow it.
Synced ==
    /\ UNCHANGED <<doc, born, lastInput, map, inst, tainted>>
    /\ queue' \in Seq(Jobs) /\ Len(queue') >= Len(queue)
    /\ \A i \in 1..Len(queue) :
          /\ queue'[i].k = queue[i].k /\ queue'[i].phase = queue[i].phase
          /\ queue'[i].c = queue[i].c /\ queue'[i].v = queue[i].v
          /\ queue'[i].id = queue[i].id /\ queue'[i].ids = queue[i].ids
    /\ \A i \in DOMAIN queue' : i > Len(queue) =>
          /\ queue'[i].phase = "queued" /\ queue'[i].k \in {"transaction", "property", "rebuild"}
          /\ queue'[i].k = "property" => queue'[i].c \in born
    /\ rebuildScheduled' => \E i \in DOMAIN queue' : Waits(queue'[i])

\* It keeps the order of the queue.
LEMMA SyncedRegular ==
  ASSUME Faithful, Synced, Recorded'
  PROVE  /\ Regular' /\ Echoed(0)
         /\ Len(queue) \in Nat /\ DOMAIN queue = 1..Len(queue) /\ DOMAIN queue' = 1..Len(queue')
         /\ Len(queue') \in Nat
         /\ Repairing' => Len(queue) = 1 /\ Len(queue') = 1
<1>1. Types /\ Apart /\ Removals /\ Aimed /\ Sequenced /\ Scheduled
  BY DEF Faithful, Sound, Regular
<1>2. /\ Len(queue) \in Nat /\ DOMAIN queue = 1..Len(queue) /\ DOMAIN queue' = 1..Len(queue')
      /\ Len(queue') \in Nat /\ Len(queue') >= Len(queue) /\ queue' \in Seq(Jobs)
  BY <1>1, QueueFacts, LenProperties DEF Synced
<1>3. Echoed(0)
  <2>1. \A i \in 1..(Len(queue) - 0) : Echo(queue'[i], queue[i + 0])
    <3> SUFFICES ASSUME NEW i \in 1..Len(queue) PROVE Echo(queue'[i], queue[i])
      BY <1>2
    <3> QED BY DEF Synced, Echo, Renews, Restores, IsRebuild
  <2> QED BY <1>2, <2>1 DEF Echoed
<1>4. ASSUME queue # <<>>
      PROVE  /\ queue' # <<>> /\ Current'.k = Current.k /\ Current'.phase = Current.phase
             /\ Current'.c = Current.c /\ Current'.id = Current.id /\ Current'.ids = Current.ids
  <2>1. Len(queue) >= 1 /\ Current = queue[1]
    BY <1>1, <1>4, QueueFacts
  <2>2. queue' # <<>> /\ Current' = queue'[1]
    BY <1>2, <2>1 DEF Current
  <2> QED BY <1>2, <2>1, <2>2 DEF Synced
<1>5. ASSUME queue = <<>>, queue' # <<>> PROVE Current'.phase = "queued"
  <2>1. Len(queue) = 0
    BY <1>1, <1>5, QueueFacts
  <2>2. 1 \in DOMAIN queue' /\ Current' = queue'[1]
    BY <1>2, <1>5 DEF Current
  <2> QED BY <2>1, <2>2 DEF Synced
<1>6. (Emptying' <=> Emptying) /\ (Filling' => Filling /\ Current'.ids = Current.ids)
  BY <1>4, <1>5 DEF Emptying, Filling, Rebuilding, IsRebuild
<1>7. UNCHANGED <<map, inst, born>>
  BY DEF Synced
<1>8. Apart'
  BY <1>1, <1>6, <1>7 DEF Apart
<1>9. Removals'
  <2>1. \A i \in DOMAIN queue' : i > Len(queue) - 0 => queue'[i].k # "remove"
    BY <1>2 DEF Synced
  <2> QED BY <1>1, <1>3, <1>7, <2>1, KeptRemovals
<1>10. Aimed'
  <2>1. Setting' => Setting /\ Current'.id = Current.id /\ Current'.c = Current.c
    BY <1>4, <1>5 DEF Setting
  <2> QED BY <1>1, <1>7, <2>1 DEF Aimed
<1>11. Sequenced'
  <2>1. \A i \in DOMAIN queue' : i > Len(queue) - 0 =>
             /\ queue'[i].k \in {"property", "preview"} => queue'[i].c \in born
             /\ queue'[i].k = "insert" => queue'[i].c \notin born
    BY <1>2 DEF Synced
  <2> QED BY <1>1, <1>3, <1>7, <2>1, KeptSequenced
<1>12. Scheduled'
  BY <1>1, <1>6 DEF Scheduled, Synced
<1>13. ASSUME Repairing' PROVE Len(queue) = 1 /\ Len(queue') = 1
  <2>1. queue # <<>>
    BY <1>5, <1>13 DEF Repairing
  <2>2. Len(queue) >= 1
    BY <1>1, <2>1, QueueFacts
  <2> QED BY <1>2, <1>13, <2>2 DEF Repairing
<1> QED BY <1>2, <1>3, <1>8, <1>9, <1>10, <1>11, <1>12, <1>13 DEF Regular

\* A component holds its value if no new job sets another.
LEMMA SyncedHolds ==
  ASSUME Types, Synced, Echoed(0), NEW c, NEW x, x = doc.val[c], Holds(c),
         \A i \in DOMAIN queue' : i > Len(queue) => ~Spoils(queue'[i], c, x)
  PROVE  Holds(c)'
<1>1. UNCHANGED <<doc, lastInput, map, inst>> /\ Len(queue) \in Nat
  BY QueueFacts DEF Synced
<1>2. Based(c, x) => Based(c, x)'
  BY <1>1 DEF Based
<1>3. PICK d \in {0, 1} : d = 0 /\ Echoed(d)
  OBVIOUS
<1>4. \A i \in DOMAIN queue' : i > Len(queue) - d => ~Spoils(queue'[i], c, x)
  BY <1>1, <1>3
<1> QED BY <1>1, <1>2, <1>3, <1>4, KeptHolds

\* A component the document does not show yet is still coming, if what is new leaves it alone.
LEMMA SyncedComing ==
  ASSUME Types, Synced, Echoed(0), NEW i \in DOMAIN queue, Coming(i), NEW c, c = queue[i].c,
         c \notin doc.comps,
         \A j \in DOMAIN queue' : j > Len(queue) /\ Touches(queue'[j], c) => Renews(queue'[j])
  PROVE  Coming(i)'
<1>1. UNCHANGED doc /\ Len(queue) \in Nat /\ DOMAIN queue = 1..Len(queue)
  BY QueueFacts DEF Synced
<1>2. /\ doc.val[c] = 0 /\ queue[i].v = 0
      /\ \A j \in DOMAIN queue : j # i /\ Touches(queue[j], c) => Renews(queue[j])
  BY DEF Coming
<1>3. queue'[i].c = c /\ queue'[i].v = queue[i].v
  BY <1>1 DEF Synced
<1>4. PICK d \in {0, 1} : d = 0 /\ Echoed(d)
  OBVIOUS
<1>5. \A j \in DOMAIN queue' :
         \/ j + d \in DOMAIN queue /\ j + d > d /\ Echo(queue'[j], queue[j + d])
         \/ j > Len(queue) - d
  BY <1>4, EchoOrigin
<1>6. ASSUME NEW j \in DOMAIN queue', j # i, Touches(queue'[j], c) PROVE Renews(queue'[j])
  <2>1. CASE j > Len(queue)
    BY <1>6, <2>1
  <2>2. CASE j \in DOMAIN queue /\ Echo(queue'[j], queue[j])
    <3>1. Touches(queue[j], c)
      BY <1>6, <2>2, EchoSays
    <3>2. Renews(queue[j])
      BY <1>2, <1>6, <2>2, <3>1
    <3> QED BY <2>2, <3>2 DEF Echo
  <2>3. j \in Int
    BY LenProperties DEF Synced
  <2>4. j + d = j /\ Len(queue) - d = Len(queue)
    BY <1>1, <1>4, <2>3
  <2> QED BY <1>5, <2>1, <2>2, <2>4
<1> QED BY <1>1, <1>2, <1>3, <1>6 DEF Coming

\* The jobs of a snapshot: one for each property that changed, with its value.
LEMMA PropertyJobsSay ==
  ASSUME NEW s \in [prev : Docs, next : Docs]
  PROVE  /\ \A i \in 1..Len(PropertyJobs(s)) :
               /\ PropertyJobs(s)[i].c \in Changed(s)
               /\ PropertyJobs(s)[i].v = s.next.val[PropertyJobs(s)[i].c]
         /\ \A c \in Changed(s) : \E i \in 1..Len(PropertyJobs(s)) : PropertyJobs(s)[i].c = c
<1>1. Changed(s) \subseteq Components
  BY DEF Changed, Docs
<1>2. IsFiniteSet(Changed(s))
  BY <1>1, ComponentsAssumption, FS_Subset
<1> DEFINE cs == SetToSeq(Changed(s))
           job(c) == [Job("property") EXCEPT !.c = c, !.v = s.next.val[c]]
<1>3. cs \in Seq(Changed(s)) /\ ToSet(cs) = Changed(s)
  BY <1>2, SetToSeqIs
<1>4. \A c : job(c).c = c /\ job(c).v = s.next.val[c]
  BY DEF Job
<1>5. Len(cs) \in Nat /\ DOMAIN cs = 1..Len(cs) /\ \A i \in 1..Len(cs) : cs[i] \in Changed(s)
  BY <1>3, LenProperties, ElementOfSeq
<1>6. \A c \in Changed(s) : \E i \in 1..Len(cs) : cs[i] = c
  BY <1>3, <1>5 DEF ToSet
<1>7. PropertyJobs(s) = [i \in 1..Len(cs) |-> job(cs[i])]
  BY <1>5 DEF PropertyJobs
<1> HIDE DEF cs, job
<1>8. PropertyJobs(s) \in Seq(Jobs)
  BY PropertyJobsAreJobs
<1>9. Len(PropertyJobs(s)) = Len(cs)
  <2>1. DOMAIN PropertyJobs(s) = 1..Len(cs) /\ DOMAIN PropertyJobs(s) = 1..Len(PropertyJobs(s))
    BY <1>7, <1>8, LenProperties
  <2>2. Len(PropertyJobs(s)) \in Nat
    BY <1>8, LenProperties
  <2> QED BY <1>5, <2>1, <2>2
<1> QED BY <1>4, <1>5, <1>6, <1>7, <1>9

\* What is known when a snapshot is due: it is the first, and of a clean history the only one.
LEMMA SnapDueSays ==
  ASSUME Faithful, SnapDue
  PROVE  /\ Head(snaps) \in [prev : Docs, next : Docs] /\ Head(snaps).next.comps \subseteq born
         /\ ~tainted => /\ Clean /\ Due /\ Len(snaps) = 1 /\ Head(snaps).next = doc
                        /\ Tail(snaps) = <<>>
                        /\ \A i \in DOMAIN queue : ~IsRebuild(queue[i])
<1>1. Types /\ Recorded /\ snaps # <<>>
  BY DEF Faithful, Sound, Regular, SnapDue
<1>2. /\ snaps \in Seq([prev : Docs, next : Docs]) /\ Head(snaps) = snaps[1] /\ 1 \in DOMAIN snaps
      /\ Len(snaps) = 1 => Tail(snaps) = <<>>
  <2>1. snaps \in Seq([prev : Docs, next : Docs])
    BY <1>1 DEF Types
  <2>2. /\ Len(snaps) \in Nat /\ Len(snaps) >= 1 /\ DOMAIN snaps = 1..Len(snaps)
        /\ Tail(snaps) \in Seq([prev : Docs, next : Docs]) /\ Len(Tail(snaps)) = Len(snaps) - 1
    BY <1>1, <2>1, TailIs
  <2>3. PICK t \in Seq([prev : Docs, next : Docs]) : t = Tail(snaps) /\ Len(t) = Len(snaps) - 1
    BY <2>2
  <2>4. t # <<>> => Len(t) \in Nat \ {0}
    BY <2>3, EmptySeq
  <2>5. Len(snaps) = 1 => Tail(snaps) = <<>>
    BY <2>3, <2>4
  <2> QED BY <1>1, <2>1, <2>2, <2>5
<1>3. Head(snaps) \in [prev : Docs, next : Docs]
  BY <1>1, <1>2, HeadTailProperties
<1>4. Head(snaps).next.comps \subseteq born
  BY <1>1, <1>2 DEF Recorded
<1>5. ~tainted => Clean /\ Due
  BY DEF Faithful, Clean
<1> QED BY <1>2, <1>3, <1>4, <1>5 DEF Due

\* The components changed: a rebuild is scheduled, which reads them all.
LEMMA FaithfulSyncComponents ==
  ASSUME Faithful, Sound', SnapDue, queueCoreRebuild(queue, TRUE), snapWait' = "rebuild",
         UNCHANGED <<doc, born, lastInput, map, inst, tainted, snaps>>
  PROVE  Faithful'
<1>1. Types /\ Scheduled /\ Recorded
  BY DEF Faithful, Sound, Regular
<1>2. queue \in Seq(Jobs) /\ Len(queue) \in Nat /\ DOMAIN queue = 1..Len(queue)
  BY <1>1, QueueFacts DEF Types
<1>3. /\ queue' \in Seq(Jobs)
      /\ Len(queue') = IF rebuildScheduled THEN Len(queue) ELSE Len(queue) + 1
      /\ \A i \in 1..Len(queue) :
            /\ queue'[i].k = queue[i].k /\ queue'[i].phase = queue[i].phase
            /\ queue'[i].c = queue[i].c /\ queue'[i].v = queue[i].v
            /\ queue'[i].id = queue[i].id /\ queue'[i].ids = queue[i].ids
      /\ ~rebuildScheduled => /\ queue'[Len(queue) + 1].k = "rebuild"
                              /\ queue'[Len(queue) + 1].phase = "queued"
  BY <1>2, RebuildShape
<1>4. DOMAIN queue' = 1..Len(queue') /\ Len(queue') >= Len(queue)
  BY <1>2, <1>3, LenProperties
<1>5. \E i \in DOMAIN queue' : Waits(queue'[i])
  <2>1. CASE rebuildScheduled
    BY <1>1, <1>2, <1>3, <1>4, <2>1 DEF Scheduled, Waits
  <2>2. CASE ~rebuildScheduled
    <3>1. Len(queue) + 1 \in DOMAIN queue' /\ Waits(queue'[Len(queue) + 1])
      BY <1>2, <1>3, <1>4, <2>2 DEF Waits
    <3> QED BY <3>1
  <2> QED BY <2>1, <2>2
<1>6. \A i \in DOMAIN queue' : i > Len(queue) =>
         ~rebuildScheduled /\ i = Len(queue) + 1
         /\ queue'[i].k = "rebuild" /\ queue'[i].phase = "queued"
  BY <1>2, <1>3, <1>4
<1>7. Synced
  BY <1>3, <1>4, <1>5, <1>6 DEF Synced
<1>8. Recorded'
  BY <1>1 DEF Recorded
<1>9. Regular' /\ Echoed(0) /\ (Repairing' => Len(queue) = 1 /\ Len(queue') = 1)
  BY <1>7, <1>8, SyncedRegular
<1>10. ~Repairing'
  <2> SUFFICES ASSUME Repairing' PROVE FALSE
    OBVIOUS
  <2>1. Len(queue') = 1 /\ Current'.phase # "queued"
    BY DEF Repairing
  <2>2. queue' # <<>> /\ Current' = queue'[1]
    BY <1>3, <2>1 DEF Current
  <2> QED BY <1>4, <1>5, <2>1, <2>2 DEF Waits
<1>11. ASSUME ~tainted' PROVE Clean'
  <2>1. Clean /\ Due /\ Len(snaps) = 1 /\ \A i \in DOMAIN queue : ~IsRebuild(queue[i])
    BY <1>11, SnapDueSays
  <2>2. ~rebuildScheduled
    BY <1>1, <2>1 DEF Scheduled, Waits, IsRebuild
  <2>3. PICK n \in DOMAIN queue' : n = Len(queue) + 1 /\ Renews(queue'[n])
    <3>1. Len(queue) + 1 \in DOMAIN queue' /\ Renews(queue'[Len(queue) + 1])
      BY <1>2, <1>3, <1>4, <2>2 DEF Renews, IsRebuild
    <3> QED BY <3>1
  <2>4. \A i \in DOMAIN queue' : ~(i > n)
    BY <1>2, <1>3, <1>4, <2>2, <2>3
  <2>5. \A c \in doc'.comps : Holds(c)'
    BY <2>3, <2>4 DEF Holds, Present, Valued, Supplies, Gives
  <2>6. ~SnapDue' /\ Mirrored'
    BY <2>1, <2>5 DEF SnapDue, Mirrored
  <2>7. ASSUME NEW i \in DOMAIN queue', queue'[i].k = "add" PROVE Coming(i)'
    <3>1. i \in DOMAIN queue /\ queue[i].k = "add" /\ queue'[i].c = queue[i].c
      BY <1>2, <1>3, <1>4, <1>6, <2>7
    <3>2. Coming(i)
      BY <2>1, <3>1 DEF Clean
    <3>3. PICK c : c = queue[i].c
      OBVIOUS
    <3>4. CASE c \notin doc.comps
      <4>1. \A j \in DOMAIN queue' : j > Len(queue) /\ Touches(queue'[j], c) => Renews(queue'[j])
        BY <1>6 DEF Renews, IsRebuild
      <4> QED BY <1>1, <1>7, <1>9, <3>1, <3>2, <3>3, <3>4, <4>1, SyncedComing
    <3>5. CASE c \in doc.comps
      <4>1. n > i /\ IsRebuild(queue'[n])
        BY <1>2, <2>3, <3>1 DEF Renews
      <4> QED BY <3>1, <3>3, <3>5, <4>1 DEF Coming
    <3> QED BY <3>4, <3>5
  <2> QED BY <2>6, <2>7 DEF Clean
<1> QED BY <1>9, <1>10, <1>11 DEF Faithful, Repairs

\* Jobs that follow the queue, and nothing else.
LEMMA ConcatSynced ==
  ASSUME Faithful, NEW n \in Seq(Jobs), queue' = queue \o n, UNCHANGED rebuildScheduled,
         \A i \in 1..Len(n) : n[i].phase = "queued" /\ n[i].k \in {"transaction", "property"},
         \A i \in 1..Len(n) : n[i].k = "property" => n[i].c \in born,
         UNCHANGED <<doc, born, lastInput, map, inst, tainted>>
  PROVE  /\ Synced
         /\ Len(n) \in Nat /\ Len(queue') = Len(queue) + Len(n)
         /\ \A i \in 1..Len(queue) : queue'[i] = queue[i]
         /\ \A i \in DOMAIN queue' : i > Len(queue) =>
               queue'[i] = n[i - Len(queue)] /\ i - Len(queue) \in 1..Len(n)
         /\ \A i \in 1..Len(n) : Len(queue) + i \in DOMAIN queue' /\ queue'[Len(queue) + i] = n[i]
<1>1. Types /\ Scheduled
  BY DEF Faithful, Sound, Regular
<1>2. \A i \in 1..Len(n) : n[i].phase = "queued" /\ n[i].k \in Plain
  BY DEF Plain
<1>3. /\ Len(n) \in Nat /\ Len(queue') = Len(queue) + Len(n) /\ Shifted(0)
      /\ \A i \in 1..Len(queue) : queue'[i] = queue[i]
      /\ \A i \in (Len(queue) + 1)..(Len(queue) + Len(n)) :
            queue'[i] = n[i - Len(queue)] /\ i - Len(queue) \in 1..Len(n)
  BY <1>1, <1>2, ConcatShape
<1>4. Len(queue) \in Nat /\ DOMAIN queue = 1..Len(queue)
  BY <1>1, QueueFacts
<1>5. queue' \in Seq(Jobs) /\ DOMAIN queue' = 1..(Len(queue) + Len(n))
  BY <1>3, LenProperties DEF Shifted
<1>6. \A i \in DOMAIN queue' : i > Len(queue) =>
               queue'[i] = n[i - Len(queue)] /\ i - Len(queue) \in 1..Len(n)
  BY <1>3, <1>4, <1>5
<1>7. ASSUME NEW i \in 1..Len(n)
      PROVE  Len(queue) + i \in DOMAIN queue' /\ queue'[Len(queue) + i] = n[i]
  <2>1. Len(queue) + i \in DOMAIN queue' /\ Len(queue) + i > Len(queue) /\ (Len(queue) + i) - Len(queue) = i
    BY <1>3, <1>4, <1>5
  <2> QED BY <1>6, <2>1
<1>8. \A i \in DOMAIN queue : i \in DOMAIN queue'
  BY <1>3, <1>4, <1>5
<1>9. rebuildScheduled' => \E i \in DOMAIN queue' : Waits(queue'[i])
  BY <1>1, <1>3, <1>4, <1>8 DEF Scheduled
<1>10. Synced
  BY <1>3, <1>4, <1>5, <1>6, <1>9 DEF Synced
<1> QED BY <1>3, <1>6, <1>7, <1>10

\* Of an unchanged set of components each add that is queued is of a component to come.
LEMMA SnapComing ==
  ASSUME Faithful, SnapDue, ~tainted, Head(snaps).prev.comps = Head(snaps).next.comps,
         NEW i \in DOMAIN queue, queue[i].k = "add"
  PROVE  Coming(i) /\ queue[i].c \notin doc.comps
<1>1. Clean /\ Due
  BY DEF Faithful, Clean
<1>2. Coming(i)
  BY <1>1 DEF Clean
<1>3. \A j \in DOMAIN queue : ~IsRebuild(queue[j])
  BY <1>1 DEF Due
<1> QED BY <1>2, <1>3 DEF Coming

\* The wire changed: a transaction follows.
LEMMA FaithfulSyncWires ==
  ASSUME Faithful, Sound', SnapDue, Head(snaps).prev.comps = Head(snaps).next.comps,
         Head(snaps).prev.wired # Head(snaps).next.wired,
         NEW j \in Jobs, j.phase = "queued", j.k = "transaction", queue' = Append(queue, j),
         snapWait' = "txn",
         UNCHANGED <<doc, born, lastInput, map, inst, tainted, snaps, rebuildScheduled>>
  PROVE  Faithful'
<1>1. Types /\ Recorded
  BY DEF Faithful, Sound, Regular
<1>2. queue \in Seq(Jobs) /\ Len(queue) \in Nat /\ DOMAIN queue = 1..Len(queue)
  BY <1>1, QueueFacts DEF Types
<1>3. PICK n \in Seq(Jobs) :
         Len(n) = 1 /\ queue' = queue \o n /\ \A i \in 1..Len(n) : n[i] = j
  <2>1. queue' = queue \o <<j>>
    BY <1>2
  <2>2. <<j>> \in Seq(Jobs) /\ Len(<<j>>) = 1 /\ \A i \in 1..Len(<<j>>) : <<j>>[i] = j
    OBVIOUS
  <2> QED BY <2>1, <2>2
<1>4. /\ Synced /\ Len(queue') = Len(queue) + Len(n)
      /\ \A i \in DOMAIN queue' : i > Len(queue) =>
            queue'[i] = n[i - Len(queue)] /\ i - Len(queue) \in 1..Len(n)
  BY <1>3, ConcatSynced
<1>5. \A i \in DOMAIN queue' : i > Len(queue) => queue'[i] = j
  BY <1>3, <1>4
<1>6. Recorded'
  BY <1>1 DEF Recorded
<1>7. /\ Regular' /\ Echoed(0) /\ DOMAIN queue' = 1..Len(queue')
      /\ Repairing' => Len(queue) = 1 /\ Len(queue') = 1
  BY <1>4, <1>6, SyncedRegular
<1>8. ~Repairing'
  BY <1>2, <1>3, <1>4, <1>7
<1>9. \A c, x : ~Touches(j, c) /\ ~Spoils(j, c, x)
  BY DEF Spoils, Touches, Renews, Restores, IsRebuild
<1>10. ASSUME ~tainted' PROVE Clean'
  <2>1. Clean /\ Due /\ Len(snaps) = 1 /\ Head(snaps).next = doc
    BY <1>10, SnapDueSays
  <2>2. \A c \in doc.comps : Holds(c)
    BY <2>1 DEF Due
  <2>3. ASSUME NEW c \in doc.comps PROVE Holds(c)'
    <3>1. PICK x : x = doc.val[c]
      OBVIOUS
    <3>2. \A i \in DOMAIN queue' : i > Len(queue) => ~Spoils(queue'[i], c, x)
      BY <1>5, <1>9
    <3> QED BY <1>1, <1>4, <1>7, <2>2, <3>1, <3>2, SyncedHolds
  <2>4. ~SnapDue' /\ Mirrored'
    BY <2>1, <2>3 DEF SnapDue, Mirrored
  <2>5. ASSUME NEW i \in DOMAIN queue', queue'[i].k = "add" PROVE Coming(i)'
    <3>1. i \in DOMAIN queue
      BY <1>2, <1>5, <1>7, <2>5
    <3>2. queue[i].k = "add"
      BY <1>2, <1>4, <2>5, <3>1 DEF Synced
    <3>3. Coming(i) /\ queue[i].c \notin doc.comps
      BY <1>10, <3>1, <3>2, SnapComing
    <3>4. PICK c : c = queue[i].c
      OBVIOUS
    <3>5. \A m \in DOMAIN queue' : m > Len(queue) /\ Touches(queue'[m], c) => Renews(queue'[m])
      BY <1>5, <1>9
    <3> QED BY <1>1, <1>4, <1>7, <3>1, <3>3, <3>4, <3>5, SyncedComing
  <2> QED BY <2>4, <2>5 DEF Clean
<1> QED BY <1>7, <1>8, <1>10 DEF Faithful, Repairs

\* Values changed: a job for each follows, and sets what the document shows.
LEMMA FaithfulSyncValues ==
  ASSUME Faithful, Sound', SnapDue, Head(snaps).prev.comps = Head(snaps).next.comps,
         queue' = queue \o PropertyJobs(Head(snaps)), snaps' = Tail(snaps),
         UNCHANGED <<doc, born, lastInput, map, inst, tainted, snapWait, rebuildScheduled>>
  PROVE  Faithful'
<1>1. Types /\ Recorded /\ snaps # <<>>
  BY DEF Faithful, Sound, Regular, SnapDue
<1>2. queue \in Seq(Jobs) /\ Len(queue) \in Nat /\ DOMAIN queue = 1..Len(queue)
  BY <1>1, QueueFacts DEF Types
<1>3. PICK s \in [prev : Docs, next : Docs] : s = Head(snaps) /\ s.next.comps \subseteq born
  BY SnapDueSays
<1>4. PICK n \in Seq(Jobs) :
         /\ queue' = queue \o n
         /\ \A i \in 1..Len(n) : n[i].phase = "queued" /\ n[i].k = "property"
         /\ \A i \in 1..Len(n) : n[i].c \in Changed(s) /\ n[i].v = s.next.val[n[i].c]
         /\ \A c \in Changed(s) : \E i \in 1..Len(n) : n[i].c = c
  <2> DEFINE n == PropertyJobs(s)
  <2>1. n \in Seq(Jobs) /\ \A i \in 1..Len(n) : n[i].phase = "queued" /\ n[i].k = "property"
    BY PropertyJobsAreJobs
  <2>2. /\ \A i \in 1..Len(n) : n[i].c \in Changed(s) /\ n[i].v = s.next.val[n[i].c]
        /\ \A c \in Changed(s) : \E i \in 1..Len(n) : n[i].c = c
    BY PropertyJobsSay
  <2>3. queue' = queue \o n
    BY <1>3
  <2> HIDE DEF n
  <2> QED BY <2>1, <2>2, <2>3
<1>5. \A c \in Changed(s) : c \in s.next.comps /\ c \in born /\ s.prev.val[c] # s.next.val[c]
  BY <1>3 DEF Changed
<1>6. /\ Synced /\ Len(n) \in Nat /\ Len(queue') = Len(queue) + Len(n)
      /\ \A i \in 1..Len(queue) : queue'[i] = queue[i]
      /\ \A i \in DOMAIN queue' : i > Len(queue) =>
            queue'[i] = n[i - Len(queue)] /\ i - Len(queue) \in 1..Len(n)
      /\ \A i \in 1..Len(n) : Len(queue) + i \in DOMAIN queue' /\ queue'[Len(queue) + i] = n[i]
  BY <1>4, <1>5, ConcatSynced
<1>7. \A i \in DOMAIN queue' : i > Len(queue) =>
         /\ queue'[i].phase = "queued" /\ queue'[i].k = "property" /\ queue'[i].c \in Changed(s)
         /\ queue'[i].v = s.next.val[queue'[i].c]
  BY <1>4, <1>6
<1>8. Recorded'
  BY <1>1, FewerSnaps DEF Recorded
<1>9. /\ Regular' /\ Echoed(0) /\ DOMAIN queue' = 1..Len(queue')
      /\ Repairing' => Len(queue) = 1 /\ Len(queue') = 1
  BY <1>6, <1>8, SyncedRegular
<1>10. Repairs'
  <2> SUFFICES ASSUME Repairing', NEW c \in doc.comps PROVE Holds(c)'
    BY DEF Repairs
  <2>1. Len(queue) = 1 /\ Len(queue') = 1 /\ Current' = Current /\ queue # <<>>
    <3>1. Len(queue) = 1 /\ Len(queue') = 1
      BY <1>9
    <3>2. queue # <<>> /\ queue' # <<>> /\ Current = queue[1] /\ Current' = queue'[1]
      BY <1>2, <1>9, <3>1 DEF Current, Repairing
    <3> QED BY <1>6, <3>1, <3>2
  <2>2. Holds(c)
    BY <2>1 DEF Repairing, Faithful, Repairs
  <2>3. PICK x : x = doc.val[c]
    OBVIOUS
  <2>4. \A i \in DOMAIN queue' : i > Len(queue) => ~Spoils(queue'[i], c, x)
    BY <1>9, <2>1
  <2> QED BY <1>1, <1>6, <1>9, <2>2, <2>3, <2>4, SyncedHolds
<1>11. ASSUME ~tainted' PROVE Clean'
  <2>1. Clean /\ Due /\ snaps' = <<>> /\ s.next = doc
    BY <1>3, <1>11, SnapDueSays
  <2>2. /\ \A c \in doc.comps : Present(c)
        /\ \A c \in doc.comps : s.prev.val[c] = s.next.val[c] => Holds(c)
    BY <1>3, <2>1 DEF Due
  <2>3. ASSUME NEW c, NEW x, x = doc.val[c], NEW i \in DOMAIN queue', i > Len(queue)
        PROVE  ~Spoils(queue'[i], c, x)
    BY <1>7, <2>1, <2>3 DEF Spoils, Touches, Gives, Renews, Restores, IsRebuild
  <2>4. ASSUME NEW c \in doc.comps PROVE Holds(c)'
    <3>1. PICK x : x = doc.val[c]
      OBVIOUS
    <3>2. \A i \in DOMAIN queue' : i > Len(queue) => ~Spoils(queue'[i], c, x)
      BY <2>3, <3>1
    <3>3. CASE s.prev.val[c] = s.next.val[c]
      BY <1>1, <1>6, <1>9, <2>2, <3>1, <3>2, <3>3, SyncedHolds
    <3>4. CASE s.prev.val[c] # s.next.val[c]
      <4>1. c \in Changed(s)
        BY <2>1, <3>4 DEF Changed
      <4>2. PICK m \in 1..Len(n) : n[m].c = c
        BY <1>4, <4>1
      <4>3. PICK i \in DOMAIN queue' : i > Len(queue) /\ queue'[i] = n[m]
        <5>1. Len(queue) + m \in DOMAIN queue' /\ Len(queue) + m > Len(queue)
          BY <1>2, <1>6
        <5> QED BY <1>6, <5>1
      <4>4. Gives(queue'[i], c, x)
        BY <1>4, <2>1, <3>1, <4>2, <4>3, SMTT(60) DEF Gives
      <4>5. \A k \in DOMAIN queue' : k > i => ~Spoils(queue'[k], c, x)
        BY <1>2, <1>9, <3>2, <4>3, SMTT(60)
      <4>6. Valued(c)'
        BY <3>1, <4>4, <4>5 DEF Valued
      <4>7. Present(c)'
        <5>1. CASE map[c] # 0
          BY <5>1 DEF Present
        <5>2. CASE \E k \in DOMAIN queue : Supplies(queue[k], c)
          <6>1. \A k \in DOMAIN queue : k \in DOMAIN queue' /\ queue'[k] = queue[k]
            BY <1>2, <1>6, <1>9
          <6> QED BY <5>2, <6>1 DEF Present
        <5> QED BY <2>2, <5>1, <5>2 DEF Present
      <4> QED BY <4>6, <4>7 DEF Holds
    <3> QED BY <3>3, <3>4
  <2>5. ~SnapDue' /\ Mirrored'
    <3>1. Len(snaps) <= 1 /\ \A i \in DOMAIN snaps : snaps[i].next.comps \subseteq born
      <4>1. \A i \in DOMAIN snaps : snaps[i].next.comps \subseteq born
        BY <1>1 DEF Recorded
      <4>2. Len(snaps) <= 1
        BY <1>11, SnapDueSays
      <4> QED BY <4>1, <4>2
    <3>2. Len(snaps') <= 1
      BY <1>1, <3>1, FewerSnaps
    <3> QED BY <2>1, <2>4, <3>2 DEF SnapDue, Mirrored
  <2>6. ASSUME NEW i \in DOMAIN queue', queue'[i].k = "add" PROVE Coming(i)'
    <3>1. i \in DOMAIN queue
      BY <1>2, <1>7, <1>9, <2>6
    <3>2. queue[i].k = "add"
      BY <1>2, <1>6, <2>6, <3>1
    <3>3. Coming(i) /\ queue[i].c \notin doc.comps
      BY <1>11, <3>1, <3>2, SnapComing
    <3>4. PICK c : c = queue[i].c
      OBVIOUS
    <3>5. \A m \in DOMAIN queue' : m > Len(queue) /\ Touches(queue'[m], c) => Renews(queue'[m])
      BY <1>5, <1>7, <2>1, <3>3, <3>4 DEF Touches, Restores, IsRebuild
    <3> QED BY <1>1, <1>6, <1>9, <3>1, <3>3, <3>4, <3>5, SyncedComing
  <2> QED BY <2>5, <2>6 DEF Clean
<1> QED BY <1>9, <1>10, <1>11 DEF Faithful

\* A snapshot becomes a rebuild, a transaction or property jobs.
LEMMA FaithfulSyncSnapshot ==
  ASSUME Faithful, Sound', SyncSnapshot
  PROVE  Faithful'
<1>1. Types
  BY DEF Faithful, Sound
<1>2. SnapDue /\ UNCHANGED <<doc, born, lastInput, map, inst, tainted>>
  BY DEF SyncSnapshot, docVars, coreVars, ghosts
<1>3. CASE queueCoreRebuild(queue, TRUE) /\ snapWait' = "rebuild" /\ UNCHANGED snaps
  BY <1>2, <1>3, FaithfulSyncComponents
<1>4. CASE /\ Head(snaps).prev.comps = Head(snaps).next.comps
           /\ Head(snaps).prev.wired # Head(snaps).next.wired
           /\ queue' = enqueueCoreMutation(queue,
                    [Job("transaction") EXCEPT !.connect = Head(snaps).next.wired, !.awaited = TRUE])
           /\ snapWait' = "txn"
           /\ UNCHANGED <<snaps, rebuildScheduled>>
  <2> DEFINE j == [Job("transaction") EXCEPT !.connect = Head(snaps).next.wired, !.awaited = TRUE]
  <2>1. Head(snaps).next.wired \in BOOLEAN
    BY <1>2, SnapDueSays DEF Docs
  <2>2. j \in Jobs /\ j.k = "transaction" /\ j.phase = "queued"
    BY <2>1, ValuesAssumption, EmptySeq DEF Job, Jobs, Kinds, Phases, Structural
  <2>3. queue' = Append(queue, j)
    BY <1>4 DEF enqueueCoreMutation
  <2> HIDE DEF j
  <2> QED BY <1>2, <1>4, <2>2, <2>3, FaithfulSyncWires
<1>5. CASE /\ Head(snaps).prev.comps = Head(snaps).next.comps
           /\ queue' = queue \o PropertyJobs(Head(snaps))
           /\ snaps' = Tail(snaps)
           /\ UNCHANGED <<snapWait, rebuildScheduled>>
  BY <1>2, <1>5, FaithfulSyncValues
<1> QED BY <1>3, <1>4, <1>5 DEF SyncSnapshot

-----------------------------------------------------------------------------
(* The invariant of the values holds, and what follows from it *)

\* The project as it is loaded: every component has an instance with the default value.
LEMMA InitFaithful ==
  ASSUME Init
  PROVE  Faithful
<1> DEFINE f == [c \in Loaded |-> Cardinality({x \in Loaded : x <= c})]
           n == Cardinality(Loaded)
<1>1. /\ n \in Nat
      /\ \A c \in Loaded : f[c] \in 1..n
      /\ \A c, e \in Loaded : f[c] = f[e] => c = e
  BY RanksAreInstances
<1>2. map = [c \in Components |-> IF c \in Loaded THEN f[c] ELSE 0]
  BY DEF Init
<1> HIDE DEF f
<1>3. /\ \A c \in Loaded : map[c] = f[c] /\ map[c] \in 1..n
      /\ \A c \in Components \ Loaded : map[c] = 0
  BY <1>1, <1>2, LoadedAssumption
<1>4. queue = <<>> /\ DOMAIN queue = {} /\ ~Emptying /\ ~Filling /\ ~Setting
  BY DEF Init, Emptying, Filling, Rebuilding, Setting
<1>5. inst = [i \in 1..n |-> [of |-> CHOOSE c \in Loaded : map[c] = i,
                          val |-> 0, live |-> TRUE, denied |-> -1]]
  BY DEF Init
<1>6. /\ doc.comps = Loaded /\ (\A c \in Components : doc.val[c] = 0) /\ snaps = <<>>
      /\ DOMAIN snaps = {} /\ Len(snaps) = 0
  BY DEF Init
<1> HIDE DEF n
<1>7. Apart
  <2>1. \A c, e \in Components : map[c] = map[e] /\ map[c] # 0 => c = e
    BY <1>1, <1>3
  <2>2. \A c \in Components : map[c] # 0 => map[c] \in DOMAIN inst /\ inst[map[c]].live
    BY <1>3, <1>5
  <2> QED BY <2>1, <2>2 DEF Apart
<1>8. Removals /\ Aimed /\ Sequenced /\ Repairs
  BY <1>4 DEF Removals, Aimed, Sequenced, Repairs, Repairing
<1>9. Scheduled
  BY <1>4 DEF Scheduled, Init
<1>10. Recorded
  BY <1>6 DEF Recorded, Init
<1>11. ASSUME NEW c \in doc.comps PROVE Holds(c)
  <2>1. map[c] # 0 /\ inst[map[c]].val = 0 /\ doc.val[c] = 0
    BY <1>1, <1>3, <1>5, <1>6, LoadedAssumption
  <2> QED BY <1>4, <2>1 DEF Holds, Present, Valued, Based
<1>12. Clean
  BY <1>4, <1>6, <1>11 DEF Clean, SnapDue, Mirrored
<1> QED BY <1>7, <1>8, <1>9, <1>10, <1>12, InitSound DEF Faithful, Regular

\* Every step keeps it.
LEMMA NextFaithful ==
  ASSUME Faithful, [Next]_vars
  PROVE  Faithful'
<1>1. Sound'
  BY NextSound DEF Faithful
<1>2. CASE UNCHANGED vars
  BY <1>1, <1>2, FaithfulIdle DEF vars
<1>3. CASE SyncSnapshot
  BY <1>1, <1>3, FaithfulSyncSnapshot
<1>4. CASE ~SnapDue /\ Start
  BY <1>1, <1>4, FaithfulStart
<1>5. CASE ~SnapDue /\ Answer
  BY <1>1, <1>5, FaithfulAnswerAdd, FaithfulAnswerRemove, FaithfulAnswerProperty,
     FaithfulAnswerPreview, FaithfulAnswerTransaction, FaithfulAnswerWire DEF Answer
<1>6. CASE ~SnapDue /\ Rebuild
  BY <1>1, <1>6, FaithfulRebuildBegins, FaithfulRebuildAbort, FaithfulRebuildRemove,
     FaithfulRebuildClear, FaithfulRebuildAdd, FaithfulRebuildEnds, FaithfulRebuildResume
     DEF Rebuild
<1>7. CASE User
  <2>1. CASE \E c \in Components : \/ requestAddComponent(c)
                                   \/ requestRemoveComponent(c)
                                   \/ \E wired \in BOOLEAN : requestInsertItems(c, wired)
    BY <1>1, <2>1, FaithfulAddComponent, FaithfulRemoveComponent, FaithfulInsertItems
  <2>2. CASE \E c \in Components : \E v \in Values : \/ requestUpdateProperty(c, v)
                                                     \/ requestPreviewProperty(c, v)
    BY <1>1, <2>2, FaithfulUpdateProperty, FaithfulPreviewProperty
  <2>3. CASE requestConnectEndpoints \/ requestRemoveWire \/ runSimulation \/ pauseSimulation
             \/ stopSimulation
    BY <1>1, <2>3, FaithfulWireOrControl
  <2>4. CASE \E next \in Snapshots : projectChanged(next)
    BY <1>1, <2>4, FaithfulProjectChanged
  <2> QED BY <1>7, <2>1, <2>2, <2>3, <2>4 DEF User
<1> QED BY <1>2, <1>3, <1>4, <1>5, <1>6, <1>7 DEF Next, Work

\* With empty queues every component holds its value now, in an instance that lives.
LEMMA QuietHolds ==
  ASSUME Faithful, Quiet, ~tainted, NEW c \in doc.comps
  PROVE  map[c] \in Live /\ (lastInput[c] = "commit" => doc.val[c] \in {inst[map[c]].val, inst[map[c]].denied})
<1>1. queue = <<>> /\ DOMAIN queue = {} /\ ~SnapDue /\ ~Emptying
  BY DEF Quiet, SnapDue, Emptying, Rebuilding
<1>2. Holds(c) /\ Apart /\ c \in Components
  BY <1>1 DEF Faithful, Clean, Mirrored, Regular, Sound, Types, Docs
<1>3. map[c] # 0 /\ (lastInput[c] = "commit" => Based(c, doc.val[c]))
  BY <1>1, <1>2 DEF Holds, Present, Valued
<1>4. map[c] \in Live
  BY <1>1, <1>2, <1>3 DEF Apart, Live
<1> QED BY <1>3, <1>4 DEF Based

\* CommitWins holds of every behaviour: whatever previews, edits, undos, rebuilds and lost
\* answers interleave (coreLifecycle.ts, extension.ts), once the queues are empty the Core's
\* instance has the value the user committed last, or was asked for it and refused it
\* (SimulationSession.cpp:2543), unless an edit crossed one that was not synchronised yet or
\* a change of the components, the wire or the pins was refused, and again after the next
\* rebuild that none crossed.
THEOREM CommittedValuesWin == Spec => []CommitWins
<1>1. Init => Faithful
  BY InitFaithful
<1>2. Faithful /\ [Next]_vars => Faithful'
  BY NextFaithful
<1>3. Faithful => CommitWins
  BY QuietHolds DEF CommitWins
<1> QED BY <1>1, <1>2, <1>3, PTL DEF Spec

\* Once the queues are empty every component of the document has an instance that lives.
ComponentsLive == Quiet /\ ~tainted => \A c \in doc.comps : map[c] \in Live

\* The first part of CoreMirrorsDocument holds of every behaviour: no component is left
\* without its instance by what the handlers, the queue of mutations and the rebuilds
\* interleave (coreLifecycle.ts), for any number of components, edits and lost answers.
THEOREM NoComponentIsMissing == Spec => []ComponentsLive
<1>1. Init => Faithful
  BY InitFaithful
<1>2. Faithful /\ [Next]_vars => Faithful'
  BY NextFaithful
<1>3. Faithful => ComponentsLive
  BY QuietHolds DEF ComponentsLive
<1> QED BY <1>1, <1>2, <1>3, PTL DEF Spec
=============================================================================
