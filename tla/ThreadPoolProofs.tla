-------------------------- MODULE ThreadPoolProofs --------------------------
(***************************************************************************)
(* Proof that ThreadPool implements ParallelFor, for any number of callers, *)
(* workers, indices and calls.                                              *)
(***************************************************************************)
EXTENDS ThreadPool, FiniteSetTheorems, TLAPS

CallerStates ==
    {"idle", "serial", "serialRun", "serialFailed", "lock"} \cup Holding

Working == {"claim", "run", "catch", "finish"}
WorkerStates == {"none", "starting", "check", "asleep", "exited"} \cup Working

Counts == {r[1] : r \in UNION {Requests[c] : c \in Callers}}

\* The shape of the state.
Types ==
    /\ task \in Callers \cup {None} /\ invocation \in Callers \cup {None}
    /\ taskCount \in Nat /\ nextIndex \in Nat /\ pending \in Nat
    /\ active \in Nat /\ active <= MaxWorkers /\ materialized \in Nat
    /\ failure \in BOOLEAN
    /\ fresh \in [Workers -> BOOLEAN]
    /\ pc \in [Participants -> CallerStates \cup WorkerStates]
    /\ \A c \in Callers : pc[c] \in CallerStates
    /\ \A w \in Workers : pc[w] \in WorkerStates
    /\ idx \in [Participants -> Nat]
    /\ job \in [Participants -> Callers \cup {None}]
    /\ total \in [Callers -> Nat]
    /\ participants \in [Callers -> Int]
    /\ DOMAIN outcome = Callers

\* m_invocationMutex is held by the caller that needs it, and m_task is the job of a caller
\* that has published it and not yet returned.
Exclusion ==
    /\ \A c \in Callers : pc[c] \in Holding <=> invocation = c
    /\ \A c \in Callers : pc[c] \in Published <=> task = c
    /\ \A c \in Callers : task = c => taskCount = total[c]
    /\ \A c \in Callers : pc[c] \in {"join", "asleep"} => nextIndex >= taskCount

\* What a caller has settled before it publishes.
Prepared ==
    \A c \in Callers :
        /\ pc[c] \in {"lock", "ensure"} =>
              /\ idx[c] = 0 /\ total[c] \in Counts
              /\ participants[c] - 1 \in 1..MaxWorkers

\* The workers that have yet to report to the published job.
Owing == {w \in Workers : w <= active /\ (fresh[w] \/ pc[w] \in Working)}

\* m_workersPending counts them, and nobody works when there is no job.
Counted ==
    /\ pending = Cardinality(Owing)
    /\ task = None => pending = 0
    /\ \A w \in Workers : pc[w] \in Working => ~fresh[w] /\ w <= active

Running == {p \in Participants : pc[p] \in {"run", "catch"}}

\* Whoever runs fn runs that of the published job, for an index that was handed out to it
\* alone.
Claimed ==
    /\ \A p \in Running : job[p] = task /\ idx[p] < nextIndex
    /\ \A p, q \in Running : idx[p] = idx[q] => p = q

PoolInv == Types /\ Exclusion /\ Prepared /\ Counted /\ Claimed

-----------------------------------------------------------------------------
(* Facts about the participants.                                            *)

\* Callers and workers are different participants.
LEMMA Sorts ==
    /\ \A c \in Callers : c \in Participants /\ c \notin Workers /\ c # None
    /\ \A w \in Workers : w \in Participants /\ w \notin Callers /\ w \in Nat
    /\ \A p \in Participants : p \in Callers \/ p \in Workers
BY CallersAssumption, SizesAssumption DEF Participants, Workers

\* Only finitely many workers owe a report.
LEMMA OwingFinite ==
    /\ IsFiniteSet(Owing) /\ Cardinality(Owing) \in Nat
    /\ Cardinality(Owing) = 0 <=> Owing = {}
<1>1. IsFiniteSet(Workers)
  BY SizesAssumption, FS_Interval DEF Workers
<1>2. IsFiniteSet(Owing)
  BY <1>1, FS_Subset DEF Owing
<1> QED
  BY <1>2, FS_CardinalityType, FS_EmptySet

\* Without a published job no worker works and nobody runs fn.
LEMMA NoJob ==
    ASSUME PoolInv, task = None
    PROVE  /\ Owing = {} /\ Running = {}
           /\ \A w \in Workers : pc[w] \notin Working
<1>1. Owing = {}
  BY OwingFinite DEF PoolInv, Counted
<1>2. \A w \in Workers : pc[w] \notin Working
  BY <1>1 DEF PoolInv, Counted, Owing
<1>3. \A c \in Callers : pc[c] \notin Published
  BY Sorts DEF PoolInv, Exclusion
<1>4. Running = {}
  BY <1>2, <1>3, Sorts DEF Running, Working, Published, Holding
<1> QED
  BY <1>1, <1>2, <1>4

\* A caller that holds the mutex before it publishes finds no job.
LEMMA EnsureNoJob ==
    ASSUME PoolInv, NEW c \in Callers, pc[c] = "ensure"
    PROVE  task = None
BY Sorts DEF PoolInv, Types, Exclusion, Published, Holding

\* Somebody who takes part has a job to take part in, and it is that of the caller itself.
LEMMA HasJob ==
    ASSUME PoolInv, NEW p \in Participants, pc[p] \in Working
    PROVE  task \in Callers /\ (p \in Callers => task = p)
<1>1. CASE p \in Callers
  BY <1>1 DEF PoolInv, Types, CallerStates, Exclusion, Working, Published
<1>2. CASE p \in Workers
  BY <1>2, NoJob, Sorts DEF PoolInv, Types
<1> QED
  BY <1>1, <1>2, Sorts

-----------------------------------------------------------------------------
(* What leaves the parts of the invariant alone.                            *)

LEMMA KeepsExclusion ==
    ASSUME PoolInv, UNCHANGED <<task, taskCount, invocation>>, nextIndex' >= nextIndex,
           nextIndex' \in Nat,
           \A c \in Callers :
              /\ pc'[c] \in Holding <=> pc[c] \in Holding
              /\ pc'[c] \in Published <=> pc[c] \in Published
              /\ pc'[c] \in {"join", "asleep"} =>
                    pc[c] \in {"join", "asleep"} \/ nextIndex' >= taskCount
              /\ task = c => total'[c] = total[c]
    PROVE  Exclusion'
BY DEF PoolInv, Types, Exclusion

LEMMA KeepsPrepared ==
    ASSUME PoolInv,
           \A c \in Callers : pc'[c] \in {"lock", "ensure"} =>
              /\ pc[c] \in {"lock", "ensure"}
              /\ idx'[c] = idx[c] /\ total'[c] = total[c] /\ participants'[c] = participants[c]
    PROVE  Prepared'
BY DEF PoolInv, Prepared

LEMMA KeepsCounted ==
    ASSUME PoolInv, UNCHANGED <<task, active, pending>>,
           \A w \in Workers : fresh'[w] = fresh[w] /\ (pc'[w] \in Working <=> pc[w] \in Working)
    PROVE  Counted'
<1>1. Owing' = Owing
  BY DEF Owing
<1> QED
  BY <1>1 DEF PoolInv, Counted

LEMMA KeepsClaimed ==
    ASSUME PoolInv, task' = task, nextIndex' \in Nat, nextIndex' >= nextIndex,
           \A p \in Participants : pc'[p] \in {"run", "catch"} =>
              pc[p] \in {"run", "catch"} /\ job'[p] = job[p] /\ idx'[p] = idx[p]
    PROVE  Claimed'
<1>1. Running' \subseteq Running
  BY DEF Running
<1>2. \A p \in Running' : job'[p] = job[p] /\ idx'[p] = idx[p]
  BY DEF Running
<1>3. \A p \in Running : idx[p] \in Nat
  BY DEF PoolInv, Types, Running
<1> QED
  BY <1>1, <1>2, <1>3 DEF PoolInv, Types, Claimed

-----------------------------------------------------------------------------
(* One lemma per action.                                                    *)

LEMMA InvCall ==
    ASSUME PoolInv, NEW c \in Callers, NEW r \in Requests[c], Call(c, r[1], r[2])
    PROVE  PoolInv'
<1>1. Types
  BY DEF PoolInv
<1>3. Types'
  <2>1. /\ r[1] \in Nat \ {0} /\ r[2] \in Nat
    BY SizesAssumption
  <2>2. Granted(r[1], r[2]) \in Nat
    BY <2>1, SizesAssumption DEF Granted, MinOf
  <2> QED
    BY <1>1, <2>1, <2>2, Sorts DEF Types, Call, poolVars, CallerStates
<1>4. Exclusion'
  <2>1. task # c
    BY DEF PoolInv, Exclusion, Call, Published, Holding
  <2> QED
    BY <1>1, <2>1, KeepsExclusion DEF Types, Call, poolVars, Holding, Published
<1>5. Prepared'
  <2>1. r[1] \in Nat \ {0} /\ r[2] \in Nat
    BY SizesAssumption
  <2>2. r[1] \in Counts
    BY DEF Counts
  <2>3. ~(Granted(r[1], r[2]) <= 1) => Granted(r[1], r[2]) - 1 \in 1..MaxWorkers
    BY <2>1, SizesAssumption DEF Granted, MinOf
  <2>4. \A d \in Callers : d # c =>
           /\ pc'[d] = pc[d] /\ idx'[d] = idx[d] /\ total'[d] = total[d]
           /\ participants'[d] = participants[d]
    BY <1>1, Sorts DEF Types, Call
  <2>5. pc'[c] \in {"lock", "ensure"} =>
           /\ idx'[c] = 0 /\ total'[c] \in Counts /\ participants'[c] - 1 \in 1..MaxWorkers
    BY <1>1, <2>2, <2>3, Sorts DEF Types, Call
  <2> QED
    BY <2>4, <2>5 DEF PoolInv, Prepared
<1>6. Counted'
  BY KeepsCounted DEF Call, poolVars, Working
<1>7. Claimed'
  BY <1>1, KeepsClaimed DEF Types, Call, poolVars
<1> QED
  BY <1>3, <1>4, <1>5, <1>6, <1>7 DEF PoolInv

LEMMA InvSerial ==
    ASSUME PoolInv, NEW c \in Callers, Serial(c)
    PROVE  PoolInv'
<1>1. Types
  BY DEF PoolInv
<1>2. \A p \in Participants : pc'[p] = IF p = c THEN pc'[c] ELSE pc[p]
  BY <1>1, Sorts DEF Types, Serial, Leave
<1>3. Types'
  BY <1>1, Sorts DEF Types, Serial, Leave, poolVars, callVars, CallerStates
<1>4. Exclusion'
  <2>1. task # c
    BY DEF PoolInv, Exclusion, Serial, Published, Holding
  <2> QED
    BY <1>1, <2>1, Sorts, KeepsExclusion DEF Types, Serial, Leave, poolVars, callVars, Holding,
       Published
<1>5. Prepared'
  BY <1>1, Sorts, KeepsPrepared DEF Types, Serial, Leave, callVars
<1>6. Counted'
  BY <1>2, Sorts, KeepsCounted DEF Serial, poolVars
<1>7. Claimed'
  BY <1>1, KeepsClaimed DEF Types, Serial, Leave, poolVars
<1> QED
  BY <1>3, <1>4, <1>5, <1>6, <1>7 DEF PoolInv

LEMMA InvSerialRan ==
    ASSUME PoolInv, NEW c \in Callers, NEW throws \in BOOLEAN, SerialRan(c, throws)
    PROVE  PoolInv'
<1>1. Types
  BY DEF PoolInv
<1>2. \A p \in Participants : pc'[p] = IF p = c THEN pc'[c] ELSE pc[p]
  BY <1>1, Sorts DEF Types, SerialRan
<1>3. Types'
  BY <1>1, Sorts DEF Types, SerialRan, poolVars, callVars, CallerStates
<1>4. Exclusion'
  BY <1>1, Sorts, KeepsExclusion DEF Types, SerialRan, poolVars, callVars, Holding, Published
<1>5. Prepared'
  BY <1>1, Sorts, KeepsPrepared DEF Types, SerialRan, callVars
<1>6. Counted'
  BY <1>2, Sorts, KeepsCounted DEF SerialRan, poolVars
<1>7. Claimed'
  BY <1>1, KeepsClaimed DEF Types, SerialRan, poolVars
<1> QED
  BY <1>3, <1>4, <1>5, <1>6, <1>7 DEF PoolInv

LEMMA InvSerialLeaves ==
    ASSUME PoolInv, NEW c \in Callers, SerialLeaves(c)
    PROVE  PoolInv'
<1>1. Types
  BY DEF PoolInv
<1>3. Types'
  BY <1>1, Sorts DEF Types, SerialLeaves, Leave, poolVars, CallerStates
<1>4. Exclusion'
  <2>1. task # c
    BY DEF PoolInv, Exclusion, SerialLeaves, Published, Holding
  <2> QED
    BY <1>1, <2>1, KeepsExclusion DEF Types, SerialLeaves, Leave, poolVars, Holding, Published
<1>5. Prepared'
  BY KeepsPrepared DEF SerialLeaves, Leave
<1>6. Counted'
  BY KeepsCounted DEF SerialLeaves, poolVars, Working
<1>7. Claimed'
  BY <1>1, KeepsClaimed DEF Types, SerialLeaves, Leave, poolVars
<1> QED
  BY <1>3, <1>4, <1>5, <1>6, <1>7 DEF PoolInv

LEMMA InvLock ==
    ASSUME PoolInv, NEW c \in Callers, Lock(c)
    PROVE  PoolInv'
<1>1. Types
  BY DEF PoolInv
<1>2. \A p \in Participants : pc'[p] = IF p = c THEN "ensure" ELSE pc[p]
  BY <1>1, Sorts DEF Types, Lock
<1>3. Types'
  BY <1>1, Sorts DEF Types, Lock, poolVars, callVars, CallerStates, Holding
<1>4. Exclusion'
  <2>1. /\ invocation = None /\ invocation' = c /\ pc[c] = "lock" /\ pc'[c] = "ensure"
        /\ UNCHANGED <<task, taskCount, nextIndex, total>>
    BY <1>2, Sorts DEF Lock, poolVars, callVars
  <2>2. \A d \in Callers : d # c => pc'[d] = pc[d] /\ pc'[d] \notin Holding
    BY <1>2, <2>1, Sorts DEF PoolInv, Exclusion
  <2> QED
    BY <2>1, <2>2 DEF PoolInv, Exclusion, Published, Holding
<1>5. Prepared'
  BY KeepsPrepared DEF Lock, callVars
<1>6. Counted'
  BY KeepsCounted DEF Lock, poolVars, Working
<1>7. Claimed'
  BY <1>1, KeepsClaimed DEF Types, Lock, poolVars
<1> QED
  BY <1>3, <1>4, <1>5, <1>6, <1>7 DEF PoolInv

LEMMA InvMaterialize ==
    ASSUME PoolInv, NEW c \in Callers, Materialize(c)
    PROVE  PoolInv'
<1>1. Types
  BY DEF PoolInv
<1> DEFINE w == materialized + 1
<1>a. w \in Workers
  BY SizesAssumption, <1>1 DEF PoolInv, Types, Prepared, Materialize, Workers
<1>b. task = None /\ Owing = {} /\ \A v \in Workers : pc[v] \notin Working
  BY EnsureNoJob, NoJob DEF Materialize
<1>2. \A p \in Participants : pc'[p] = IF p = materialized + 1 THEN "starting" ELSE pc[p]
  BY <1>1, Sorts DEF Types, Materialize
<1>3. Types'
  BY <1>1, <1>a, Sorts DEF Types, Materialize, poolVars, callVars, WorkerStates
<1>4. Exclusion'
  <2>1. \A d \in Callers : pc'[d] = pc[d]
    BY <1>2, <1>a, Sorts
  <2> QED
    BY <1>1, <2>1, KeepsExclusion DEF Types, Materialize, poolVars, callVars
<1>5. Prepared'
  BY KeepsPrepared DEF Materialize, callVars
<1>6. Counted'
  <2>1. UNCHANGED <<task, active, pending>> /\ fresh' = [fresh EXCEPT ![w] = FALSE]
    BY DEF Materialize, poolVars
  <2>2. \A v \in Workers : pc'[v] \notin Working
    BY <1>2, <1>a, <1>b, Sorts DEF Working
  <2>3. Owing' = {}
    BY <1>1, <1>a, <1>b, <2>1, <2>2 DEF Owing, Types
  <2> QED
    BY <1>b, <2>1, <2>2, <2>3 DEF PoolInv, Counted
<1>7. Claimed'
  BY <1>1, KeepsClaimed DEF Types, Materialize, poolVars
<1> QED
  BY <1>3, <1>4, <1>5, <1>6, <1>7 DEF PoolInv

LEMMA InvMaterializeFails ==
    ASSUME PoolInv, NEW c \in Callers, MaterializeFails(c)
    PROVE  PoolInv'
<1>1. Types
  BY DEF PoolInv
<1>2. \A p \in Participants : pc'[p] = IF p = c THEN "idle" ELSE pc[p]
  BY <1>1, Sorts DEF Types, MaterializeFails, Leave
<1>3. Types'
  BY <1>1, Sorts DEF Types, MaterializeFails, Leave, poolVars, CallerStates
<1>4. Exclusion'
  <2>1. /\ pc[c] = "ensure" /\ invocation' = None /\ UNCHANGED <<task, taskCount, nextIndex>>
        /\ pc'[c] = "idle" /\ total' = [total EXCEPT ![c] = 0]
    BY <1>2, Sorts DEF MaterializeFails, Leave, poolVars
  <2>2. invocation = c /\ task # c
    BY <2>1 DEF PoolInv, Exclusion, Published, Holding
  <2>3. \A d \in Callers : d # c => pc'[d] = pc[d] /\ pc'[d] \notin Holding /\ total'[d] = total[d]
    BY <1>2, <2>1, <2>2, Sorts DEF PoolInv, Exclusion
  <2> QED
    BY <2>1, <2>3, Sorts DEF PoolInv, Exclusion, Published, Holding
<1>5. Prepared'
  BY <1>2, Sorts, KeepsPrepared DEF MaterializeFails, Leave
<1>6. Counted'
  BY KeepsCounted DEF MaterializeFails, poolVars, Working
<1>7. Claimed'
  BY <1>1, KeepsClaimed DEF Types, MaterializeFails, Leave, poolVars
<1> QED
  BY <1>3, <1>4, <1>5, <1>6, <1>7 DEF PoolInv

LEMMA InvPublish ==
    ASSUME PoolInv, NEW c \in Callers, Publish(c)
    PROVE  PoolInv'
<1>1. Types
  BY DEF PoolInv
<1>a. participants[c] - 1 \in 1..MaxWorkers
  BY DEF PoolInv, Prepared, Publish
<1>b. task = None /\ Running = {} /\ \A v \in Workers : pc[v] \notin Working
  BY EnsureNoJob, NoJob DEF Publish
<1>2. \A p \in Participants : pc'[p] = IF p = c THEN "notify" ELSE pc[p]
  BY <1>1, Sorts DEF Types, Publish
<1>3. Types'
  <2>1. /\ task' \in Callers \cup {None} /\ taskCount' \in Nat /\ nextIndex' \in Nat
        /\ pending' \in Nat /\ active' \in Nat /\ active' <= MaxWorkers
    <3>1. /\ total[c] \in Nat /\ participants[c] - 1 \in Nat
          /\ participants[c] - 1 <= MaxWorkers
      BY <1>1, <1>a, SizesAssumption DEF Types
    <3> QED
      BY <3>1 DEF Publish
  <2>4. failure' \in BOOLEAN /\ fresh' \in [Workers -> BOOLEAN]
    BY DEF Publish
  <2>2. /\ pc' \in [Participants -> CallerStates \cup WorkerStates]
        /\ \A d \in Callers : pc'[d] \in CallerStates
        /\ \A w \in Workers : pc'[w] \in WorkerStates
    BY <1>1, Sorts DEF Types, Publish, CallerStates, Holding
  <2>3. UNCHANGED <<invocation, materialized, idx, job, total, participants, outcome>>
    BY DEF Publish, callVars
  <2> QED
    BY <1>1, <2>1, <2>2, <2>3, <2>4 DEF Types
<1>4. Exclusion'
  <2>1. /\ pc[c] = "ensure" /\ task' = c /\ taskCount' = total[c]
        /\ UNCHANGED <<total, invocation>> /\ pc'[c] = "notify"
    BY <1>2, Sorts DEF Publish, callVars
  <2>2. invocation = c
    BY <2>1 DEF PoolInv, Exclusion, Holding
  <2>3. \A d \in Callers : d # c => pc'[d] = pc[d] /\ pc'[d] \notin Holding
    BY <1>2, <2>2, Sorts DEF PoolInv, Exclusion
  <2> QED
    BY <2>1, <2>2, <2>3 DEF Exclusion, Published, Holding
<1>5. Prepared'
  BY KeepsPrepared DEF Publish, callVars
<1>6. Counted'
  <2>1. /\ active' = participants[c] - 1 /\ pending' = active' /\ task' = c
        /\ fresh' = [w \in Workers |-> TRUE]
    BY DEF Publish
  <2>2. \A v \in Workers : pc'[v] \notin Working
    BY <1>2, <1>b, Sorts DEF Working
  <2>3. Owing' = 1..active'
    BY <1>a, <2>1, SizesAssumption DEF Owing, Workers
  <2>4. Cardinality(1..active') = active'
    BY <1>a, <2>1, FS_Interval
  <2> QED
    BY <2>1, <2>2, <2>3, <2>4, Sorts DEF Counted
<1>7. Claimed'
  <2>1. Running' = {}
    BY <1>2, <1>b, Sorts DEF Running
  <2> QED
    BY <2>1 DEF Claimed
<1> QED
  BY <1>3, <1>4, <1>5, <1>6, <1>7 DEF PoolInv

LEMMA InvNotifyWork ==
    ASSUME PoolInv, NEW c \in Callers, NotifyWork(c)
    PROVE  PoolInv'
<1>1. Types
  BY DEF PoolInv
<1>3. Types'
  BY <1>1, Sorts DEF Types, NotifyWork, Woken, poolVars, callVars, CallerStates, WorkerStates,
     Holding
<1>4. Exclusion'
  BY <1>1, Sorts, KeepsExclusion DEF Types, NotifyWork, Woken, poolVars, callVars, Holding,
     Published
<1>5. Prepared'
  BY Sorts, KeepsPrepared DEF NotifyWork, Woken, callVars
<1>6. Counted'
  BY Sorts, KeepsCounted DEF NotifyWork, Woken, poolVars, Working
<1>7. Claimed'
  BY <1>1, KeepsClaimed DEF Types, NotifyWork, Woken, poolVars
<1> QED
  BY <1>3, <1>4, <1>5, <1>6, <1>7 DEF PoolInv

LEMMA InvClaim ==
    ASSUME PoolInv, NEW q \in Participants, Claim(q)
    PROVE  PoolInv'
<1>1. Types
  BY DEF PoolInv
<1>2. \A p \in Participants : pc'[p] = IF p = q THEN pc'[q] ELSE pc[p]
  BY <1>1, Sorts DEF Types, Claim
<1>3. Types'
  BY <1>1, Sorts DEF Types, Claim, callVars, CallerStates, WorkerStates, Working, Holding
<1>4. Exclusion'
  BY <1>1, Sorts, KeepsExclusion DEF Types, Claim, callVars, Holding, Published
<1>5. Prepared'
  BY <1>1, Sorts, KeepsPrepared DEF Types, Claim, callVars
<1>6. Counted'
  BY <1>1, Sorts, KeepsCounted DEF Types, Claim, Working
<1>7. Claimed'
  <2>1. task' = task /\ nextIndex' = nextIndex + 1 /\ nextIndex \in Nat /\ pc[q] = "claim"
    BY <1>1 DEF Claim, Types
  <2>2. \A p \in Running : job[p] = task /\ idx[p] < nextIndex /\ idx[p] \in Nat
    BY <1>1 DEF PoolInv, Claimed, Types, Running
  <2>3. CASE nextIndex < taskCount /\ idx' = [idx EXCEPT ![q] = nextIndex]
             /\ job' = [job EXCEPT ![q] = task]
    <3>1. \A p \in Running' : p = q \/ (p \in Running /\ idx'[p] = idx[p] /\ job'[p] = job[p])
      BY <1>1, <1>2, <2>3 DEF Running, Types
    <3>2. idx'[q] = nextIndex /\ job'[q] = task /\ q \notin Running
      BY <1>1, <2>1, <2>3 DEF Types, Running
    <3> QED
      BY <2>1, <2>2, <3>1, <3>2 DEF PoolInv, Claimed
  <2>4. CASE nextIndex >= taskCount
    BY <1>1, <1>2, <2>1, <2>4, KeepsClaimed DEF Types, Claim
  <2> QED
    BY <2>3, <2>4 DEF Claim
<1> QED
  BY <1>3, <1>4, <1>5, <1>6, <1>7 DEF PoolInv

LEMMA InvRan ==
    ASSUME PoolInv, NEW q \in Participants, NEW throws \in BOOLEAN, Ran(q, throws)
    PROVE  PoolInv'
<1>1. Types
  BY DEF PoolInv
<1>3. Types'
  BY <1>1 DEF Types, Ran, poolVars, callVars, CallerStates, WorkerStates, Working, Holding
<1>4. Exclusion'
  BY <1>1, KeepsExclusion DEF Types, Ran, poolVars, callVars, Holding, Published
<1>5. Prepared'
  BY KeepsPrepared DEF Ran, callVars
<1>6. Counted'
  BY KeepsCounted DEF Ran, poolVars, Working
<1>7. Claimed'
  BY <1>1, KeepsClaimed DEF Types, Ran, poolVars
<1> QED
  BY <1>3, <1>4, <1>5, <1>6, <1>7 DEF PoolInv

LEMMA InvCatch ==
    ASSUME PoolInv, NEW q \in Participants, Catch(q)
    PROVE  PoolInv'
<1>1. Types
  BY DEF PoolInv
<1>3. Types'
  BY <1>1 DEF Types, Catch, callVars, CallerStates, WorkerStates, Working, Holding
<1>4. Exclusion'
  BY <1>1, KeepsExclusion DEF Types, Catch, callVars, Holding, Published
<1>5. Prepared'
  BY KeepsPrepared DEF Catch, callVars
<1>6. Counted'
  BY KeepsCounted DEF Catch, Working
<1>7. Claimed'
  BY <1>1, KeepsClaimed DEF Types, Catch
<1> QED
  BY <1>3, <1>4, <1>5, <1>6, <1>7 DEF PoolInv

LEMMA InvJoinSleeps ==
    ASSUME PoolInv, NEW c \in Callers, pending > 0, Join(c)
    PROVE  PoolInv'
<1>1. Types
  BY DEF PoolInv
<1>2. \A p \in Participants : pc'[p] = IF p = c THEN pc'[c] ELSE pc[p]
  BY <1>1, Sorts DEF Types, Join
<1>3. Types'
  BY <1>1, Sorts DEF Types, Join, callVars, CallerStates, Holding
<1>4. Exclusion'
  BY <1>1, Sorts, KeepsExclusion DEF Types, Join, callVars, Holding, Published
<1>5. Prepared'
  BY <1>1, Sorts, KeepsPrepared DEF Types, Join, callVars
<1>6. Counted'
  BY <1>2, Sorts, KeepsCounted DEF Join
<1>7. Claimed'
  BY <1>1, KeepsClaimed DEF Types, Join
<1> QED
  BY <1>3, <1>4, <1>5, <1>6, <1>7 DEF PoolInv

LEMMA InvJoinReturns ==
    ASSUME PoolInv, NEW c \in Callers, pending = 0, Join(c)
    PROVE  PoolInv'
<1>1. Types
  BY DEF PoolInv
<1>a. /\ pc[c] = "join" /\ task' = None /\ invocation' = None /\ total' = [total EXCEPT ![c] = 0]
      /\ UNCHANGED <<taskCount, nextIndex, pending, active, fresh>>
  BY DEF Join, Leave
<1>b. invocation = c /\ task = c
  BY <1>a DEF PoolInv, Exclusion, Published, Holding
<1>c. Owing = {}
  BY OwingFinite DEF PoolInv, Counted
<1>2. \A p \in Participants : pc'[p] = IF p = c THEN "idle" ELSE pc[p]
  BY <1>1, Sorts DEF Types, Join, Leave
<1>3. Types'
  BY <1>1, Sorts DEF Types, Join, Leave, CallerStates
<1>4. Exclusion'
  <2>1. \A d \in Callers : d # c => pc'[d] = pc[d] /\ pc'[d] \notin Holding
    BY <1>2, <1>b, Sorts DEF PoolInv, Exclusion
  <2>2. pc'[c] = "idle"
    BY <1>2, Sorts
  <2> QED
    BY <1>a, <2>1, <2>2, Sorts DEF Exclusion, Published, Holding
<1>5. Prepared'
  BY <1>1, Sorts, KeepsPrepared DEF Types, Join, Leave
<1>6. Counted'
  <2>1. \A v \in Workers : pc'[v] = pc[v]
    BY <1>2, Sorts
  <2>2. Owing' = Owing
    BY <1>a, <2>1 DEF Owing
  <2> QED
    BY <1>a, <2>1, <2>2 DEF PoolInv, Counted
<1>7. Claimed'
  <2>1. \A p \in Participants : pc'[p] \notin {"run", "catch"}
    <3>1. \A p \in Workers : pc'[p] \notin {"run", "catch"}
      BY <1>2, <1>c, Sorts DEF PoolInv, Counted, Owing, Working
    <3>2. \A p \in Callers : pc'[p] \notin {"run", "catch"}
      BY <1>2, <1>b, Sorts DEF PoolInv, Exclusion, Published, Holding
    <3> QED
      BY <3>1, <3>2, Sorts
  <2>2. Running' = {}
    BY <2>1 DEF Running
  <2> QED
    BY <2>2 DEF Claimed
<1> QED
  BY <1>3, <1>4, <1>5, <1>6, <1>7 DEF PoolInv

LEMMA InvWorkerStarts ==
    ASSUME PoolInv, NEW w \in Workers, WorkerStarts(w)
    PROVE  PoolInv'
<1>1. Types
  BY DEF PoolInv
<1>3. Types'
  BY <1>1, Sorts DEF Types, WorkerStarts, poolVars, callVars, WorkerStates
<1>4. Exclusion'
  BY <1>1, KeepsExclusion DEF Types, WorkerStarts, poolVars, callVars, Holding, Published
<1>5. Prepared'
  BY KeepsPrepared DEF WorkerStarts, callVars
<1>6. Counted'
  BY KeepsCounted DEF WorkerStarts, poolVars, Working
<1>7. Claimed'
  BY <1>1, KeepsClaimed DEF Types, WorkerStarts, poolVars
<1> QED
  BY <1>3, <1>4, <1>5, <1>6, <1>7 DEF PoolInv

LEMMA InvWorkerCheck ==
    ASSUME PoolInv, NEW w \in Workers, WorkerCheck(w)
    PROVE  PoolInv'
<1>1. Types
  BY DEF PoolInv
<1>2. \A p \in Participants : pc'[p] = IF p = w THEN pc'[w] ELSE pc[p]
  BY <1>1, Sorts DEF Types, WorkerCheck, TakesPart
<1>3. Types'
  <2>1. /\ pc'[w] \in WorkerStates /\ pc' \in [Participants -> CallerStates \cup WorkerStates]
        /\ \A c \in Callers : pc'[c] = pc[c]
        /\ \A v \in Workers : v # w => pc'[v] = pc[v]
    BY <1>1, Sorts DEF Types, WorkerCheck, TakesPart, WorkerStates, Working
  <2>2. /\ fresh' \in [Workers -> BOOLEAN] /\ idx' \in [Participants -> Nat]
        /\ job' \in [Participants -> Callers \cup {None}]
    BY <1>1, Sorts DEF Types, WorkerCheck, TakesPart, poolVars, callVars
  <2> QED
    BY <1>1, <2>1, <2>2 DEF Types, WorkerCheck, TakesPart, poolVars, callVars
<1>4. Exclusion'
  BY <1>1, Sorts, KeepsExclusion DEF Types, WorkerCheck, poolVars, callVars
<1>5. Prepared'
  BY <1>2, Sorts, KeepsPrepared DEF WorkerCheck, callVars
<1>6. Counted'
  <2>1. UNCHANGED <<task, active, pending>> /\ pc[w] = "check"
    BY DEF WorkerCheck, poolVars
  <2>2. \A v \in Workers : v # w => pc'[v] = pc[v] /\ fresh'[v] = fresh[v]
    BY <1>1, <1>2, Sorts DEF Types, WorkerCheck
  <2>3. /\ pc'[w] \in Working => ~fresh'[w] /\ w <= active
        /\ w <= active => (fresh'[w] \/ pc'[w] \in Working <=> fresh[w])
    BY <1>1, Sorts DEF Types, WorkerCheck, TakesPart, Working
  <2>4. Owing' = Owing
    BY <2>1, <2>2, <2>3 DEF Owing, Working
  <2> QED
    BY <2>1, <2>2, <2>3, <2>4 DEF PoolInv, Counted
<1>7. Claimed'
  BY <1>1, KeepsClaimed DEF Types, WorkerCheck, poolVars
<1> QED
  BY <1>3, <1>4, <1>5, <1>6, <1>7 DEF PoolInv

LEMMA InvFinish ==
    ASSUME PoolInv, NEW w \in Workers, Finish(w)
    PROVE  PoolInv'
<1>1. Types
  BY DEF PoolInv
<1>a. pc[w] = "finish" /\ pending' = pending - 1 /\ UNCHANGED <<task, active, fresh>>
  BY DEF Finish
<1>b. w \in Owing /\ ~fresh[w] /\ task # None
  BY <1>a, NoJob DEF PoolInv, Counted, Owing, Working
<1>c. pending' = Cardinality(Owing \ {w}) /\ pending' \in Nat
  <2>1. Cardinality(Owing \ {w}) = Cardinality(Owing) - 1 /\ IsFiniteSet(Owing \ {w})
    BY <1>b, OwingFinite, FS_RemoveElement
  <2>2. Cardinality(Owing \ {w}) \in Nat
    BY <2>1, FS_CardinalityType
  <2> QED
    BY <1>a, <2>1, <2>2 DEF PoolInv, Counted
<1>2. \A p \in Participants : pc'[p] = IF p = w THEN "check" ELSE DoneNotified(p)
  BY <1>1, Sorts DEF Types, Finish, DoneNotified
<1>3. Types'
  <2>1. UNCHANGED <<task, invocation, taskCount, nextIndex, active, materialized, failure, fresh,
                    idx, job, total, participants, outcome>>
    BY DEF Finish, callVars
  <2>2. /\ pc' \in [Participants -> CallerStates \cup WorkerStates]
        /\ \A c \in Callers : pc'[c] \in CallerStates
        /\ \A v \in Workers : pc'[v] \in WorkerStates
    BY <1>1, Sorts DEF Types, Finish, DoneNotified, CallerStates, WorkerStates, Holding
  <2> QED
    BY <1>1, <1>c, <2>1, <2>2 DEF Types
<1>4. Exclusion'
  BY <1>1, Sorts, KeepsExclusion DEF Types, Finish, DoneNotified, callVars, Holding, Published
<1>5. Prepared'
  BY Sorts, KeepsPrepared DEF Finish, DoneNotified, callVars
<1>6. Counted'
  <2>1. \A v \in Workers : v # w => pc'[v] = pc[v]
    BY <1>2, Sorts DEF DoneNotified
  <2>2. pc'[w] \notin Working
    BY <1>2, Sorts DEF Working
  <2>3. Owing' = Owing \ {w}
    BY <1>a, <1>b, <2>1, <2>2 DEF Owing
  <2> QED
    BY <1>a, <1>c, <2>1, <2>2, <2>3 DEF PoolInv, Counted
<1>7. Claimed'
  BY <1>1, KeepsClaimed DEF Types, Finish, DoneNotified
<1> QED
  BY <1>3, <1>4, <1>5, <1>6, <1>7 DEF PoolInv

LEMMA InvSpuriousWake ==
    ASSUME PoolInv, NEW q \in Participants, SpuriousWake(q)
    PROVE  PoolInv'
<1>1. Types
  BY DEF PoolInv
<1>3. Types'
  BY <1>1, Sorts DEF Types, SpuriousWake, poolVars, callVars, CallerStates, WorkerStates,
     Holding
<1>4. Exclusion'
  BY <1>1, KeepsExclusion DEF Types, SpuriousWake, poolVars, callVars, Holding, Published
<1>5. Prepared'
  BY KeepsPrepared DEF SpuriousWake, callVars
<1>6. Counted'
  BY KeepsCounted DEF SpuriousWake, poolVars, Working
<1>7. Claimed'
  BY <1>1, KeepsClaimed DEF Types, SpuriousWake, poolVars
<1> QED
  BY <1>3, <1>4, <1>5, <1>6, <1>7 DEF PoolInv

LEMMA InvNotifyStop ==
    ASSUME PoolInv, NotifyStop
    PROVE  PoolInv'
<1>1. Types
  BY DEF PoolInv
<1>3. Types'
  BY <1>1, Sorts DEF Types, NotifyStop, Woken, poolVars, callVars, WorkerStates
<1>4. Exclusion'
  BY <1>1, Sorts, KeepsExclusion DEF Types, NotifyStop, Woken, poolVars, callVars
<1>5. Prepared'
  BY Sorts, KeepsPrepared DEF NotifyStop, Woken, callVars
<1>6. Counted'
  BY Sorts, KeepsCounted DEF NotifyStop, Woken, poolVars, Working
<1>7. Claimed'
  BY <1>1, KeepsClaimed DEF Types, NotifyStop, Woken, poolVars
<1> QED
  BY <1>3, <1>4, <1>5, <1>6, <1>7 DEF PoolInv


\* The invariant holds at first.
LEMMA PoolInit == Init => PoolInv
<1> SUFFICES ASSUME Init PROVE PoolInv
  OBVIOUS
<1>1. Types
  <2>1. /\ pc \in [Participants -> CallerStates \cup WorkerStates]
        /\ \A c \in Callers : pc[c] \in CallerStates
        /\ \A w \in Workers : pc[w] \in WorkerStates
    BY Sorts DEF Init, CallerStates, WorkerStates
  <2>2. /\ idx \in [Participants -> Nat] /\ job \in [Participants -> Callers \cup {None}]
        /\ total \in [Callers -> Nat] /\ participants \in [Callers -> Int]
        /\ fresh \in [Workers -> BOOLEAN] /\ DOMAIN outcome = Callers
    BY DEF Init
  <2>3. /\ task = None /\ invocation = None /\ taskCount = 0 /\ nextIndex = 0 /\ pending = 0
        /\ active = 0 /\ materialized = 0 /\ failure = FALSE
    BY DEF Init
  <2> QED
    <3>1. /\ taskCount \in Nat /\ nextIndex \in Nat /\ pending \in Nat /\ active \in Nat
          /\ active <= MaxWorkers /\ materialized \in Nat
      BY <2>3, SizesAssumption
    <3>2. failure \in BOOLEAN
      BY <2>3
    <3> QED
      BY <2>1, <2>2, <2>3, <3>1, <3>2 DEF Types
<1>2. Owing = {}
  <2>1. active = 0
    BY DEF Init
  <2> QED
    BY <2>1, SizesAssumption DEF Owing, Workers
<1>3. Running = {}
  BY Sorts DEF Init, Running
<1>4. Counted
  BY <1>2, Sorts, FS_EmptySet DEF Init, Counted, Working
<1>5. Exclusion /\ Prepared
  BY Sorts DEF Init, Exclusion, Prepared, Published, Holding
<1> QED
  BY <1>1, <1>3, <1>4, <1>5 DEF PoolInv, Claimed

\* Every step keeps the invariant.
LEMMA PoolNext == PoolInv /\ [Next]_vars => PoolInv'
<1> SUFFICES ASSUME PoolInv, [Next]_vars PROVE PoolInv'
  OBVIOUS
<1>1. ASSUME UNCHANGED <<poolVars, invocation, materialized, fresh, pc, idx, job, callVars>>
      PROVE  PoolInv'
  <2>1. Types' /\ Exclusion' /\ Prepared'
    BY <1>1 DEF PoolInv, Types, Exclusion, Prepared, poolVars, callVars
  <2>2. Counted' /\ Claimed'
    BY <1>1 DEF PoolInv, Counted, Owing, Claimed, Running, poolVars
  <2> QED
    BY <2>1, <2>2 DEF PoolInv
<1>2. ASSUME NEW c \in Callers, Join(c) PROVE PoolInv'
  <2>1. pending = 0 \/ pending > 0
    BY DEF PoolInv, Types
  <2> QED
    BY <1>2, <2>1, InvJoinSleeps, InvJoinReturns
<1>3. CASE \E c \in Callers : CallerStep(c)
  BY <1>2, <1>3, InvSerial, InvSerialRan, InvSerialLeaves, InvLock, InvMaterialize,
     InvMaterializeFails, InvPublish, InvNotifyWork DEF CallerStep
<1>4. CASE \E w \in Workers : WorkerStep(w)
  BY <1>4, InvWorkerStarts, InvWorkerCheck, InvFinish DEF WorkerStep
<1>5. CASE \E p \in Participants : TaskStep(p)
  BY <1>5, InvClaim, InvRan, InvCatch DEF TaskStep
<1>6. CASE Destroy \/ Destroyed \/ UNCHANGED vars
  BY <1>1, <1>6 DEF Destroy, Destroyed, vars
<1> QED
  BY <1>3, <1>4, <1>5, <1>6, InvCall, InvSpuriousWake, InvNotifyStop DEF Next


-----------------------------------------------------------------------------
(* The abstract state.                                                      *)

\* What is being executed for a caller: what is running if the job is its own, and nothing
\* else unless it works alone.
ExecOf(c) ==
    IF task = c THEN {idx[p] : p \in Running}
    ELSE IF pc[c] = "serialRun" THEN {idx[c]} ELSE {}

ExecRight == \A c \in Callers : Exec(c) = ExecOf(c)

\* The abstract execution, read from the program counters.
LEMMA ExecIs == PoolInv => ExecRight
<1> SUFFICES ASSUME PoolInv, NEW c \in Callers PROVE Exec(c) = ExecOf(c)
  BY DEF ExecRight
<1> DEFINE R == {q \in Participants : pc[q] \in {"run", "catch"} /\ job[q] = c}
<1>1. CASE task = c
  <2>1. R = Running
    BY <1>1 DEF PoolInv, Claimed, Running
  <2>2. pc[c] # "serialRun"
    BY <1>1 DEF PoolInv, Exclusion, Published, Holding
  <2> QED
    BY <1>1, <2>1, <2>2 DEF Exec, ExecOf
<1>2. CASE task # c
  <2>1. R = {}
    BY <1>2 DEF PoolInv, Claimed, Running
  <2> QED
    BY <1>2, <2>1 DEF Exec, ExecOf
<1> QED
  BY <1>1, <1>2

LEMMA ExecIsNext == PoolInv' => ExecRight'
BY ExecIs, PTL

\* A step that changes no abstract variable.
LEMMA Stutters ==
    ASSUME outcome' = outcome,
           \A d \in Callers :
              /\ pc'[d] = "idle" <=> pc[d] = "idle"
              /\ Todo(d)' = Todo(d) /\ Exec(d)' = Exec(d) /\ Threw(d)' = Threw(d)
    PROVE  UNCHANGED Abstract!vars
<1>1. [d \in Callers |-> pc[d] # "idle"]' = [d \in Callers |-> pc[d] # "idle"]
  OBVIOUS
<1>2. [d \in Callers |-> Todo(d)]' = [d \in Callers |-> Todo(d)]
  OBVIOUS
<1>3. [d \in Callers |-> Exec(d)]' = [d \in Callers |-> Exec(d)]
  OBVIOUS
<1>4. [d \in Callers |-> Threw(d)]' = [d \in Callers |-> Threw(d)]
  OBVIOUS
<1> QED
  BY <1>1, <1>2, <1>3, <1>4 DEF Abstract!vars

LEMMA Begins ==
    ASSUME NEW c \in Callers, NEW i \in Todo(c), pc[c] # "idle", outcome' = outcome,
           \A d \in Callers :
              /\ pc'[d] = "idle" <=> pc[d] = "idle"
              /\ Threw(d)' = Threw(d)
              /\ d # c => Todo(d)' = Todo(d) /\ Exec(d)' = Exec(d),
           Todo(c)' = Todo(c) \ {i}, Exec(c)' = Exec(c) \cup {i}
    PROVE  Abstract!Next
<1>1. Abstract!Begin(c, i)
  BY DEF Abstract!Begin
<1> QED
  BY <1>1 DEF Abstract!Next

LEMMA Ends ==
    ASSUME NEW c \in Callers, NEW i \in Exec(c), NEW throws \in BOOLEAN, outcome' = outcome,
           \A d \in Callers :
              /\ pc'[d] = "idle" <=> pc[d] = "idle"
              /\ Todo(d)' = Todo(d)
              /\ d # c => Threw(d)' = Threw(d) /\ Exec(d)' = Exec(d),
           Exec(c)' = Exec(c) \ {i}, Threw(c)' = (Threw(c) \/ throws)
    PROVE  Abstract!Next
<1>1. Abstract!End(c, i, throws)
  BY DEF Abstract!End
<1> QED
  BY <1>1 DEF Abstract!Next

LEMMA Returns ==
    ASSUME NEW c \in Callers, pc[c] # "idle", pc'[c] = "idle", Exec(c) = {},
           DOMAIN outcome = Callers,
           \/ Threw(c) /\ outcome' = [outcome EXCEPT ![c] = "failed"]
           \/ ~Threw(c) /\ Todo(c) = {} /\ outcome' = [outcome EXCEPT ![c] = "ok"],
           Todo(c)' = {}, ~Threw(c)',
           \A d \in Callers :
              /\ Exec(d)' = Exec(d)
              /\ d # c => /\ pc'[d] = "idle" <=> pc[d] = "idle"
                          /\ Todo(d)' = Todo(d) /\ Threw(d)' = Threw(d)
    PROVE  Abstract!Next
<1>1. Abstract!Return(c)
  BY DEF Abstract!Return, Threw
<1> QED
  BY <1>1 DEF Abstract!Next

LEMMA Refuses ==
    ASSUME NEW c \in Callers, pc[c] # "idle", pc'[c] = "idle", Exec(c) = {}, ~Threw(c),
           \E n \in Counts : Todo(c) = 0..(n - 1),
           outcome' = [outcome EXCEPT ![c] = "failed"],
           Todo(c)' = {},
           \A d \in Callers :
              /\ Exec(d)' = Exec(d) /\ Threw(d)' = Threw(d)
              /\ d # c => (pc'[d] = "idle" <=> pc[d] = "idle") /\ Todo(d)' = Todo(d)
    PROVE  Abstract!Next
<1>1. Abstract!Refuse(c)
  BY DEF Abstract!Refuse, Counts
<1> QED
  BY <1>1 DEF Abstract!Next

LEMMA Calls ==
    ASSUME NEW c \in Callers, NEW n \in Counts, pc[c] = "idle", pc'[c] # "idle",
           outcome' = [outcome EXCEPT ![c] = "none"],
           Todo(c)' = 0..(n - 1),
           \A d \in Callers :
              /\ Exec(d)' = Exec(d) /\ Threw(d)' = Threw(d)
              /\ d # c => (pc'[d] = "idle" <=> pc[d] = "idle") /\ Todo(d)' = Todo(d)
    PROVE  Abstract!Next
<1>1. Abstract!Call(c, n)
  BY DEF Abstract!Call
<1> QED
  BY <1>1 DEF Abstract!Next, Counts

-----------------------------------------------------------------------------
(* One lemma per kind of step.                                              *)

\* A step that only moves threads between places that look alike from outside.
LEMMA Unseen ==
    ASSUME PoolInv, PoolInv', UNCHANGED <<task, idx, total, outcome, failure>>,
           Running' = Running,
           nextIndex' = nextIndex \/ (nextIndex' = nextIndex + 1 /\ nextIndex >= taskCount),
           \A d \in Callers : \/ pc'[d] = pc[d]
                              \/ pc'[d] \in Published /\ pc[d] \in Published
                              \/ pc'[d] \in {"lock", "ensure"} /\ pc[d] \in {"lock", "ensure"}
    PROVE  UNCHANGED Abstract!vars
<1>1. \A d \in Callers : Exec(d)' = Exec(d)
  <2>1. \A d \in Callers : pc'[d] = "serialRun" <=> pc[d] = "serialRun"
    BY DEF Published, Holding
  <2> QED
    BY <2>1, ExecIs, ExecIsNext DEF ExecRight, ExecOf
<1>2. \A d \in Callers : pc[d] \in Published =>
         nextIndex'..(total[d] - 1) = nextIndex..(total[d] - 1)
  <2> SUFFICES ASSUME NEW d \in Callers, pc[d] \in Published
               PROVE  nextIndex'..(total[d] - 1) = nextIndex..(total[d] - 1)
    OBVIOUS
  <2>1. taskCount = total[d] /\ nextIndex \in Nat /\ total[d] \in Nat
    BY DEF PoolInv, Types, Exclusion
  <2>2. CASE nextIndex' = nextIndex + 1 /\ nextIndex >= taskCount
    BY <2>1, <2>2
  <2> QED
    BY <2>2
<1>3. \A d \in Callers : Todo(d)' = Todo(d)
  BY <1>2 DEF Todo, Published, Holding
<1>4. \A d \in Callers : Threw(d)' = Threw(d)
  BY DEF Threw, Published, Holding
<1>5. \A d \in Callers : pc'[d] = "idle" <=> pc[d] = "idle"
  BY DEF Published, Holding
<1> QED
  BY <1>1, <1>3, <1>4, <1>5, Stutters

LEMMA StepLock ==
    ASSUME PoolInv, PoolInv', NEW c \in Callers, Lock(c)
    PROVE  UNCHANGED Abstract!vars
<1>1. /\ pc \in [Participants -> CallerStates \cup WorkerStates]
      /\ idx \in [Participants -> Nat]
  BY DEF PoolInv, Types
<1>2. Running' = Running
  BY <1>1, Sorts DEF Lock, Running
<1>3. \A d \in Callers : \/ pc'[d] = pc[d]
                         \/ pc'[d] \in Published /\ pc[d] \in Published
                         \/ pc'[d] \in {"lock", "ensure"} /\ pc[d] \in {"lock", "ensure"}
  BY <1>1, Sorts DEF Lock, Published, Holding
<1> QED
  BY <1>2, <1>3, Unseen DEF Lock, poolVars, callVars

\* The worker that ensureWorkers creates has a number of its own and does not run yet.
LEMMA MaterializesWorker ==
    ASSUME PoolInv, NEW c \in Callers, Materialize(c)
    PROVE  materialized + 1 \in Workers /\ pc[materialized + 1] \notin {"run", "catch"}
<1>1. materialized + 1 \in Workers
  BY SizesAssumption DEF PoolInv, Types, Prepared, Materialize, Workers
<1>2. \A w \in Workers : pc[w] \notin Working
  BY EnsureNoJob, NoJob DEF Materialize
<1> QED
  BY <1>1, <1>2 DEF Working

LEMMA StepMaterialize ==
    ASSUME PoolInv, PoolInv', NEW c \in Callers, Materialize(c)
    PROVE  UNCHANGED Abstract!vars
<1>1. /\ pc \in [Participants -> CallerStates \cup WorkerStates]
      /\ idx \in [Participants -> Nat]
  BY DEF PoolInv, Types
<1>2. Running' = Running
  BY <1>1, Sorts, MaterializesWorker DEF Materialize, Running
<1>3. \A d \in Callers : \/ pc'[d] = pc[d]
                         \/ pc'[d] \in Published /\ pc[d] \in Published
                         \/ pc'[d] \in {"lock", "ensure"} /\ pc[d] \in {"lock", "ensure"}
  BY <1>1, Sorts, MaterializesWorker DEF Materialize, Published, Holding
<1> QED
  BY <1>2, <1>3, Unseen DEF Materialize, poolVars, callVars

LEMMA StepNotifyWork ==
    ASSUME PoolInv, PoolInv', NEW c \in Callers, NotifyWork(c)
    PROVE  UNCHANGED Abstract!vars
<1>1. /\ pc \in [Participants -> CallerStates \cup WorkerStates]
      /\ idx \in [Participants -> Nat]
  BY DEF PoolInv, Types
<1>2. Running' = Running
  BY <1>1, Sorts DEF NotifyWork, Woken, Running
<1>3. \A d \in Callers : \/ pc'[d] = pc[d]
                         \/ pc'[d] \in Published /\ pc[d] \in Published
                         \/ pc'[d] \in {"lock", "ensure"} /\ pc[d] \in {"lock", "ensure"}
  BY <1>1, Sorts DEF NotifyWork, Woken, Published, Holding
<1> QED
  BY <1>2, <1>3, Unseen DEF NotifyWork, Woken, poolVars, callVars

LEMMA StepJoinSleeps ==
    ASSUME PoolInv, PoolInv', NEW c \in Callers, pending > 0, Join(c)
    PROVE  UNCHANGED Abstract!vars
<1>1. /\ pc \in [Participants -> CallerStates \cup WorkerStates]
      /\ idx \in [Participants -> Nat]
  BY DEF PoolInv, Types
<1>2. Running' = Running
  BY <1>1, Sorts DEF Join, Running
<1>3. \A d \in Callers : \/ pc'[d] = pc[d]
                         \/ pc'[d] \in Published /\ pc[d] \in Published
                         \/ pc'[d] \in {"lock", "ensure"} /\ pc[d] \in {"lock", "ensure"}
  BY <1>1, Sorts DEF Join, Published, Holding
<1> QED
  BY <1>2, <1>3, Unseen DEF Join, poolVars, callVars

LEMMA StepWorkerStarts ==
    ASSUME PoolInv, PoolInv', NEW w \in Workers, WorkerStarts(w)
    PROVE  UNCHANGED Abstract!vars
<1>1. /\ pc \in [Participants -> CallerStates \cup WorkerStates]
      /\ idx \in [Participants -> Nat]
  BY DEF PoolInv, Types
<1>2. Running' = Running
  BY <1>1, Sorts DEF WorkerStarts, Running
<1>3. \A d \in Callers : \/ pc'[d] = pc[d]
                         \/ pc'[d] \in Published /\ pc[d] \in Published
                         \/ pc'[d] \in {"lock", "ensure"} /\ pc[d] \in {"lock", "ensure"}
  BY <1>1, Sorts DEF WorkerStarts, Published, Holding
<1> QED
  BY <1>2, <1>3, Unseen DEF WorkerStarts, poolVars, callVars

LEMMA StepWorkerCheck ==
    ASSUME PoolInv, PoolInv', NEW w \in Workers, WorkerCheck(w)
    PROVE  UNCHANGED Abstract!vars
<1>1. /\ pc \in [Participants -> CallerStates \cup WorkerStates]
      /\ idx \in [Participants -> Nat]
  BY DEF PoolInv, Types
<1>2. Running' = Running
  BY <1>1, Sorts DEF WorkerCheck, Running
<1>3. \A d \in Callers : \/ pc'[d] = pc[d]
                         \/ pc'[d] \in Published /\ pc[d] \in Published
                         \/ pc'[d] \in {"lock", "ensure"} /\ pc[d] \in {"lock", "ensure"}
  BY <1>1, Sorts DEF WorkerCheck, Published, Holding
<1> QED
  BY <1>2, <1>3, Unseen DEF WorkerCheck, poolVars, callVars

LEMMA StepFinish ==
    ASSUME PoolInv, PoolInv', NEW w \in Workers, Finish(w)
    PROVE  UNCHANGED Abstract!vars
<1>1. /\ pc \in [Participants -> CallerStates \cup WorkerStates]
      /\ idx \in [Participants -> Nat]
  BY DEF PoolInv, Types
<1>2. Running' = Running
  BY <1>1, Sorts DEF Finish, DoneNotified, Running
<1>3. \A d \in Callers : \/ pc'[d] = pc[d]
                         \/ pc'[d] \in Published /\ pc[d] \in Published
                         \/ pc'[d] \in {"lock", "ensure"} /\ pc[d] \in {"lock", "ensure"}
  BY <1>1, Sorts DEF Finish, DoneNotified, Published, Holding
<1> QED
  BY <1>2, <1>3, Unseen DEF Finish, DoneNotified, poolVars, callVars

LEMMA StepSpuriousWake ==
    ASSUME PoolInv, PoolInv', NEW q \in Participants, SpuriousWake(q)
    PROVE  UNCHANGED Abstract!vars
<1>1. /\ pc \in [Participants -> CallerStates \cup WorkerStates]
      /\ idx \in [Participants -> Nat]
  BY DEF PoolInv, Types
<1>2. Running' = Running
  BY <1>1, Sorts DEF SpuriousWake, Running
<1>3. \A d \in Callers : \/ pc'[d] = pc[d]
                         \/ pc'[d] \in Published /\ pc[d] \in Published
                         \/ pc'[d] \in {"lock", "ensure"} /\ pc[d] \in {"lock", "ensure"}
  BY <1>1, Sorts DEF SpuriousWake, Published, Holding
<1> QED
  BY <1>2, <1>3, Unseen DEF SpuriousWake, poolVars, callVars

LEMMA StepNotifyStop ==
    ASSUME PoolInv, PoolInv', NotifyStop
    PROVE  UNCHANGED Abstract!vars
<1>1. /\ pc \in [Participants -> CallerStates \cup WorkerStates]
      /\ idx \in [Participants -> Nat]
  BY DEF PoolInv, Types
<1>2. Running' = Running
  BY <1>1, Sorts DEF NotifyStop, Woken, Running
<1>3. \A d \in Callers : \/ pc'[d] = pc[d]
                         \/ pc'[d] \in Published /\ pc[d] \in Published
                         \/ pc'[d] \in {"lock", "ensure"} /\ pc[d] \in {"lock", "ensure"}
  BY <1>1, Sorts DEF NotifyStop, Woken, Published, Holding
<1> QED
  BY <1>2, <1>3, Unseen DEF NotifyStop, Woken, poolVars, callVars

\* The indices that will be handed out are those the call has asked for.
LEMMA StepPublish ==
    ASSUME PoolInv, PoolInv', NEW c \in Callers, Publish(c)
    PROVE  UNCHANGED Abstract!vars
<1>1. /\ task = None /\ task' = c /\ pc[c] = "ensure" /\ pc'[c] = "notify" /\ Running = {}
      /\ nextIndex' = 0 /\ failure' = FALSE /\ idx[c] = 0
      /\ UNCHANGED <<idx, total, outcome>>
      /\ \A d \in Callers : d # c => pc'[d] = pc[d]
      /\ \A p \in Participants : pc'[p] \in {"run", "catch"} => pc[p] \in {"run", "catch"}
  <2>1. pc[c] = "ensure" /\ task' = c /\ nextIndex' = 0 /\ failure' = FALSE
        /\ UNCHANGED <<idx, total, outcome>>
    BY DEF Publish, callVars
  <2>2. task = None /\ Running = {}
    BY <2>1, EnsureNoJob, NoJob
  <2> QED
    BY <2>1, <2>2, Sorts DEF PoolInv, Types, Prepared, Publish
<1>2. Running' = {}
  BY <1>1 DEF Running
<1>3. \A d \in Callers : Exec(d)' = Exec(d)
  BY <1>1, <1>2, ExecIs, ExecIsNext, Sorts DEF ExecRight, ExecOf
<1>4. \A d \in Callers : d # c => pc[d] \notin Published
  BY <1>1, Sorts DEF PoolInv, Exclusion
<1>5. \A d \in Callers : Todo(d)' = Todo(d)
  BY <1>1, <1>4 DEF Todo, Published, Holding
<1>6. \A d \in Callers : Threw(d)' = Threw(d)
  BY <1>1, <1>4 DEF Threw, Published, Holding
<1> QED
  BY <1>1, <1>3, <1>5, <1>6, Stutters

\* A call, alone or in the pool.
LEMMA StepCall ==
    ASSUME PoolInv, PoolInv', NEW c \in Callers, NEW r \in Requests[c], Call(c, r[1], r[2])
    PROVE  Abstract!Next
<1>1. /\ pc[c] = "idle" /\ pc'[c] \in {"serial", "lock"} /\ total'[c] = r[1] /\ idx'[c] = 0
      /\ outcome' = [outcome EXCEPT ![c] = "none"] /\ UNCHANGED <<task, nextIndex, failure>>
      /\ \A d \in Callers : d # c => /\ pc'[d] = pc[d] /\ total'[d] = total[d]
      /\ \A p \in Participants : p # c => pc'[p] = pc[p] /\ idx'[p] = idx[p]
  BY Sorts DEF PoolInv, Types, Call, poolVars
<1>2. r[1] \in Counts
  BY DEF Counts
<1>3. Running' = Running /\ c \notin Running
  BY <1>1 DEF Running
<1>4. \A d \in Callers : Exec(d)' = Exec(d)
  <2>1. {idx'[p] : p \in Running'} = {idx[p] : p \in Running}
    BY <1>1, <1>3 DEF Running
  <2> QED
    <3>1. \A d \in Callers : /\ pc'[d] = "serialRun" <=> pc[d] = "serialRun"
                             /\ pc[d] = "serialRun" => idx'[d] = idx[d]
      BY <1>1, Sorts
    <3>2. \A d \in Callers : ExecOf(d)' = ExecOf(d)
      BY <1>1, <2>1, <3>1 DEF ExecOf
    <3> QED
      BY <3>2, ExecIs, ExecIsNext DEF ExecRight
<1>5. \A d \in Callers : Threw(d)' = Threw(d)
  BY <1>1 DEF Threw, Published, Holding
<1>6. Todo(c)' = 0..(r[1] - 1)
  BY <1>1 DEF Todo
<1>7. \A d \in Callers : d # c => Todo(d)' = Todo(d)
  BY <1>1, Sorts DEF Todo
<1>8. \A d \in Callers :
         /\ Exec(d)' = Exec(d) /\ Threw(d)' = Threw(d)
         /\ d # c => (pc'[d] = "idle" <=> pc[d] = "idle") /\ Todo(d)' = Todo(d)
  BY <1>1, <1>4, <1>5, <1>7
<1>9. pc[c] = "idle" /\ pc'[c] # "idle" /\ outcome' = [outcome EXCEPT ![c] = "none"]
  BY <1>1
<1> QED
  BY <1>2, <1>6, <1>8, <1>9, Calls

\* A call that got no thread.
LEMMA StepMaterializeFails ==
    ASSUME PoolInv, PoolInv', NEW c \in Callers, MaterializeFails(c)
    PROVE  Abstract!Next
<1>1. /\ pc[c] = "ensure" /\ pc'[c] = "idle"
      /\ outcome' = [outcome EXCEPT ![c] = "failed"] /\ UNCHANGED <<task, nextIndex, failure>>
      /\ \A d \in Callers : d # c => pc'[d] = pc[d] /\ total'[d] = total[d]
      /\ \A p \in Participants : p # c => pc'[p] = pc[p] /\ idx'[p] = idx[p]
  BY Sorts DEF PoolInv, Types, MaterializeFails, Leave, poolVars
<1>2. idx[c] = 0 /\ total[c] \in Counts
  BY <1>1 DEF PoolInv, Prepared
<1>3. task = None /\ Running = {}
  BY <1>1, EnsureNoJob, NoJob
<1>5. \A d \in Callers : Exec(d)' = Exec(d)
  BY <1>1, <1>3, ExecIs, ExecIsNext, Sorts DEF ExecRight, ExecOf
<1>6. Exec(c) = {}
  BY <1>1, <1>3, ExecIs, Sorts DEF ExecRight, ExecOf
<1>7. \A d \in Callers : Threw(d)' = Threw(d) /\ ~Threw(c)
  BY <1>1 DEF Threw, Published, Holding
<1>8. Todo(c)' = {} /\ Todo(c) = 0..(total[c] - 1)
  BY <1>1, <1>2 DEF Todo, Published, Holding
<1>9. \A d \in Callers : d # c => Todo(d)' = Todo(d)
  BY <1>1, Sorts DEF Todo
<1> QED
  BY <1>1, <1>2, <1>5, <1>6, <1>7, <1>8, <1>9, Refuses

\* A caller that works alone: what it does to its own state.
LEMMA Lone ==
    ASSUME PoolInv, PoolInv', NEW c \in Callers,
           pc[c] \in {"serial", "serialRun", "serialFailed"},
           pc'[c] \in {"idle", "serial", "serialRun", "serialFailed"},
           UNCHANGED <<task, nextIndex, failure>>,
           \A d \in Callers : d # c => total'[d] = total[d],
           \A p \in Participants : p # c => pc'[p] = pc[p] /\ idx'[p] = idx[p]
    PROVE  /\ \A d \in Callers : d # c =>
                 /\ Exec(d)' = Exec(d) /\ Todo(d)' = Todo(d) /\ Threw(d)' = Threw(d)
                 /\ pc'[d] = "idle" <=> pc[d] = "idle"
           /\ Exec(c) = IF pc[c] = "serialRun" THEN {idx[c]} ELSE {}
           /\ Exec(c)' = IF pc'[c] = "serialRun" THEN {idx'[c]} ELSE {}
           /\ Threw(c) <=> pc[c] = "serialFailed"
           /\ Threw(c)' <=> pc'[c] = "serialFailed"
<1>1. task # c
  BY DEF PoolInv, Exclusion, Published, Holding
<1>2. \A d \in Callers : d # c => d \in Participants /\ pc'[d] = pc[d] /\ idx'[d] = idx[d]
  BY Sorts
<1>3. Running' = Running /\ c \notin Running
  BY DEF Running
<1>4. {idx'[p] : p \in Running'} = {idx[p] : p \in Running}
  BY <1>3 DEF Running
<1>5. \A d \in Callers : d # c => ExecOf(d)' = ExecOf(d)
  BY <1>2, <1>4 DEF ExecOf
<1>6. \A d \in Callers : d # c => Exec(d)' = Exec(d)
  BY <1>5, ExecIs, ExecIsNext DEF ExecRight
<1>7. \A d \in Callers : d # c => Todo(d)' = Todo(d) /\ Threw(d)' = Threw(d)
  BY <1>2 DEF Todo, Threw
<1>8. /\ Exec(c) = IF pc[c] = "serialRun" THEN {idx[c]} ELSE {}
      /\ Exec(c)' = IF pc'[c] = "serialRun" THEN {idx'[c]} ELSE {}
  BY <1>1, ExecIs, ExecIsNext DEF ExecRight, ExecOf
<1>9. /\ Threw(c) <=> pc[c] = "serialFailed"
      /\ Threw(c)' <=> pc'[c] = "serialFailed"
  BY DEF Threw, Published, Holding
<1> QED
  BY <1>2, <1>6, <1>7, <1>8, <1>9

LEMMA StepSerial ==
    ASSUME PoolInv, PoolInv', NEW c \in Callers, Serial(c)
    PROVE  Abstract!Next
<1>1. /\ pc[c] = "serial" /\ UNCHANGED <<task, nextIndex, failure>>
      /\ \A d \in Callers : d # c => total'[d] = total[d]
      /\ \A p \in Participants : p # c => pc'[p] = pc[p] /\ idx'[p] = idx[p]
      /\ idx[c] \in Nat /\ total[c] \in Nat /\ DOMAIN outcome = Callers
  BY Sorts DEF PoolInv, Types, Serial, Leave, poolVars, callVars
<1>2. CASE idx[c] < total[c]
  <2>1. pc'[c] = "serialRun" /\ idx'[c] = idx[c] /\ total'[c] = total[c] /\ outcome' = outcome
    BY <1>1, <1>2, Sorts DEF PoolInv, Types, Serial, callVars
  <2>2. Todo(c)' = Todo(c) \ {idx[c]} /\ idx[c] \in Todo(c)
    BY <1>1, <1>2, <2>1 DEF Todo
  <2>3. Exec(c)' = Exec(c) \cup {idx[c]} /\ Threw(c)' = Threw(c)
    <3>1. Exec(c) = {} /\ Exec(c)' = {idx'[c]} /\ ~Threw(c) /\ ~Threw(c)'
      BY <1>1, <2>1, Lone
    <3> QED
      BY <2>1, <3>1 DEF Threw
  <2>4. \A d \in Callers : d # c =>
           /\ Exec(d)' = Exec(d) /\ Todo(d)' = Todo(d) /\ Threw(d)' = Threw(d)
           /\ pc'[d] = "idle" <=> pc[d] = "idle"
    BY <1>1, <2>1, Lone
  <2> QED
    BY <1>1, <2>1, <2>2, <2>3, <2>4, Begins
<1>3. CASE idx[c] >= total[c]
  <2>1. pc'[c] = "idle" /\ outcome' = [outcome EXCEPT ![c] = "ok"]
    BY <1>1, <1>3, Sorts DEF PoolInv, Types, Serial, Leave
  <2>2. Todo(c)' = {} /\ Todo(c) = {}
    BY <1>1, <1>3, <2>1 DEF Todo, Published, Holding
  <2>3. Exec(c)' = {} /\ Exec(c) = {} /\ ~Threw(c) /\ ~Threw(c)'
    BY <1>1, <2>1, Lone
  <2>4. \A d \in Callers : d # c =>
           /\ Exec(d)' = Exec(d) /\ Todo(d)' = Todo(d) /\ Threw(d)' = Threw(d)
           /\ pc'[d] = "idle" <=> pc[d] = "idle"
    BY <1>1, <2>1, Lone
  <2> QED
    BY <1>1, <2>1, <2>2, <2>3, <2>4, Returns
<1> QED
  BY <1>1, <1>2, <1>3

LEMMA StepSerialRan ==
    ASSUME PoolInv, PoolInv', NEW c \in Callers, NEW throws \in BOOLEAN, SerialRan(c, throws)
    PROVE  Abstract!Next
<1>1. /\ pc[c] = "serialRun" /\ UNCHANGED <<task, nextIndex, failure, total, outcome>>
      /\ \A p \in Participants : p # c => pc'[p] = pc[p] /\ idx'[p] = idx[p]
      /\ idx[c] \in Nat /\ total[c] \in Nat
  BY Sorts DEF PoolInv, Types, SerialRan, poolVars, callVars
<1>2. \/ throws /\ pc'[c] = "serialFailed" /\ idx'[c] = idx[c]
      \/ ~throws /\ pc'[c] = "serial" /\ idx'[c] = idx[c] + 1
  BY Sorts DEF PoolInv, Types, SerialRan
<1>3. Todo(c)' = Todo(c)
  BY <1>1, <1>2 DEF Todo
<1>4. /\ Exec(c) = {idx[c]} /\ Exec(c)' = {} /\ (Threw(c)' <=> throws) /\ ~Threw(c)
      /\ \A d \in Callers : d # c =>
            /\ Exec(d)' = Exec(d) /\ Todo(d)' = Todo(d) /\ Threw(d)' = Threw(d)
            /\ pc'[d] = "idle" <=> pc[d] = "idle"
  BY <1>1, <1>2, Lone
<1>5. Threw(c)' = (Threw(c) \/ throws) /\ Exec(c)' = Exec(c) \ {idx[c]} /\ idx[c] \in Exec(c)
  BY <1>4 DEF Threw
<1> QED
  BY <1>1, <1>2, <1>3, <1>4, <1>5, Ends

LEMMA StepSerialLeaves ==
    ASSUME PoolInv, PoolInv', NEW c \in Callers, SerialLeaves(c)
    PROVE  Abstract!Next
<1>1. /\ pc[c] = "serialFailed" /\ pc'[c] = "idle" /\ UNCHANGED <<task, nextIndex, failure>>
      /\ outcome' = [outcome EXCEPT ![c] = "failed"] /\ DOMAIN outcome = Callers
      /\ \A d \in Callers : d # c => total'[d] = total[d]
      /\ \A p \in Participants : p # c => pc'[p] = pc[p] /\ idx'[p] = idx[p]
  BY Sorts DEF PoolInv, Types, SerialLeaves, Leave, poolVars
<1>2. /\ Exec(c) = {} /\ Exec(c)' = {} /\ Threw(c) /\ ~Threw(c)'
      /\ \A d \in Callers : d # c =>
            /\ Exec(d)' = Exec(d) /\ Todo(d)' = Todo(d) /\ Threw(d)' = Threw(d)
            /\ pc'[d] = "idle" <=> pc[d] = "idle"
  BY <1>1, Lone
<1>3. Todo(c)' = {}
  BY <1>1 DEF Todo, Published, Holding
<1> QED
  BY <1>1, <1>2, <1>3, Returns

\* Handing out an index of the published job.
LEMMA StepClaim ==
    ASSUME PoolInv, PoolInv', NEW q \in Participants, Claim(q)
    PROVE  Abstract!Next \/ UNCHANGED Abstract!vars
<1>1. /\ pc[q] = "claim" /\ nextIndex' = nextIndex + 1 /\ nextIndex \in Nat /\ taskCount \in Nat
      /\ UNCHANGED <<task, failure, total, outcome>>
      /\ \A p \in Participants : p # q => pc'[p] = pc[p] /\ idx'[p] = idx[p]
  BY DEF PoolInv, Types, Claim, callVars
<1>2. /\ task \in Callers /\ (q \in Callers => task = q)
      /\ pc[task] \in Published /\ taskCount = total[task]
      /\ \A d \in Callers : d # task => pc[d] \notin Published
  <2>1. task \in Callers /\ (q \in Callers => task = q)
    BY <1>1, HasJob DEF Working
  <2> QED
    BY <2>1 DEF PoolInv, Exclusion
<1>3. \A d \in Callers : \/ pc'[d] = pc[d]
                         \/ d = task /\ pc'[d] \in Published /\ pc[d] \in Published
  BY <1>1, <1>2, Sorts DEF PoolInv, Exclusion
<1>4. CASE nextIndex >= taskCount
  <2>1. idx' = idx /\ pc'[q] \notin {"run", "catch"}
    BY <1>1, <1>4 DEF Claim, PoolInv, Types
  <2>2. Running' = Running
    BY <1>1, <2>1 DEF Running
  <2> QED
    BY <1>1, <1>3, <1>4, <2>1, <2>2, Unseen
<1>5. CASE nextIndex < taskCount
  <2>1. idx'[q] = nextIndex /\ pc'[q] = "run"
    BY <1>1, <1>5 DEF Claim, PoolInv, Types
  <2>2. Running' = Running \cup {q} /\ q \notin Running
    BY <1>1, <2>1 DEF Running
  <2>3. {idx'[p] : p \in Running'} = {idx[p] : p \in Running} \cup {nextIndex}
    BY <1>1, <2>1, <2>2 DEF Running
  <2>4. Exec(task)' = Exec(task) \cup {nextIndex}
    BY <1>1, <1>2, <2>3, ExecIs, ExecIsNext DEF ExecRight, ExecOf
  <2>5. \A d \in Callers : d # task => Exec(d)' = Exec(d)
    <3>1. \A d \in Callers : d # task => d # q /\ pc'[d] = pc[d] /\ idx'[d] = idx[d]
      BY <1>1, <1>2, Sorts
    <3> QED
      BY <1>1, <3>1, ExecIs, ExecIsNext DEF ExecRight, ExecOf
  <2>6. Todo(task)' = Todo(task) \ {nextIndex} /\ nextIndex \in Todo(task)
    <3>1. Todo(task) = nextIndex..(taskCount - 1)
      BY <1>2 DEF Todo, Published, Holding
    <3>2. Todo(task)' = (nextIndex + 1)..(taskCount - 1)
      BY <1>1, <1>2, <1>3 DEF Todo, Published, Holding
    <3> QED
      BY <1>1, <1>5, <3>1, <3>2
  <2>7. \A d \in Callers : d # task => Todo(d)' = Todo(d)
    <3>1. \A d \in Callers : d # task => d # q /\ pc'[d] = pc[d] /\ idx'[d] = idx[d]
      BY <1>1, <1>2, Sorts
    <3> QED
      BY <1>1, <1>2, <3>1 DEF Todo
  <2>8. \A d \in Callers : Threw(d)' = Threw(d)
    BY <1>1, <1>3 DEF Threw, Published, Holding
  <2>9. \A d \in Callers : pc'[d] = "idle" <=> pc[d] = "idle"
    BY <1>3 DEF Published, Holding
  <2> QED
    BY <1>1, <1>2, <2>4, <2>5, <2>6, <2>7, <2>8, <2>9, Begins DEF Published, Holding
<1> QED
  BY <1>1, <1>4, <1>5

\* The end of an application of fn: its index was that of q alone.
LEMMA Finished ==
    ASSUME PoolInv, PoolInv', NEW q \in Participants, NEW throws \in BOOLEAN, q \in Running,
           UNCHANGED <<task, nextIndex, total, outcome>>, pc'[q] = "claim",
           \A p \in Participants : p # q => pc'[p] = pc[p] /\ idx'[p] = idx[p],
           failure' = (failure \/ throws)
    PROVE  Abstract!Next
<1>1. /\ task \in Callers /\ (q \in Callers => task = q)
      /\ pc[task] \in Published
      /\ \A d \in Callers : d # task => pc[d] \notin Published
  <2>1. pc[q] \in Working
    BY DEF Running, Working
  <2>2. task \in Callers /\ (q \in Callers => task = q)
    BY <2>1, HasJob
  <2> QED
    BY <2>2 DEF PoolInv, Exclusion
<1>2. \A d \in Callers : \/ d # q /\ pc'[d] = pc[d] /\ idx'[d] = idx[d]
                         \/ d = task /\ pc'[d] \in Published /\ pc[d] \in Published
  BY <1>1, Sorts DEF PoolInv, Exclusion, Published, Holding
<1>3. Running' = Running \ {q}
  BY DEF Running
<1>4. {idx'[p] : p \in Running'} = {idx[p] : p \in Running} \ {idx[q]}
  <2>1. \A p \in Running : p # q => idx'[p] = idx[p] /\ idx[p] # idx[q]
    BY DEF PoolInv, Claimed, Running
  <2> QED
    BY <1>3, <2>1
<1>5. Exec(task)' = Exec(task) \ {idx[q]} /\ idx[q] \in Exec(task)
  <2>1. Exec(task) = {idx[p] : p \in Running} /\ Exec(task)' = {idx'[p] : p \in Running'}
    BY <1>1, ExecIs, ExecIsNext DEF ExecRight, ExecOf
  <2> QED
    BY <1>4, <2>1
<1>6. \A d \in Callers : d # task => Exec(d)' = Exec(d)
  BY <1>2, ExecIs, ExecIsNext DEF ExecRight, ExecOf
<1>7. \A d \in Callers : Todo(d)' = Todo(d)
  BY <1>2 DEF Todo, Published, Holding
<1>8. Threw(task)' = (Threw(task) \/ throws)
  <2>1. pc'[task] \in Published /\ pc[task] # "serialFailed" /\ pc'[task] # "serialFailed"
    BY <1>1, <1>2 DEF Published, Holding
  <2> QED
    BY <1>1, <2>1 DEF Threw, PoolInv, Types
<1>9. \A d \in Callers : d # task => Threw(d)' = Threw(d)
  BY <1>1, <1>2 DEF Threw
<1>10. \A d \in Callers : pc'[d] = "idle" <=> pc[d] = "idle"
  BY <1>2 DEF Published, Holding
<1> QED
  BY <1>1, <1>5, <1>6, <1>7, <1>8, <1>9, <1>10, Ends

LEMMA StepRan ==
    ASSUME PoolInv, PoolInv', NEW q \in Participants, NEW throws \in BOOLEAN, Ran(q, throws)
    PROVE  Abstract!Next \/ UNCHANGED Abstract!vars
<1>1. /\ pc[q] = "run" /\ UNCHANGED <<task, nextIndex, total, outcome, failure>>
      /\ q \in Running
      /\ \A p \in Participants : p # q => pc'[p] = pc[p] /\ idx'[p] = idx[p]
  BY DEF PoolInv, Types, Ran, poolVars, callVars, Running
<1>2. CASE throws
  <2>1. idx' = idx /\ pc'[q] = "catch"
    BY <1>1, <1>2 DEF PoolInv, Types, Ran
  <2>2. Running' = Running
    BY <1>1, <2>1 DEF Running
  <2>3. \A d \in Callers : \/ pc'[d] = pc[d]
                           \/ pc'[d] \in Published /\ pc[d] \in Published
    BY <1>1, <2>1, Sorts DEF Published, Holding
  <2> QED
    BY <1>1, <2>1, <2>2, <2>3, Unseen
<1>3. CASE ~throws
  <2>1. pc'[q] = "claim"
    BY <1>1, <1>3 DEF PoolInv, Types, Ran
  <2>2. failure' = (failure \/ FALSE)
    BY <1>1 DEF PoolInv, Types
  <2> QED
    BY <1>1, <2>1, <2>2, Finished
<1> QED
  BY <1>2, <1>3

LEMMA StepCatch ==
    ASSUME PoolInv, PoolInv', NEW q \in Participants, Catch(q)
    PROVE  Abstract!Next
<1>1. /\ pc[q] = "catch" /\ UNCHANGED <<task, nextIndex, total, outcome>>
      /\ q \in Running /\ pc'[q] = "claim"
      /\ \A p \in Participants : p # q => pc'[p] = pc[p] /\ idx'[p] = idx[p]
  BY DEF PoolInv, Types, Catch, callVars, Running
<1>2. failure' = (failure \/ TRUE)
  BY DEF Catch
<1> QED
  BY <1>1, <1>2, Finished

\* The caller returns once every worker it has activated has reported.
LEMMA StepJoinReturns ==
    ASSUME PoolInv, PoolInv', NEW c \in Callers, pending = 0, Join(c)
    PROVE  Abstract!Next
<1>1. /\ pc[c] = "join" /\ pc'[c] = "idle" /\ task' = None /\ UNCHANGED <<nextIndex, failure>>
      /\ outcome' = [outcome EXCEPT ![c] = IF failure THEN "failed" ELSE "ok"]
      /\ DOMAIN outcome = Callers
      /\ \A d \in Callers : d # c => total'[d] = total[d] /\ pc'[d] = pc[d] /\ idx'[d] = idx[d]
      /\ \A p \in Participants : p # c => pc'[p] = pc[p]
  BY Sorts DEF PoolInv, Types, Join, Leave
<1>2. /\ task = c /\ taskCount = total[c] /\ nextIndex >= taskCount
      /\ taskCount \in Nat /\ nextIndex \in Nat
      /\ \A d \in Callers : d # c => pc[d] \notin Published
  BY <1>1 DEF PoolInv, Types, Exclusion, Published, Holding
<1>3. Running = {}
  <2>1. \A w \in Workers : pc[w] \notin Working
    BY OwingFinite DEF PoolInv, Counted, Owing
  <2>2. \A d \in Callers : pc[d] \notin {"run", "catch"}
    BY <1>1, <1>2 DEF Published, Holding
  <2> QED
    BY <2>1, <2>2, Sorts DEF Running, Working
<1>5. \A d \in Callers : Exec(d)' = Exec(d) /\ Exec(c) = {}
  BY <1>1, <1>2, <1>3, ExecIs, ExecIsNext, Sorts DEF ExecRight, ExecOf
<1>6. Todo(c)' = {} /\ Todo(c) = {}
  BY <1>1, <1>2 DEF Todo, Published, Holding
<1>7. (Threw(c) <=> failure) /\ ~Threw(c)'
  BY <1>1 DEF Threw, Published, Holding
<1>8. \A d \in Callers : d # c => Todo(d)' = Todo(d) /\ Threw(d)' = Threw(d)
  BY <1>1, <1>2 DEF Todo, Threw
<1>9. \/ Threw(c) /\ outcome' = [outcome EXCEPT ![c] = "failed"]
      \/ ~Threw(c) /\ Todo(c) = {} /\ outcome' = [outcome EXCEPT ![c] = "ok"]
  BY <1>1, <1>6, <1>7
<1> QED
  BY <1>1, <1>5, <1>6, <1>7, <1>8, <1>9, Returns

-----------------------------------------------------------------------------
\* Initial states map to initial states.
LEMMA InitRefines == Init => Abstract!Init
<1> SUFFICES ASSUME Init PROVE Abstract!Init
  OBVIOUS
<1>1. PoolInv /\ task = None /\ \A c \in Callers : pc[c] = "idle"
  BY PoolInit, Sorts DEF Init
<1>2. \A c \in Callers : Exec(c) = {}
  BY <1>1, ExecIs, Sorts DEF ExecRight, ExecOf
<1>3. \A c \in Callers : Todo(c) = {} /\ Threw(c) = FALSE
  BY <1>1 DEF Todo, Threw, Published, Holding
<1> QED
  BY <1>1, <1>2, <1>3 DEF Init, Abstract!Init

\* Every step maps to a step of ParallelFor or leaves it alone.
LEMMA NextRefines ==
    ASSUME PoolInv, PoolInv', [Next]_vars
    PROVE  Abstract!Next \/ UNCHANGED Abstract!vars
<1>1. CASE UNCHANGED <<poolVars, pc, idx, job, callVars>>
  <2>1. Running' = Running
    BY <1>1 DEF Running
  <2> QED
    BY <1>1, <2>1, Unseen DEF poolVars, callVars
<1>2. ASSUME NEW c \in Callers, Join(c) PROVE Abstract!Next \/ UNCHANGED Abstract!vars
  <2>1. pending = 0 \/ pending > 0
    BY DEF PoolInv, Types
  <2> QED
    BY <1>2, <2>1, StepJoinSleeps, StepJoinReturns
<1>3. CASE \E c \in Callers : CallerStep(c)
  BY <1>2, <1>3, StepSerial, StepSerialRan, StepSerialLeaves, StepLock, StepMaterialize,
     StepMaterializeFails, StepPublish, StepNotifyWork DEF CallerStep
<1>4. CASE \E w \in Workers : WorkerStep(w)
  BY <1>4, StepWorkerStarts, StepWorkerCheck, StepFinish DEF WorkerStep
<1>5. CASE \E p \in Participants : TaskStep(p)
  BY <1>5, StepClaim, StepRan, StepCatch DEF TaskStep
<1>6. CASE Destroy \/ Destroyed \/ UNCHANGED vars
  BY <1>1, <1>6 DEF Destroy, Destroyed, vars
<1> QED
  BY <1>3, <1>4, <1>5, <1>6, StepCall, StepSpuriousWake, StepNotifyStop DEF Next

\* parallelFor keeps its promise for any number of callers, workers, indices and calls: every
\* index at most once, none before the call or after its return, all of them unless fn has
\* thrown, and the exception of a job reaches its own caller only (ThreadPool.hpp).
THEOREM PoolImplementsParallelFor == Spec => RefinesParallelFor
<1>1. Spec => []PoolInv
  BY PoolInit, PoolNext, PTL DEF Spec
<1>2. PoolInv /\ PoolInv' /\ [Next]_vars => [Abstract!Next]_(Abstract!vars)
  BY NextRefines
<1> QED
  BY <1>1, <1>2, InitRefines, PTL DEF Spec, RefinesParallelFor, Abstract!Spec
=============================================================================
