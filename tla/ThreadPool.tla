----------------------------- MODULE ThreadPool -----------------------------
(***************************************************************************)
(* The pool that solves circuit groups in parallel                          *)
(* (core/src/simulation/ThreadPool.hpp).  A caller publishes a job, takes   *)
(* part in it and waits for the workers it has activated; workers are       *)
(* created when a job first needs them and sleep on m_work between jobs.    *)
(*                                                                         *)
(* Sections under m_mutex are single steps, fetch_add on m_nextIndex is a   *)
(* step, and applying fn takes two (begin and end), so that everything else *)
(* may happen in between.  Generations are relative: fresh[w] says that     *)
(* m_generation differs from what worker w has observed.                    *)
(***************************************************************************)
EXTENDS Integers

CONSTANTS
    Callers,        \* threads that call parallelFor
    None,           \* no caller
    MaxWorkers,     \* m_maxWorkerThreads
    Requests,       \* Requests[c]: the calls c makes, <<count, parallelTasks>>
    SpawnMayFail    \* std::thread's constructor may throw

ASSUME CallersAssumption == None \notin Callers /\ Callers \cap Nat = {}
ASSUME SizesAssumption ==
    /\ MaxWorkers \in Nat
    /\ \A c \in Callers : Requests[c] \subseteq (Nat \ {0}) \X Nat
ASSUME SpawnAssumption == SpawnMayFail \in BOOLEAN

VARIABLES
    task,           \* whose fn is m_task, None: it is empty
    taskCount,      \* m_taskCount
    nextIndex,      \* m_nextIndex
    pending,        \* m_workersPending
    active,         \* m_activeWorkers
    failure,        \* m_failure is set
    invocation,     \* who holds m_invocationMutex
    life,           \* the pool: "alive", "stopping", "notified", "dead"
    materialized,   \* m_workers.size()
    fresh,          \* fresh[w]: m_generation # observedGeneration
    pc,             \* pc[p]: where caller or worker p is
    idx,            \* idx[p]: the index p works on
    job,            \* job[p]: whose fn p applies
    total,          \* total[c]: the argument count of c's call
    participants,   \* participants[c]
    outcome         \* outcome[c]: how c's last call has ended

poolVars == <<task, taskCount, nextIndex, pending, active, failure>>
callVars == <<total, participants, outcome>>
vars == <<poolVars, invocation, life, materialized, fresh, pc, idx, job,
          callVars>>

Workers == 1..MaxWorkers
Participants == Callers \cup Workers

MinOf(a, b) == IF a <= b THEN a ELSE b

Init ==
    /\ task = None
    /\ taskCount = 0
    /\ nextIndex = 0
    /\ pending = 0
    /\ active = 0
    /\ failure = FALSE
    /\ invocation = None
    /\ life = "alive"
    /\ materialized = 0
    /\ fresh = [w \in Workers |-> FALSE]
    /\ pc = [p \in Participants |-> IF p \in Callers THEN "idle" ELSE "none"]
    /\ idx = [p \in Participants |-> 0]
    /\ job = [p \in Participants |-> None]
    /\ total = [c \in Callers |-> 0]
    /\ participants = [c \in Callers |-> 0]
    /\ outcome = [c \in Callers |-> "none"]

-----------------------------------------------------------------------------
\* parallelFor up to the publication of the job.

Granted(n, k) == MinOf(MinOf(n, k), MaxWorkers + 1)

\* Few indices, or a grant of one: the caller does it alone.  A call with
\* nothing to do returns at once and is left out.
Call(c, n, k) ==
    /\ pc[c] = "idle"
    /\ life = "alive"
    /\ total' = [total EXCEPT ![c] = n]
    /\ participants' = [participants EXCEPT ![c] = Granted(n, k)]
    /\ outcome' = [outcome EXCEPT ![c] = "none"]
    /\ pc' = [pc EXCEPT ![c] = IF Granted(n, k) <= 1 THEN "serial" ELSE "lock"]
    /\ idx' = [idx EXCEPT ![c] = 0]
    /\ UNCHANGED <<poolVars, invocation, life, materialized, fresh, job>>

\* The end of a call, for the local state of c.
Leave(c, result) ==
    /\ outcome' = [outcome EXCEPT ![c] = result]
    /\ total' = [total EXCEPT ![c] = 0]
    /\ participants' = [participants EXCEPT ![c] = 0]
    /\ idx' = [idx EXCEPT ![c] = 0]

Serial(c) ==
    /\ pc[c] = "serial"
    /\ \/ /\ idx[c] < total[c]
          /\ pc' = [pc EXCEPT ![c] = "serialRun"]
          /\ UNCHANGED <<idx, callVars>>
       \/ /\ idx[c] >= total[c]
          /\ pc' = [pc EXCEPT ![c] = "idle"]
          /\ Leave(c, "ok")
    /\ UNCHANGED <<poolVars, invocation, life, materialized, fresh, job>>

\* An exception leaves the loop and the rest of the indices.
SerialRan(c, throws) ==
    /\ pc[c] = "serialRun"
    /\ \/ /\ ~throws
          /\ idx' = [idx EXCEPT ![c] = @ + 1]
          /\ pc' = [pc EXCEPT ![c] = "serial"]
          /\ UNCHANGED callVars
       \/ /\ throws
          /\ pc' = [pc EXCEPT ![c] = "serialFailed"]
          /\ UNCHANGED <<idx, callVars>>
    /\ UNCHANGED <<poolVars, invocation, life, materialized, fresh, job>>

SerialLeaves(c) ==
    /\ pc[c] = "serialFailed"
    /\ pc' = [pc EXCEPT ![c] = "idle"]
    /\ Leave(c, "failed")
    /\ UNCHANGED <<poolVars, invocation, life, materialized, fresh, job>>

Lock(c) ==
    /\ pc[c] = "lock"
    /\ invocation = None
    /\ invocation' = c
    /\ pc' = [pc EXCEPT ![c] = "ensure"]
    /\ UNCHANGED <<poolVars, life, materialized, fresh, idx, job, callVars>>

\* ensureWorkers: the generation the thread starts from is captured here.
Materialize(c) ==
    /\ pc[c] = "ensure"
    /\ materialized < participants[c] - 1
    /\ materialized' = materialized + 1
    /\ fresh' = [fresh EXCEPT ![materialized + 1] = FALSE]
    /\ pc' = [pc EXCEPT ![materialized + 1] = "starting"]
    /\ UNCHANGED <<poolVars, invocation, life, idx, job, callVars>>

MaterializeFails(c) ==
    /\ SpawnMayFail
    /\ pc[c] = "ensure"
    /\ materialized < participants[c] - 1
    /\ pc' = [pc EXCEPT ![c] = "idle"]
    /\ Leave(c, "failed")
    /\ invocation' = None
    /\ UNCHANGED <<poolVars, life, materialized, fresh, job>>

\* Mutant: the failure of the previous job is not cleared.
MutPublish(c) ==
    /\ pc[c] = "ensure"
    /\ materialized >= participants[c] - 1
    /\ task' = c
    /\ taskCount' = total[c]
    /\ nextIndex' = 0
    /\ active' = participants[c] - 1
    /\ pending' = participants[c] - 1
    /\ fresh' = [w \in Workers |-> TRUE]
    /\ pc' = [pc EXCEPT ![c] = "notify"]
    /\ UNCHANGED <<failure, invocation, life, materialized, idx, job, callVars>>

Publish(c) ==
    /\ pc[c] = "ensure"
    /\ materialized >= participants[c] - 1
    /\ task' = c
    /\ taskCount' = total[c]
    /\ nextIndex' = 0
    /\ active' = participants[c] - 1
    /\ pending' = participants[c] - 1
    /\ failure' = FALSE
    /\ fresh' = [w \in Workers |-> TRUE]
    /\ pc' = [pc EXCEPT ![c] = "notify"]
    /\ UNCHANGED <<invocation, life, materialized, idx, job, callVars>>

\* Sleeping workers look at their predicate again.
Woken(p) == IF p \in Workers /\ pc[p] = "asleep" THEN "check" ELSE pc[p]

NotifyWork(c) ==
    /\ pc[c] = "notify"
    /\ pc' = [p \in Participants |-> IF p = c THEN "claim" ELSE Woken(p)]
    /\ UNCHANGED <<poolVars, invocation, life, materialized, fresh, idx, job,
                   callVars>>

-----------------------------------------------------------------------------
\* runPublishedTask, for the caller and for its workers.

Claim(p) ==
    /\ pc[p] = "claim"
    /\ nextIndex' = nextIndex + 1
    /\ \/ /\ nextIndex < taskCount
          /\ idx' = [idx EXCEPT ![p] = nextIndex]
          /\ job' = [job EXCEPT ![p] = task]
          /\ pc' = [pc EXCEPT ![p] = "run"]
       \/ /\ nextIndex >= taskCount
          /\ pc' = [pc EXCEPT ![p] = IF p \in Callers THEN "join" ELSE "finish"]
          /\ UNCHANGED <<idx, job>>
    /\ UNCHANGED <<task, taskCount, pending, active, failure, invocation, life,
                   materialized, fresh, callVars>>

Ran(p, throws) ==
    /\ pc[p] = "run"
    /\ pc' = [pc EXCEPT ![p] = IF throws THEN "catch" ELSE "claim"]
    /\ idx' = IF throws THEN idx ELSE [idx EXCEPT ![p] = 0]
    /\ job' = IF throws THEN job ELSE [job EXCEPT ![p] = None]
    /\ UNCHANGED <<poolVars, invocation, life, materialized, fresh, callVars>>

Catch(p) ==
    /\ pc[p] = "catch"
    /\ failure' = TRUE
    /\ pc' = [pc EXCEPT ![p] = "claim"]
    /\ idx' = [idx EXCEPT ![p] = 0]
    /\ job' = [job EXCEPT ![p] = None]
    /\ UNCHANGED <<task, taskCount, nextIndex, pending, active, invocation,
                   life, materialized, fresh, callVars>>

\* The caller waits for the workers it has activated, and returns.
Join(c) ==
    /\ pc[c] = "join"
    /\ \/ /\ pending > 0
          /\ pc' = [pc EXCEPT ![c] = "asleep"]
          /\ UNCHANGED <<task, invocation, idx, callVars>>
       \/ /\ pending = 0
          /\ task' = None
          /\ invocation' = None
          /\ pc' = [pc EXCEPT ![c] = "idle"]
          /\ Leave(c, IF failure THEN "failed" ELSE "ok")
    /\ UNCHANGED <<taskCount, nextIndex, pending, active, failure, life,
                   materialized, fresh, job>>

-----------------------------------------------------------------------------
\* workerLoop.

WorkerStarts(w) ==
    /\ pc[w] = "starting"
    /\ pc' = [pc EXCEPT ![w] = "check"]
    /\ UNCHANGED <<poolVars, invocation, life, materialized, fresh, idx, job,
                   callVars>>

TakesPart(w) == w <= active

\* The predicate of m_work.wait, under m_mutex.
WorkerCheck(w) ==
    /\ pc[w] = "check"
    /\ \/ /\ life # "alive"
          /\ pc' = [pc EXCEPT ![w] = "exited"]
          /\ UNCHANGED fresh
       \/ /\ life = "alive" /\ fresh[w]
          /\ fresh' = [fresh EXCEPT ![w] = FALSE]
          /\ pc' = [pc EXCEPT ![w] = IF TakesPart(w) THEN "claim" ELSE "check"]
       \/ /\ life = "alive" /\ ~fresh[w]
          /\ pc' = [pc EXCEPT ![w] = "asleep"]
          /\ UNCHANGED fresh
    /\ UNCHANGED <<poolVars, invocation, life, materialized, idx, job, callVars>>

\* Mutant: the last worker does not notify the caller.
MutDoneNotified(p) == pc[p]

\* m_done.notify_one by the last worker.
DoneNotified(p) ==
    IF pending = 1 /\ p \in Callers /\ pc[p] = "asleep" THEN "join" ELSE pc[p]

Finish(w) ==
    /\ pc[w] = "finish"
    /\ pending' = pending - 1
    /\ pc' = [p \in Participants |-> IF p = w THEN "check" ELSE DoneNotified(p)]
    /\ UNCHANGED <<task, taskCount, nextIndex, active, failure, invocation,
                   life, materialized, fresh, idx, job, callVars>>

\* A wait may return for no reason.
SpuriousWake(p) ==
    /\ pc[p] = "asleep"
    /\ pc' = [pc EXCEPT ![p] = IF p \in Callers THEN "join" ELSE "check"]
    /\ UNCHANGED <<poolVars, invocation, life, materialized, fresh, idx, job,
                   callVars>>

-----------------------------------------------------------------------------
\* The destructor; nobody is inside parallelFor then.
Destroy ==
    /\ life = "alive"
    /\ \A c \in Callers : pc[c] = "idle"
    /\ life' = "stopping"
    /\ UNCHANGED <<poolVars, invocation, materialized, fresh, pc, idx, job,
                   callVars>>

\* Mutant: the destructor does not notify the workers.
MutNotifyStop ==
    /\ life = "stopping"
    /\ life' = "notified"
    /\ UNCHANGED <<poolVars, invocation, materialized, fresh, pc, idx, job,
                   callVars>>

NotifyStop ==
    /\ life = "stopping"
    /\ life' = "notified"
    /\ pc' = [p \in Participants |-> Woken(p)]
    /\ UNCHANGED <<poolVars, invocation, materialized, fresh, idx, job, callVars>>

Destroyed ==
    /\ life = "notified"
    /\ \A w \in Workers : pc[w] \in {"none", "exited"}
    /\ life' = "dead"
    /\ UNCHANGED <<poolVars, invocation, materialized, fresh, pc, idx, job,
                   callVars>>

-----------------------------------------------------------------------------
\* What caller c does once it has called parallelFor.
CallerStep(c) ==
    \/ Serial(c)
    \/ \E throws \in BOOLEAN : SerialRan(c, throws)
    \/ SerialLeaves(c)
    \/ Lock(c)
    \/ Materialize(c)
    \/ MaterializeFails(c)
    \/ Publish(c)
    \/ NotifyWork(c)
    \/ Join(c)

WorkerStep(w) == WorkerStarts(w) \/ WorkerCheck(w) \/ Finish(w)

TaskStep(p) ==
    \/ Claim(p)
    \/ \E throws \in BOOLEAN : Ran(p, throws)
    \/ Catch(p)

Next ==
    \/ \E c \in Callers : \E r \in Requests[c] : Call(c, r[1], r[2])
    \/ \E c \in Callers : CallerStep(c)
    \/ \E w \in Workers : WorkerStep(w)
    \/ \E p \in Participants : TaskStep(p)
    \/ \E p \in Participants : SpuriousWake(p)
    \/ Destroy
    \/ NotifyStop
    \/ Destroyed

Spec == Init /\ [][Next]_vars

\* Threads run, fn returns or throws, and the invocation mutex is not withheld
\* for ever from a caller that waits for it.  Nobody need call or destroy.
FairSpec ==
    /\ Spec
    /\ \A c \in Callers : SF_vars(CallerStep(c))
    /\ \A w \in Workers : WF_vars(WorkerStep(w))
    /\ \A p \in Participants : WF_vars(TaskStep(p))
    /\ WF_vars(NotifyStop) /\ WF_vars(Destroyed)

-----------------------------------------------------------------------------
\* Where a caller holds m_invocationMutex, and where its job is published.
Holding == {"ensure", "notify", "claim", "run", "catch", "join", "asleep"}
Published == Holding \ {"ensure"}

\* Every call returns, also when fn throws, whoever else uses the pool.
CallReturns == \A c \in Callers : pc[c] # "idle" ~> pc[c] = "idle"

\* The destructor gets every worker to exit, whenever it was created or woken.
DestructorReturns == life = "stopping" ~> life = "dead"

-----------------------------------------------------------------------------
\* The abstract state of module ParallelFor.

Todo(c) ==
    IF pc[c] \in {"serial", "lock", "ensure"} THEN idx[c]..(total[c] - 1)
    ELSE IF pc[c] \in {"serialRun", "serialFailed"} THEN (idx[c] + 1)..(total[c] - 1)
    ELSE IF pc[c] \in Published THEN nextIndex..(total[c] - 1)
    ELSE {}

Exec(c) ==
    {idx[p] : p \in {q \in Participants : pc[q] \in {"run", "catch"} /\ job[q] = c}}
        \cup (IF pc[c] = "serialRun" THEN {idx[c]} ELSE {})

Threw(c) == pc[c] = "serialFailed" \/ (pc[c] \in Published /\ failure)

\* parallelFor keeps the promise of ParallelFor: each index at most once, nothing
\* before the call or after the return, all of them if it succeeds, and an
\* exception of fn reaches the caller of that job and nobody else.
Abstract == INSTANCE ParallelFor WITH
    Counts <- {r[1] : r \in UNION {Requests[c] : c \in Callers}},
    busy <- [c \in Callers |-> pc[c] # "idle"],
    todo <- [c \in Callers |-> Todo(c)],
    exec <- [c \in Callers |-> Exec(c)],
    threw <- [c \in Callers |-> Threw(c)]

RefinesParallelFor == Abstract!Spec
=============================================================================
