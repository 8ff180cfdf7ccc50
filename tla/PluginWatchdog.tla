---------------------------- MODULE PluginWatchdog ----------------------------
(***************************************************************************)
(* Calls into a native plugin that may crash or never return: the reserved  *)
(* thread of PluginWatchdog (core/src/plugins/PluginWatchdog.hpp) and the    *)
(* two proxies that use it.  A device (NativeDeviceProxy) keeps one watchdog *)
(* for its post_step and calls the rest of the plugin directly; an MCU       *)
(* adapter (NativeMcuAdapterProxy, once it is constructed) takes a watchdog   *)
(* of its own for each call; it has no mutex and one user.                   *)
(*                                                                         *)
(* Thread k is the k-th one that start() creates, with the State it shares   *)
(* with the watchdog; m_state and m_worker are `current'.  busy[k] stands for*)
(* finished # posted.  A section under State::mutex is one step.  A plugin   *)
(* call takes two, and nothing says that the second one ever happens.        *)
(***************************************************************************)
EXTENDS Integers, FiniteSets

CONSTANTS
    Hosts,          \* threads of the Core that use the proxy
    None,           \* no thread
    Proxy,          \* "device" or "adapter"
    MaxTimeouts,    \* kMaxConsecutiveTimeouts
    SpawnMayFail,   \* std::thread's constructor may throw
    MaxThreads      \* bound: number of threads created

ASSUME HostsAssumption == None \notin Hosts
ASSUME ProxyAssumption == Proxy \in {"device", "adapter"}
ASSUME LimitsAssumption == MaxTimeouts \in Nat \ {0} /\ MaxThreads \in Nat
ASSUME SpawnAssumption == SpawnMayFail \in BOOLEAN

VARIABLES
    timed,          \* stepTimeoutMs # 0
    life,           \* the proxy: "alive", "dying" in its destructor, "dead"
    health,         \* m_health
    timeouts,       \* m_consecutiveTimeouts
    owner,          \* who holds m_deviceMutex; for an adapter, its user
    current,        \* the thread of m_worker, 0: it is not joinable
    started,        \* number of threads created
    busy,           \* busy[k]: state.finished # state.posted
    stop,           \* stop[k]: state.stop
    crashed,        \* crashed[k]: state.crashed
    tpc,            \* tpc[k]: where thread k is
    hpc,            \* hpc[h]: where host h is
    outcome,        \* the WatchdogOutcome run() is about to return
    joins,          \* shutdown() found the thread idle
    \* Ghost state: it is never read by an action.
    posted,         \* posted[k]: whose call state.job is
    doing,          \* doing[k]: whose call thread k executes
    did             \* what became of the present call: "no", "ok", "crash"

proxyVars == <<timed, life, health, timeouts, owner>>
stateVars == <<busy, stop, crashed>>
ghostVars == <<posted, doing, did>>
vars == <<proxyVars, current, started, stateVars, tpc, hpc, outcome, joins,
          ghostVars>>

ThreadIds == 1..MaxThreads

Init ==
    /\ timed \in (IF Proxy = "device" THEN BOOLEAN ELSE {TRUE})
    /\ life = "alive"
    /\ health = "ok"
    /\ timeouts = 0
    /\ owner = None
    /\ current = 0
    /\ started = 0
    /\ busy = [k \in ThreadIds |-> FALSE]
    /\ stop = [k \in ThreadIds |-> FALSE]
    /\ crashed = [k \in ThreadIds |-> FALSE]
    /\ tpc = [k \in ThreadIds |-> "none"]
    /\ hpc = [h \in Hosts |-> "idle"]
    /\ outcome = "none"
    /\ joins = FALSE
    /\ posted = [k \in ThreadIds |-> "none"]
    /\ doing = [k \in ThreadIds |-> "none"]
    /\ did = "no"

-----------------------------------------------------------------------------
\* The reserved thread.

\* wake.wait with its predicate, under the mutex: leave, take the job, or sleep.
ThreadCheck(k) ==
    /\ tpc[k] = "check"
    /\ \/ /\ stop[k]
          /\ tpc' = [tpc EXCEPT ![k] = "exited"]
          /\ UNCHANGED doing
       \/ /\ ~stop[k] /\ busy[k]
          /\ tpc' = [tpc EXCEPT ![k] = "taken"]
          /\ doing' = [doing EXCEPT ![k] = posted[k]]
       \/ /\ ~stop[k] /\ ~busy[k]
          /\ tpc' = [tpc EXCEPT ![k] = "asleep"]
          /\ UNCHANGED doing
    /\ UNCHANGED <<proxyVars, current, started, stateVars, hpc, outcome, joins,
                   posted, did>>

\* CrashGuard::call enters the plugin.
ThreadEnters(k) ==
    /\ tpc[k] = "taken"
    /\ tpc' = [tpc EXCEPT ![k] = "inside"]
    /\ UNCHANGED <<proxyVars, current, started, stateVars, hpc, outcome, joins,
                   ghostVars>>

\* The plugin returns or crashes; then the mutex is taken again.
ThreadReturns(k, ok) ==
    /\ tpc[k] = "inside"
    /\ tpc' = [tpc EXCEPT ![k] = IF ok THEN "finishOk" ELSE "finishCrash"]
    /\ UNCHANGED <<proxyVars, current, started, stateVars, hpc, outcome, joins,
                   ghostVars>>

\* A host that waits on done looks at its predicate again.
Done(h) ==
    CASE hpc[h] = "firstAsleep" -> "first"
      [] hpc[h] = "secondAsleep" -> "second"
      [] OTHER -> hpc[h]

\* Mutant: the thread does not notify done.
MutDoneNotified(k) == hpc

\* state.done.notify_all(), for the watchdog that still has this State.
DoneNotified(k) == IF k = current THEN [h \in Hosts |-> Done(h)] ELSE hpc

ThreadFinishes(k) ==
    /\ tpc[k] \in {"finishOk", "finishCrash"}
    /\ crashed' = [crashed EXCEPT ![k] = tpc[k] = "finishCrash"]
    /\ busy' = [busy EXCEPT ![k] = FALSE]
    /\ tpc' = [tpc EXCEPT ![k] = "check"]
    /\ hpc' = DoneNotified(k)
    /\ doing' = [doing EXCEPT ![k] = "none"]
    /\ did' = IF doing[k] # "present" THEN did
              ELSE IF tpc[k] = "finishOk" THEN "ok" ELSE "crash"
    /\ UNCHANGED <<proxyVars, current, started, stop, outcome, joins, posted>>

-----------------------------------------------------------------------------
\* run(), for the host h that holds m_deviceMutex.

\* Where run() returns to: postStep's switch or, in call(), the destructor of
\* the local watchdog.
Ended == IF Proxy = "device" THEN "decide" ELSE "shutdown"

\* postStep returns at once for a faulted device; the adapter's calls do not ask.
MayRun == Proxy = "device" => health # "faulted"

\* A guarded call: direct without a time limit, else through the thread.
GuardedCall(h) ==
    /\ life = "alive"
    /\ hpc[h] = "idle"
    /\ owner = None
    /\ MayRun
    /\ owner' = h
    /\ hpc' = [hpc EXCEPT ![h] = IF timed THEN "begin" ELSE "direct"]
    /\ did' = "no"
    /\ UNCHANGED <<timed, life, health, timeouts, current, started, stateVars,
                   tpc, outcome, joins, posted, doing>>

Direct(h, ok) ==
    /\ hpc[h] = "direct"
    /\ outcome' = IF ok THEN "completed" ELSE "crashed"
    /\ did' = IF ok THEN "ok" ELSE "crash"
    /\ hpc' = [hpc EXCEPT ![h] = Ended]
    /\ UNCHANGED <<proxyVars, current, started, stateVars, tpc, joins, posted,
                   doing>>

\* start(), unless the reserved thread exists already.
Begin(h) ==
    /\ hpc[h] = "begin"
    /\ \/ /\ current # 0
          /\ UNCHANGED <<current, started, tpc>>
       \/ /\ current = 0 /\ started < MaxThreads
          /\ started' = started + 1
          /\ current' = started + 1
          /\ tpc' = [tpc EXCEPT ![started + 1] = "check"]
    /\ hpc' = [hpc EXCEPT ![h] = "first"]
    /\ UNCHANGED <<proxyVars, stateVars, outcome, joins, ghostVars>>

BeginFails(h) ==
    /\ SpawnMayFail
    /\ hpc[h] = "begin"
    /\ current = 0
    /\ hpc' = [hpc EXCEPT ![h] = "idle"]
    /\ owner' = None
    /\ UNCHANGED <<timed, life, health, timeouts, current, started, stateVars,
                   tpc, outcome, joins, ghostVars>>

\* Mutant: the job is posted without waiting for the one before.
MutFirst(h) ==
    /\ hpc[h] = "first"
    /\ busy' = [busy EXCEPT ![current] = TRUE]
    /\ posted' = [posted EXCEPT ![current] = "present"]
    /\ hpc' = [hpc EXCEPT ![h] = "wake"]
    /\ UNCHANGED <<proxyVars, current, started, stop, crashed, tpc, outcome,
                   joins, doing, did>>

\* The first wait: a call that exceeded its time may still be in the plugin.
First(h) ==
    /\ hpc[h] = "first"
    /\ \/ /\ ~busy[current]
          /\ busy' = [busy EXCEPT ![current] = TRUE]
          /\ posted' = [posted EXCEPT ![current] = "present"]
          /\ hpc' = [hpc EXCEPT ![h] = "wake"]
       \/ /\ busy[current]
          /\ hpc' = [hpc EXCEPT ![h] = "firstAsleep"]
          /\ UNCHANGED <<busy, posted>>
    /\ UNCHANGED <<proxyVars, current, started, stop, crashed, tpc, outcome,
                   joins, doing, did>>

\* wake.notify_one().
Woken(k) == IF tpc[k] = "asleep" THEN [tpc EXCEPT ![k] = "check"] ELSE tpc

Wake(h) ==
    /\ hpc[h] = "wake"
    /\ tpc' = Woken(current)
    /\ hpc' = [hpc EXCEPT ![h] = "second"]
    /\ UNCHANGED <<proxyVars, current, started, stateVars, outcome, joins,
                   ghostVars>>

\* The second wait, for the call itself.
Second(h) ==
    /\ hpc[h] = "second"
    /\ \/ /\ ~busy[current]
          /\ outcome' = IF crashed[current] THEN "crashed" ELSE "completed"
          /\ hpc' = [hpc EXCEPT ![h] = Ended]
       \/ /\ busy[current]
          /\ hpc' = [hpc EXCEPT ![h] = "secondAsleep"]
          /\ UNCHANGED outcome
    /\ UNCHANGED <<proxyVars, current, started, stateVars, tpc, joins,
                   ghostVars>>

\* The call is not the present one any more.
Past(who) == IF who = "present" THEN "past" ELSE who

\* The deadline passes: the predicate is evaluated a last time.
Timeout(h) ==
    /\ hpc[h] \in {"firstAsleep", "secondAsleep"}
    /\ \/ /\ busy[current]
          /\ outcome' = "timedOut"
          /\ hpc' = [hpc EXCEPT ![h] = Ended]
          /\ posted' = [k \in ThreadIds |-> Past(posted[k])]
          /\ doing' = [k \in ThreadIds |-> Past(doing[k])]
       \/ /\ ~busy[current]
          /\ hpc' = [hpc EXCEPT ![h] = Done(h)]
          /\ UNCHANGED <<outcome, posted, doing>>
    /\ UNCHANGED <<proxyVars, current, started, stateVars, tpc, joins, did>>

-----------------------------------------------------------------------------
\* What the proxy makes of it.

HealthAfter ==
    CASE outcome = "completed" -> "ok"
      [] outcome = "crashed" -> "faulted"
      [] outcome = "timedOut" ->
            IF timeouts + 1 >= MaxTimeouts THEN "faulted" ELSE "lagging"

TimeoutsAfter ==
    CASE outcome = "completed" -> 0
      [] outcome = "crashed" -> timeouts
      [] outcome = "timedOut" ->
            IF timeouts < MaxTimeouts THEN timeouts + 1 ELSE timeouts

\* Mutant: the thread is abandoned at the first timeout.
MutAbandons(new) == Proxy = "device" /\ new # "ok"

\* The device gives its thread up once it is faulted.
Abandons(new) == Proxy = "device" /\ new = "faulted"

\* The switch of postStep and recordOutcome.  The timeouts count up to the limit
\* that makes the proxy faulted; the adapter's destructor ignores the outcome.
Decide(h) ==
    /\ hpc[h] = "decide"
    /\ health' = IF life = "alive" THEN HealthAfter ELSE health
    /\ timeouts' = IF life = "alive" THEN TimeoutsAfter ELSE timeouts
    /\ outcome' = "none"
    /\ hpc' = [hpc EXCEPT ![h] = IF Abandons(health') THEN "shutdown" ELSE "leave"]
    /\ UNCHANGED <<timed, life, owner, current, started, stateVars, tpc, joins,
                   ghostVars>>

\* Where shutdown() returns to: in the adapter's call, to recordOutcome; in the
\* device's destructor, to the plugin's destroy.
Parted ==
    CASE Proxy = "adapter" -> "decide"
      [] Proxy = "device" /\ life = "dying" -> "destroy"
      [] OTHER -> "leave"

\* shutdown(): raise stop, wake the thread, then join it or let it go.
Shutdown(h) ==
    /\ hpc[h] = "shutdown"
    /\ \/ /\ current = 0
          /\ hpc' = [hpc EXCEPT ![h] = Parted]
          /\ UNCHANGED <<stop, joins>>
       \/ /\ current # 0
          /\ stop' = [stop EXCEPT ![current] = TRUE]
          /\ joins' = ~busy[current]
          /\ hpc' = [hpc EXCEPT ![h] = "stopWake"]
    /\ UNCHANGED <<proxyVars, current, started, busy, crashed, tpc, outcome,
                   ghostVars>>

StopWake(h) ==
    /\ hpc[h] = "stopWake"
    /\ tpc' = Woken(current)
    /\ hpc' = [hpc EXCEPT ![h] = "part"]
    /\ UNCHANGED <<proxyVars, current, started, stateVars, outcome, joins,
                   ghostVars>>

\* Mutant: the thread is always joined.
MutMayPart == tpc[current] = "exited"

\* join() waits for the thread, detach() does not.
MayPart == joins => tpc[current] = "exited"

Part(h) ==
    /\ hpc[h] = "part"
    /\ MayPart
    /\ current' = 0
    /\ joins' = FALSE
    /\ hpc' = [hpc EXCEPT ![h] = Parted]
    /\ UNCHANGED <<proxyVars, started, stateVars, tpc, outcome, ghostVars>>

\* The end of a guarded call, which in the adapter's destructor is its destroy.
Leave(h) ==
    /\ hpc[h] = "leave"
    /\ life' = IF life = "dying" THEN "dead" ELSE life
    /\ owner' = None
    /\ hpc' = [hpc EXCEPT ![h] = "idle"]
    /\ UNCHANGED <<timed, health, timeouts, current, started, stateVars, tpc,
                   outcome, joins, ghostVars>>

\* The plugin returns from destroy(m_handle), which the device's destructor calls
\* directly, without a time limit: nothing says that it ever does.
DestroyReturns(h) ==
    /\ hpc[h] = "destroy"
    /\ life' = "dead"
    /\ owner' = None
    /\ hpc' = [hpc EXCEPT ![h] = "idle"]
    /\ UNCHANGED <<timed, health, timeouts, current, started, stateVars, tpc,
                   outcome, joins, ghostVars>>

\* The destructor; nobody else uses the proxy then.  The device ends its thread
\* first, the adapter's destroy is one more call.
Destroy(h) ==
    /\ life = "alive"
    /\ \A g \in Hosts : hpc[g] = "idle"
    /\ life' = "dying"
    /\ owner' = h
    /\ hpc' = [hpc EXCEPT ![h] = IF Proxy = "device" THEN "shutdown" ELSE "begin"]
    /\ did' = "no"
    /\ UNCHANGED <<timed, health, timeouts, current, started, stateVars, tpc,
                   outcome, joins, posted, doing>>

-----------------------------------------------------------------------------
\* The calls that a device makes without a watchdog.

EnterPlugin(h) ==
    /\ Proxy = "device"
    /\ life = "alive"
    /\ hpc[h] = "idle"
    /\ owner = None
    /\ owner' = h
    /\ hpc' = [hpc EXCEPT ![h] = "device"]
    /\ UNCHANGED <<timed, life, health, timeouts, current, started, stateVars,
                   tpc, outcome, joins, ghostVars>>

\* onEvent, transferI2c, and the SPI calls: not for a faulted device.
Event(h) == health # "faulted" /\ EnterPlugin(h)

\* stamp, getState, setState and the properties, whatever its health.
Stamp(h) == EnterPlugin(h)

DeviceReturns(h, ok) ==
    /\ hpc[h] = "device"
    /\ health' = IF ok THEN health ELSE "faulted"
    /\ owner' = None
    /\ hpc' = [hpc EXCEPT ![h] = "idle"]
    /\ UNCHANGED <<timed, life, timeouts, current, started, stateVars, tpc,
                   outcome, joins, ghostVars>>

-----------------------------------------------------------------------------
\* What a host does by itself once it has begun a guarded call.
HostStep(h) ==
    \/ Begin(h) \/ BeginFails(h) \/ First(h) \/ Wake(h) \/ Second(h)
    \/ Timeout(h) \/ Decide(h) \/ Shutdown(h) \/ StopWake(h) \/ Part(h)
    \/ Leave(h)

ThreadStep(k) == ThreadCheck(k) \/ ThreadEnters(k) \/ ThreadFinishes(k)

Next ==
    \/ \E h \in Hosts :
          \/ HostStep(h) \/ GuardedCall(h) \/ Event(h) \/ Stamp(h) \/ Destroy(h)
          \/ DestroyReturns(h)
          \/ \E ok \in BOOLEAN : Direct(h, ok) \/ DeviceReturns(h, ok)
    \/ \E k \in ThreadIds :
          \/ ThreadStep(k)
          \/ \E ok \in BOOLEAN : ThreadReturns(k, ok)

Spec == Init /\ [][Next]_vars

\* Threads run and deadlines pass; the plugin need never return.
FairSpec ==
    /\ Spec
    /\ \A h \in Hosts : WF_vars(HostStep(h))
    /\ \A k \in ThreadIds : WF_vars(ThreadStep(k))

-----------------------------------------------------------------------------
\* The reserved threads of a device never execute two of its post_steps at once,
\* however many of them time out, end late or are abandoned ("nunca duas chamadas
\* da mesma instancia rodando ao mesmo tempo, e no maximo uma thread presa por
\* instancia").
NeverReentered ==
    Cardinality({k \in ThreadIds : tpc[k] \in {"taken", "inside"}}) <= 1

\* The outcome of run() is the one of its own call: the late end of an earlier
\* call, or its crash, is never taken for it.
OutcomeIsOwn ==
    /\ outcome = "completed" => did = "ok"
    /\ outcome = "crashed" => did = "crash"
    /\ outcome = "timedOut" => did = "no"

\* A guarded call with a time limit returns, even if the plugin never does ("o Core
\* nao espera"), and the destructor gets past the reserved thread, whatever the
\* plugin is doing on it: a device's as far as the plugin's own destroy, which has
\* no time limit and may keep it for ever.
CallReturns ==
    \A h \in Hosts :
        hpc[h] \in {"begin", "shutdown"} ~> hpc[h] \in {"idle", "destroy"}

\* What a guarded call captured is still there while the reserved thread runs it
\* ("o que ela captura tem que continuar valido ate la"): the adapter's calls
\* capture variables of their caller by reference, so the plugin must not be in
\* one when its caller has left.  This does not hold after a timeout.
CapturesAlive ==
    Proxy = "adapter" =>
        \A k \in ThreadIds :
            tpc[k] = "inside" /\ doing[k] = "past" => \E h \in Hosts : hpc[h] # "idle"
=============================================================================
