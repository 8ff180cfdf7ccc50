------------------------ MODULE PluginWatchdogProofs ------------------------
(***************************************************************************)
(* Proofs about PluginWatchdog for any number of hosts and threads and any   *)
(* limit of timeouts: the outcome a guarded call gets is its own, for both   *)
(* proxies, and a device's post_steps never overlap.                         *)
(***************************************************************************)
EXTENDS PluginWatchdog, FiniteSetTheorems, TLAPS

\* A reserved thread has a call in hand.
Executing == {"taken", "inside", "finishOk", "finishCrash"}

\* Before the call is posted, and while it is.
Early == {"begin", "direct", "first", "firstAsleep"}
Posted == {"wake", "second", "secondAsleep"}

\* shutdown(), which the adapter's calls go through with an outcome in hand.
Parting == {"shutdown", "stopWake", "part"}
Late == {"decide"} \cup (IF Proxy = "adapter" THEN Parting ELSE {})

HostStates == {"idle", "device", "leave", "destroy", "decide"} \cup Early \cup Posted \cup Parting
ThreadStates == {"none", "check", "asleep", "exited"} \cup Executing

\* Types, as far as the proofs need them.
Types ==
    /\ current \in 0..MaxThreads /\ started \in 0..MaxThreads
    /\ busy \in [ThreadIds -> BOOLEAN]
    /\ crashed \in [ThreadIds -> BOOLEAN]
    /\ tpc \in [ThreadIds -> ThreadStates]
    /\ hpc \in [Hosts -> HostStates]
    /\ posted \in [ThreadIds -> {"none", "present", "past"}]
    /\ doing \in [ThreadIds -> {"none", "present", "past"}]

\* The device's mutex, or the adapter's single user: one host is inside.
Exclusive == \A h \in Hosts : hpc[h] # "idle" => owner = h

\* From start() to the end of shutdown() there is a thread.
HasThread ==
    \A h \in Hosts :
        hpc[h] \in {"first", "firstAsleep", "stopWake", "part"} \cup Posted => current # 0

\* A thread executes the call that was posted to it last.
Faithful ==
    \A k \in ThreadIds : tpc[k] \in Executing => busy[k] /\ doing[k] = posted[k]

\* The present call is posted to thread k and has not ended.
Running(k) == busy[k] /\ posted[k] = "present"

\* Only the host that waits for the present call has one.
NoStranger ==
    /\ \A k \in ThreadIds : Running(k) => k = current
    /\ \A k \in ThreadIds : Running(k) => \E h \in Hosts : hpc[h] \in Posted

\* What became of the present call, as far as its host has come.
Known ==
    \A h \in Hosts :
        /\ hpc[h] \in Early => did = "no"
        /\ hpc[h] \in Posted =>
              /\ busy[current] => posted[current] = "present" /\ did = "no"
              /\ ~busy[current] => did = IF crashed[current] THEN "crash" ELSE "ok"

\* An outcome waits to be recorded by the host that got it.
Recorded == outcome # "none" => \E h \in Hosts : hpc[h] \in Late

OutcomeInv ==
    /\ Types /\ Exclusive /\ HasThread /\ Faithful /\ NoStranger /\ Known
    /\ Recorded /\ OutcomeIsOwn

\* A device that gives its thread up does so for good.
OneThread ==
    /\ started <= 1
    /\ started = 0 => current = 0
    /\ \A k \in ThreadIds : k > started => tpc[k] = "none"
    /\ started # 0 /\ current = 0 => health = "faulted" \/ life # "alive"
    /\ \A h \in Hosts :
          /\ hpc[h] \in Early \cup Posted \cup {"decide"} => health # "faulted" /\ life = "alive"
          /\ hpc[h] \in Parting => health = "faulted" \/ life # "alive"

-----------------------------------------------------------------------------
(* The outcome of a call is its own: one lemma per step of a host or a thread *)

LEMMA OutcomeGuardedCall ==
    ASSUME OutcomeInv, NEW h \in Hosts, GuardedCall(h)
    PROVE  OutcomeInv'
<1>1. Types'
  BY DEF OutcomeInv, Types, GuardedCall, Early, HostStates, stateVars
<1>2. Exclusive'
  BY HostsAssumption DEF OutcomeInv, Exclusive, GuardedCall
<1>3. HasThread'
  BY DEF OutcomeInv, HasThread, GuardedCall, Posted
<1>4. Faithful'
  BY DEF OutcomeInv, Faithful, GuardedCall, stateVars
<1>5. NoStranger'
  <2>1. \A g \in Hosts : hpc[g] \notin Posted
    BY HostsAssumption DEF OutcomeInv, Exclusive, GuardedCall, Posted
  <2>2. \A k \in ThreadIds : ~Running(k)
    BY <2>1 DEF OutcomeInv, NoStranger
  <2>3. UNCHANGED <<busy, posted>>
    BY DEF GuardedCall, stateVars
  <2> QED
    BY <2>2, <2>3 DEF NoStranger, Running
<1>6. Known'
  BY HostsAssumption DEF OutcomeInv, Known, Exclusive, GuardedCall, Posted
<1>7. Recorded'
  BY DEF OutcomeInv, Recorded, GuardedCall, Late, Parting
<1>8. OutcomeIsOwn'
  BY HostsAssumption DEF OutcomeInv, OutcomeIsOwn, Recorded, Exclusive, GuardedCall, Late,
     Parting
<1> QED
  BY <1>1, <1>2, <1>3, <1>4, <1>5, <1>6, <1>7, <1>8 DEF OutcomeInv

LEMMA OutcomeBegin ==
    ASSUME OutcomeInv, NEW h \in Hosts, Begin(h)
    PROVE  OutcomeInv'
<1>1. Types'
  <2>1. CASE current = 0 /\ started < MaxThreads
    <3>1. started + 1 \in ThreadIds /\ "check" \in ThreadStates /\ "first" \in HostStates
      BY <2>1, LimitsAssumption DEF OutcomeInv, Types, ThreadIds, ThreadStates, HostStates,
         Early
    <3> QED
      BY <3>1 DEF OutcomeInv, Types, Begin, stateVars, ghostVars, ThreadIds
  <2>2. CASE ~(current = 0 /\ started < MaxThreads)
    BY LimitsAssumption DEF OutcomeInv, Types, Begin, Early, HostStates, ThreadStates,
       stateVars, ghostVars
  <2> QED
    BY <2>1, <2>2
<1>2. Exclusive'
  BY DEF OutcomeInv, Exclusive, Begin, proxyVars
<1>3. HasThread'
  BY DEF OutcomeInv, Types, HasThread, Begin
<1>4. Faithful'
  BY LimitsAssumption DEF OutcomeInv, Types, Faithful, Begin, Executing, stateVars, ghostVars
<1>5. NoStranger'
  BY DEF OutcomeInv, NoStranger, Running, Begin, ThreadIds, Posted, stateVars, ghostVars
<1>6. Known'
  BY DEF OutcomeInv, Known, HasThread, Begin, Early, Posted, stateVars, ghostVars
<1>7. Recorded'
  BY DEF OutcomeInv, Recorded, Begin, Late, Parting
<1>8. OutcomeIsOwn'
  BY DEF OutcomeInv, OutcomeIsOwn, Begin, ghostVars
<1> QED
  BY <1>1, <1>2, <1>3, <1>4, <1>5, <1>6, <1>7, <1>8 DEF OutcomeInv

LEMMA OutcomeBeginFails ==
    ASSUME OutcomeInv, NEW h \in Hosts, BeginFails(h)
    PROVE  OutcomeInv'
<1>1. Types'
  BY DEF OutcomeInv, Types, BeginFails, HostStates, stateVars, ghostVars
<1>2. Exclusive'
  BY DEF OutcomeInv, Types, Exclusive, BeginFails
<1>3. HasThread'
  BY DEF OutcomeInv, HasThread, BeginFails, Posted
<1>4. Faithful'
  BY DEF OutcomeInv, Faithful, BeginFails, stateVars, ghostVars
<1>5. NoStranger'
  BY DEF OutcomeInv, NoStranger, Running, BeginFails, Posted, stateVars, ghostVars
<1>6. Known'
  BY DEF OutcomeInv, Known, BeginFails, Early, Posted, stateVars, ghostVars
<1>7. Recorded'
  BY DEF OutcomeInv, Recorded, BeginFails, Late, Parting
<1>8. OutcomeIsOwn'
  BY DEF OutcomeInv, OutcomeIsOwn, BeginFails, ghostVars
<1> QED
  BY <1>1, <1>2, <1>3, <1>4, <1>5, <1>6, <1>7, <1>8 DEF OutcomeInv

LEMMA OutcomeFirst ==
    ASSUME OutcomeInv, NEW h \in Hosts, First(h)
    PROVE  OutcomeInv'
<1>1. Types'
  BY DEF OutcomeInv, Types, First, Early, Posted, HostStates
<1>2. Exclusive'
  BY DEF OutcomeInv, Types, Exclusive, First, proxyVars
<1>3. HasThread'
  BY DEF OutcomeInv, HasThread, First
<1>4. Faithful'
  BY LimitsAssumption DEF OutcomeInv, Types, Faithful, First
<1>5. NoStranger'
  <2>1. \A g \in Hosts : hpc[g] \notin Posted
    BY DEF OutcomeInv, Exclusive, First, Posted
  <2>2. \A k \in ThreadIds : ~Running(k)
    BY <2>1 DEF OutcomeInv, NoStranger
  <2>3. CASE busy[current]
    <3>1. UNCHANGED <<busy, posted>>
      BY <2>3 DEF First
    <3> QED
      BY <2>2, <3>1 DEF NoStranger, Running
  <2>4. CASE ~busy[current]
    <3>1. /\ busy' = [busy EXCEPT ![current] = TRUE]
          /\ posted' = [posted EXCEPT ![current] = "present"]
          /\ current' = current /\ hpc' = [hpc EXCEPT ![h] = "wake"]
      BY <2>4 DEF First
    <3>2. busy \in [ThreadIds -> BOOLEAN] /\ DOMAIN posted = ThreadIds /\ DOMAIN hpc = Hosts
      BY DEF OutcomeInv, Types
    <3>3. \A k \in ThreadIds : Running(k)' => k = current
      BY <2>2, <3>1, <3>2 DEF Running
    <3>4. hpc'[h] \in Posted
      BY <3>1, <3>2 DEF Posted
    <3> QED
      BY <3>1, <3>3, <3>4 DEF NoStranger
  <2> QED
    BY <2>3, <2>4
<1>6. Known'
  BY LimitsAssumption DEF OutcomeInv, Types, Known, HasThread, First, ThreadIds, Early, Posted
<1>7. Recorded'
  BY DEF OutcomeInv, Recorded, Exclusive, First, Late, Parting
<1>8. OutcomeIsOwn'
  BY DEF OutcomeInv, OutcomeIsOwn, First
<1> QED
  BY <1>1, <1>2, <1>3, <1>4, <1>5, <1>6, <1>7, <1>8 DEF OutcomeInv

LEMMA OutcomeWake ==
    ASSUME OutcomeInv, NEW h \in Hosts, Wake(h)
    PROVE  OutcomeInv'
<1>1. Types'
  BY DEF OutcomeInv, Types, Wake, Woken, Posted, HostStates, ThreadStates, stateVars, ghostVars
<1>2. Exclusive'
  BY DEF OutcomeInv, Exclusive, Wake, proxyVars
<1>3. HasThread'
  BY DEF OutcomeInv, HasThread, Wake, Posted
<1>4. Faithful'
  BY DEF OutcomeInv, Faithful, Wake, Woken, Executing, stateVars, ghostVars
<1>5. NoStranger'
  BY DEF OutcomeInv, NoStranger, Running, Wake, Posted, stateVars, ghostVars
<1>6. Known'
  BY DEF OutcomeInv, Known, Wake, Early, Posted, stateVars, ghostVars
<1>7. Recorded'
  BY DEF OutcomeInv, Recorded, Wake, Late, Parting
<1>8. OutcomeIsOwn'
  BY DEF OutcomeInv, OutcomeIsOwn, Wake, ghostVars
<1> QED
  BY <1>1, <1>2, <1>3, <1>4, <1>5, <1>6, <1>7, <1>8 DEF OutcomeInv

LEMMA OutcomeSecond ==
    ASSUME OutcomeInv, NEW h \in Hosts, Second(h)
    PROVE  OutcomeInv'
<1>1. Types'
  BY DEF OutcomeInv, Types, Second, Ended, Posted, Parting, HostStates, stateVars, ghostVars
<1>2. Exclusive'
  BY DEF OutcomeInv, Types, Exclusive, Second, proxyVars
<1>3. HasThread'
  BY DEF OutcomeInv, HasThread, Second, Posted
<1>4. Faithful'
  BY DEF OutcomeInv, Faithful, Second, stateVars, ghostVars
<1>5. NoStranger'
  BY DEF OutcomeInv, Types, NoStranger, Running, Second, Posted, stateVars, ghostVars
<1>6. Known'
  BY DEF OutcomeInv, Types, Known, Second, Ended, Early, Parting, HostStates, stateVars,
     ghostVars
<1>7. Recorded'
  BY ProxyAssumption DEF OutcomeInv, Types, Recorded, Second, Ended, Late, Parting
<1>8. OutcomeIsOwn'
  BY DEF OutcomeInv, OutcomeIsOwn, Known, Second, Posted, ghostVars
<1> QED
  BY <1>1, <1>2, <1>3, <1>4, <1>5, <1>6, <1>7, <1>8 DEF OutcomeInv

LEMMA OutcomeTimeout ==
    ASSUME OutcomeInv, NEW h \in Hosts, Timeout(h)
    PROVE  OutcomeInv'
<1>1. Types'
  BY DEF OutcomeInv, Types, Timeout, Ended, Done, Past, Early, Posted, Parting, HostStates,
     stateVars
<1>2. Exclusive'
  BY DEF OutcomeInv, Types, Exclusive, Timeout, proxyVars
<1>3. HasThread'
  BY DEF OutcomeInv, HasThread, Timeout, Posted
<1>4. Faithful'
  BY LimitsAssumption DEF OutcomeInv, Faithful, Timeout, stateVars
<1>5. NoStranger'
  BY LimitsAssumption DEF OutcomeInv, NoStranger, Running, Timeout, Past, stateVars
<1>6. Known'
  <2>1. \A g \in Hosts : hpc'[g] \in Early \cup Posted => g = h /\ hpc'[g] = Done(h)
    BY DEF OutcomeInv, Types, Exclusive, Timeout, Ended, Early, Posted
  <2> QED
    BY <2>1 DEF OutcomeInv, Types, Known, Timeout, Ended, Done, Early, Posted, stateVars
<1>7. Recorded'
  BY ProxyAssumption DEF OutcomeInv, Types, Recorded, Timeout, Ended, Late, Parting
<1>8. OutcomeIsOwn'
  BY DEF OutcomeInv, OutcomeIsOwn, Known, Timeout, Early, Posted
<1> QED
  BY <1>1, <1>2, <1>3, <1>4, <1>5, <1>6, <1>7, <1>8 DEF OutcomeInv

LEMMA OutcomeDecide ==
    ASSUME OutcomeInv, NEW h \in Hosts, Decide(h)
    PROVE  OutcomeInv'
<1>1. Types'
  BY DEF OutcomeInv, Types, Decide, Parting, HostStates, stateVars, ghostVars
<1>2. Exclusive'
  BY DEF OutcomeInv, Exclusive, Decide
<1>3. HasThread'
  BY DEF OutcomeInv, HasThread, Decide, Posted
<1>4. Faithful'
  BY DEF OutcomeInv, Faithful, Decide, stateVars, ghostVars
<1>5. NoStranger'
  BY DEF OutcomeInv, NoStranger, Running, Decide, Posted, stateVars, ghostVars
<1>6. Known'
  BY DEF OutcomeInv, Known, Decide, Early, Posted, stateVars, ghostVars
<1>7. Recorded'
  BY DEF Recorded, Decide
<1>8. OutcomeIsOwn'
  BY DEF OutcomeIsOwn, Decide
<1> QED
  BY <1>1, <1>2, <1>3, <1>4, <1>5, <1>6, <1>7, <1>8 DEF OutcomeInv

LEMMA OutcomeShutdown ==
    ASSUME OutcomeInv, NEW h \in Hosts, Shutdown(h)
    PROVE  OutcomeInv'
<1>1. Types'
  BY DEF OutcomeInv, Types, Shutdown, Parted, Parting, HostStates, ghostVars
<1>2. Exclusive'
  BY DEF OutcomeInv, Types, Exclusive, Shutdown, proxyVars
<1>3. HasThread'
  BY DEF OutcomeInv, Types, HasThread, Shutdown, Parted, Posted
<1>4. Faithful'
  BY DEF OutcomeInv, Faithful, Shutdown, ghostVars
<1>5. NoStranger'
  BY DEF OutcomeInv, NoStranger, Running, Exclusive, Shutdown, Posted, ghostVars
<1>6. Known'
  BY DEF OutcomeInv, Types, Known, Shutdown, Parted, Early, Posted, ghostVars
<1>7. Recorded'
  <2> QED
    BY DEF OutcomeInv, Types, Recorded, Shutdown, Parted, Late, Parting
<1>8. OutcomeIsOwn'
  BY DEF OutcomeInv, OutcomeIsOwn, Shutdown, ghostVars
<1> QED
  BY <1>1, <1>2, <1>3, <1>4, <1>5, <1>6, <1>7, <1>8 DEF OutcomeInv

LEMMA OutcomeStopWake ==
    ASSUME OutcomeInv, NEW h \in Hosts, StopWake(h)
    PROVE  OutcomeInv'
<1>1. Types'
  BY DEF OutcomeInv, Types, StopWake, Woken, Parting, HostStates, ThreadStates, stateVars,
     ghostVars
<1>2. Exclusive'
  BY DEF OutcomeInv, Exclusive, StopWake, proxyVars
<1>3. HasThread'
  BY DEF OutcomeInv, HasThread, StopWake
<1>4. Faithful'
  BY DEF OutcomeInv, Faithful, StopWake, Woken, Executing, stateVars, ghostVars
<1>5. NoStranger'
  BY DEF OutcomeInv, NoStranger, Running, StopWake, Posted, stateVars, ghostVars
<1>6. Known'
  BY DEF OutcomeInv, Known, StopWake, Early, Posted, stateVars, ghostVars
<1>7. Recorded'
  BY DEF OutcomeInv, Recorded, StopWake, Late, Parting
<1>8. OutcomeIsOwn'
  BY DEF OutcomeInv, OutcomeIsOwn, StopWake, ghostVars
<1> QED
  BY <1>1, <1>2, <1>3, <1>4, <1>5, <1>6, <1>7, <1>8 DEF OutcomeInv

LEMMA OutcomePart ==
    ASSUME OutcomeInv, NEW h \in Hosts, Part(h)
    PROVE  OutcomeInv'
<1>1. Types'
  BY LimitsAssumption DEF OutcomeInv, Types, Part, Parted, HostStates, stateVars, ghostVars
<1>2. Exclusive'
  BY DEF OutcomeInv, Exclusive, Part, proxyVars
<1>3. HasThread'
  BY DEF OutcomeInv, Types, HasThread, Exclusive, Part, Parted, Posted
<1>4. Faithful'
  BY DEF OutcomeInv, Faithful, Part, stateVars, ghostVars
<1>5. NoStranger'
  BY DEF OutcomeInv, NoStranger, Running, Exclusive, Part, Posted, stateVars, ghostVars
<1>6. Known'
  BY DEF OutcomeInv, Known, Exclusive, Part, Parted, Early, Posted
<1>7. Recorded'
  <2> QED
    BY DEF OutcomeInv, Recorded, Part, Parted, Late
<1>8. OutcomeIsOwn'
  BY DEF OutcomeInv, OutcomeIsOwn, Part, ghostVars
<1> QED
  BY <1>1, <1>2, <1>3, <1>4, <1>5, <1>6, <1>7, <1>8 DEF OutcomeInv

LEMMA OutcomeLeave ==
    ASSUME OutcomeInv, NEW h \in Hosts, Leave(h)
    PROVE  OutcomeInv'
<1>1. Types'
  BY DEF OutcomeInv, Types, Leave, HostStates, stateVars, ghostVars
<1>2. Exclusive'
  BY DEF OutcomeInv, Types, Exclusive, Leave
<1>3. HasThread'
  BY DEF OutcomeInv, HasThread, Leave, Posted
<1>4. Faithful'
  BY DEF OutcomeInv, Faithful, Leave, stateVars, ghostVars
<1>5. NoStranger'
  BY DEF OutcomeInv, NoStranger, Running, Leave, Posted, stateVars, ghostVars
<1>6. Known'
  BY DEF OutcomeInv, Known, Leave, Early, Posted, stateVars, ghostVars
<1>7. Recorded'
  BY DEF OutcomeInv, Recorded, Leave, Late, Parting
<1>8. OutcomeIsOwn'
  BY DEF OutcomeInv, OutcomeIsOwn, Leave, ghostVars
<1> QED
  BY <1>1, <1>2, <1>3, <1>4, <1>5, <1>6, <1>7, <1>8 DEF OutcomeInv

LEMMA OutcomeDestroyReturns ==
    ASSUME OutcomeInv, NEW h \in Hosts, DestroyReturns(h)
    PROVE  OutcomeInv'
<1>1. Types'
  BY DEF OutcomeInv, Types, DestroyReturns, HostStates, stateVars, ghostVars
<1>2. Exclusive'
  BY DEF OutcomeInv, Types, Exclusive, DestroyReturns
<1>3. HasThread'
  BY DEF OutcomeInv, HasThread, DestroyReturns, Posted
<1>4. Faithful'
  BY DEF OutcomeInv, Faithful, DestroyReturns, stateVars, ghostVars
<1>5. NoStranger'
  BY DEF OutcomeInv, NoStranger, Running, DestroyReturns, Posted, stateVars, ghostVars
<1>6. Known'
  BY DEF OutcomeInv, Known, DestroyReturns, Early, Posted, stateVars, ghostVars
<1>7. Recorded'
  BY DEF OutcomeInv, Recorded, DestroyReturns, Late, Parting
<1>8. OutcomeIsOwn'
  BY DEF OutcomeInv, OutcomeIsOwn, DestroyReturns, ghostVars
<1> QED
  BY <1>1, <1>2, <1>3, <1>4, <1>5, <1>6, <1>7, <1>8 DEF OutcomeInv

LEMMA OutcomeDestroy ==
    ASSUME OutcomeInv, NEW h \in Hosts, Destroy(h)
    PROVE  OutcomeInv'
<1>1. Types'
  BY DEF OutcomeInv, Types, Destroy, Early, Parting, HostStates, stateVars
<1>2. Exclusive'
  BY DEF Exclusive, Destroy
<1>3. HasThread'
  BY DEF HasThread, Destroy, Posted
<1>4. Faithful'
  BY DEF OutcomeInv, Faithful, Destroy, stateVars
<1>5. NoStranger'
  BY DEF OutcomeInv, NoStranger, Running, Destroy, Posted, stateVars
<1>6. Known'
  BY DEF Known, Destroy, Posted
<1>7. Recorded'
  BY DEF OutcomeInv, Recorded, Destroy, Late, Parting
<1>8. OutcomeIsOwn'
  BY DEF OutcomeInv, OutcomeIsOwn, Recorded, Destroy, Late, Parting
<1> QED
  BY <1>1, <1>2, <1>3, <1>4, <1>5, <1>6, <1>7, <1>8 DEF OutcomeInv

LEMMA OutcomeEnterPlugin ==
    ASSUME OutcomeInv, NEW h \in Hosts, EnterPlugin(h)
    PROVE  OutcomeInv'
<1>1. Types'
  BY DEF OutcomeInv, Types, EnterPlugin, HostStates, stateVars, ghostVars
<1>2. Exclusive'
  BY HostsAssumption DEF OutcomeInv, Exclusive, EnterPlugin
<1>3. HasThread'
  BY DEF OutcomeInv, HasThread, EnterPlugin, Posted
<1>4. Faithful'
  BY DEF OutcomeInv, Faithful, EnterPlugin, stateVars, ghostVars
<1>5. NoStranger'
  BY DEF OutcomeInv, NoStranger, Running, EnterPlugin, Posted, stateVars, ghostVars
<1>6. Known'
  BY DEF OutcomeInv, Known, EnterPlugin, Early, Posted, stateVars, ghostVars
<1>7. Recorded'
  BY DEF OutcomeInv, Recorded, EnterPlugin, Late
<1>8. OutcomeIsOwn'
  BY DEF OutcomeInv, OutcomeIsOwn, EnterPlugin, ghostVars
<1> QED
  BY <1>1, <1>2, <1>3, <1>4, <1>5, <1>6, <1>7, <1>8 DEF OutcomeInv

LEMMA OutcomeDirect ==
    ASSUME OutcomeInv, NEW h \in Hosts, NEW ok \in BOOLEAN, Direct(h, ok)
    PROVE  OutcomeInv'
<1>1. Types'
  BY DEF OutcomeInv, Types, Direct, Ended, Parting, HostStates, stateVars
<1>2. Exclusive'
  BY DEF OutcomeInv, Exclusive, Direct, proxyVars
<1>3. HasThread'
  BY DEF OutcomeInv, HasThread, Direct, Ended, Posted
<1>4. Faithful'
  BY DEF OutcomeInv, Faithful, Direct, stateVars
<1>5. NoStranger'
  BY DEF OutcomeInv, NoStranger, Running, Direct, Posted, stateVars
<1>6. Known'
  BY DEF OutcomeInv, Types, Known, Exclusive, Direct, Ended, Early, Posted
<1>7. Recorded'
  BY ProxyAssumption DEF OutcomeInv, Types, Recorded, Direct, Ended, Late, Parting
<1>8. OutcomeIsOwn'
  BY DEF OutcomeIsOwn, Direct
<1> QED
  BY <1>1, <1>2, <1>3, <1>4, <1>5, <1>6, <1>7, <1>8 DEF OutcomeInv

LEMMA OutcomeDeviceReturns ==
    ASSUME OutcomeInv, NEW h \in Hosts, NEW ok \in BOOLEAN, DeviceReturns(h, ok)
    PROVE  OutcomeInv'
<1>1. Types'
  BY DEF OutcomeInv, Types, DeviceReturns, HostStates, stateVars, ghostVars
<1>2. Exclusive'
  BY DEF OutcomeInv, Types, Exclusive, DeviceReturns
<1>3. HasThread'
  BY DEF OutcomeInv, HasThread, DeviceReturns, Posted
<1>4. Faithful'
  BY DEF OutcomeInv, Faithful, DeviceReturns, stateVars, ghostVars
<1>5. NoStranger'
  BY DEF OutcomeInv, NoStranger, Running, DeviceReturns, Posted, stateVars, ghostVars
<1>6. Known'
  BY DEF OutcomeInv, Known, DeviceReturns, Early, Posted, stateVars, ghostVars
<1>7. Recorded'
  BY DEF OutcomeInv, Recorded, DeviceReturns, Late, Parting
<1>8. OutcomeIsOwn'
  BY DEF OutcomeInv, OutcomeIsOwn, DeviceReturns, ghostVars
<1> QED
  BY <1>1, <1>2, <1>3, <1>4, <1>5, <1>6, <1>7, <1>8 DEF OutcomeInv

LEMMA OutcomeThreadCheck ==
    ASSUME OutcomeInv, NEW k \in ThreadIds, ThreadCheck(k)
    PROVE  OutcomeInv'
<1>1. Types'
  BY DEF OutcomeInv, Types, ThreadCheck, ThreadStates, Executing, stateVars
<1>2. Exclusive'
  BY DEF OutcomeInv, Exclusive, ThreadCheck, proxyVars
<1>3. HasThread'
  BY DEF OutcomeInv, HasThread, ThreadCheck
<1>4. Faithful'
  BY LimitsAssumption DEF OutcomeInv, Types, Faithful, ThreadCheck, Executing, stateVars
<1>5. NoStranger'
  BY DEF OutcomeInv, NoStranger, Running, ThreadCheck, stateVars
<1>6. Known'
  BY DEF OutcomeInv, Known, ThreadCheck, stateVars
<1>7. Recorded'
  BY DEF OutcomeInv, Recorded, ThreadCheck
<1>8. OutcomeIsOwn'
  BY DEF OutcomeInv, OutcomeIsOwn, ThreadCheck
<1> QED
  BY <1>1, <1>2, <1>3, <1>4, <1>5, <1>6, <1>7, <1>8 DEF OutcomeInv

LEMMA OutcomeThreadEnters ==
    ASSUME OutcomeInv, NEW k \in ThreadIds, ThreadEnters(k)
    PROVE  OutcomeInv'
<1>1. Types'
  BY DEF OutcomeInv, Types, ThreadEnters, ThreadStates, Executing, stateVars, ghostVars
<1>2. Exclusive'
  BY DEF OutcomeInv, Exclusive, ThreadEnters, proxyVars
<1>3. HasThread'
  BY DEF OutcomeInv, HasThread, ThreadEnters
<1>4. Faithful'
  BY DEF OutcomeInv, Faithful, ThreadEnters, Executing, stateVars, ghostVars
<1>5. NoStranger'
  BY DEF OutcomeInv, NoStranger, Running, ThreadEnters, stateVars, ghostVars
<1>6. Known'
  BY DEF OutcomeInv, Known, ThreadEnters, stateVars, ghostVars
<1>7. Recorded'
  BY DEF OutcomeInv, Recorded, ThreadEnters
<1>8. OutcomeIsOwn'
  BY DEF OutcomeInv, OutcomeIsOwn, ThreadEnters, ghostVars
<1> QED
  BY <1>1, <1>2, <1>3, <1>4, <1>5, <1>6, <1>7, <1>8 DEF OutcomeInv

LEMMA OutcomeThreadFinishes ==
    ASSUME OutcomeInv, NEW k \in ThreadIds, ThreadFinishes(k)
    PROVE  OutcomeInv'
<1>1. Types'
  BY DEF OutcomeInv, Types, ThreadFinishes, DoneNotified, Done, Early, Posted, HostStates,
     ThreadStates
<1>2. Exclusive'
  BY DEF OutcomeInv, Exclusive, ThreadFinishes, DoneNotified, Done, proxyVars
<1>3. HasThread'
  BY DEF OutcomeInv, HasThread, ThreadFinishes, DoneNotified, ThreadIds
<1>4. Faithful'
  BY DEF OutcomeInv, Types, Faithful, ThreadFinishes, Executing
<1>5. NoStranger'
  BY DEF OutcomeInv, NoStranger, Running, ThreadFinishes, DoneNotified, Done, Posted
<1>6. Known'
  <2> SUFFICES ASSUME NEW h \in Hosts
               PROVE  /\ hpc'[h] \in Early => did' = "no"
                      /\ hpc'[h] \in Posted =>
                            /\ busy'[current'] => posted'[current'] = "present" /\ did' = "no"
                            /\ ~busy'[current'] =>
                                  did' = IF crashed'[current'] THEN "crash" ELSE "ok"
    BY DEF Known
  <2>1. /\ hpc'[h] \in Early <=> hpc[h] \in Early
        /\ hpc'[h] \in Posted <=> hpc[h] \in Posted
    BY DEF ThreadFinishes, DoneNotified, Done, Early, Posted
  <2>2. busy[k] /\ doing[k] = posted[k] /\ current' = current
    BY DEF OutcomeInv, Faithful, ThreadFinishes, Executing
  <2>3. CASE hpc[h] \in Early
    <3>1. doing[k] # "present"
      BY <2>2, <2>3 DEF OutcomeInv, Exclusive, NoStranger, Running, Early, Posted
    <3> QED
      BY <2>1, <2>3, <3>1 DEF OutcomeInv, Known, ThreadFinishes, Early, Posted
  <2>4. CASE hpc[h] \in Posted /\ k = current
    BY <2>2, <2>4 DEF OutcomeInv, Types, Known, ThreadFinishes, DoneNotified, Done, Early,
       Posted
  <2>5. CASE hpc[h] \in Posted /\ k # current
    <3>1. doing[k] # "present" /\ current \in ThreadIds
      BY <2>2, <2>5 DEF OutcomeInv, Types, NoStranger, Running, HasThread, ThreadIds
    <3> QED
      BY <2>5, <3>1 DEF OutcomeInv, Known, ThreadFinishes, DoneNotified
  <2> QED
    BY <2>1, <2>3, <2>4, <2>5
<1>7. Recorded'
  BY DEF OutcomeInv, Recorded, ThreadFinishes, DoneNotified, Done, Late, Parting
<1>8. OutcomeIsOwn'
  BY DEF OutcomeInv, OutcomeIsOwn, Recorded, Exclusive, Faithful, NoStranger, Running,
     ThreadFinishes, Late, Posted, Parting, Executing
<1> QED
  BY <1>1, <1>2, <1>3, <1>4, <1>5, <1>6, <1>7, <1>8 DEF OutcomeInv

LEMMA OutcomeThreadReturns ==
    ASSUME OutcomeInv, NEW k \in ThreadIds, NEW ok \in BOOLEAN, ThreadReturns(k, ok)
    PROVE  OutcomeInv'
<1>1. Types'
  BY DEF OutcomeInv, Types, ThreadReturns, ThreadStates, Executing, stateVars, ghostVars
<1>2. Exclusive'
  BY DEF OutcomeInv, Exclusive, ThreadReturns, proxyVars
<1>3. HasThread'
  BY DEF OutcomeInv, HasThread, ThreadReturns
<1>4. Faithful'
  BY DEF OutcomeInv, Faithful, ThreadReturns, Executing, stateVars, ghostVars
<1>5. NoStranger'
  BY DEF OutcomeInv, NoStranger, Running, ThreadReturns, stateVars, ghostVars
<1>6. Known'
  BY DEF OutcomeInv, Known, ThreadReturns, stateVars, ghostVars
<1>7. Recorded'
  BY DEF OutcomeInv, Recorded, ThreadReturns
<1>8. OutcomeIsOwn'
  BY DEF OutcomeInv, OutcomeIsOwn, ThreadReturns, ghostVars
<1> QED
  BY <1>1, <1>2, <1>3, <1>4, <1>5, <1>6, <1>7, <1>8 DEF OutcomeInv

\* Every step keeps the invariant.
LEMMA OutcomeStep == OutcomeInv /\ [Next]_vars => OutcomeInv'
<1> SUFFICES ASSUME OutcomeInv, [Next]_vars
             PROVE  OutcomeInv'
  OBVIOUS
<1>1. ASSUME NEW h \in Hosts, HostStep(h)
      PROVE  OutcomeInv'
  BY <1>1, OutcomeBegin, OutcomeBeginFails, OutcomeFirst, OutcomeWake, OutcomeSecond,
     OutcomeTimeout, OutcomeDecide, OutcomeShutdown, OutcomeStopWake, OutcomePart, OutcomeLeave
     DEF HostStep
<1>2. ASSUME NEW h \in Hosts, GuardedCall(h) \/ Event(h) \/ Stamp(h) \/ Destroy(h)
                              \/ DestroyReturns(h)
      PROVE  OutcomeInv'
  BY <1>2, OutcomeGuardedCall, OutcomeEnterPlugin, OutcomeDestroy, OutcomeDestroyReturns
     DEF Event, Stamp
<1>3. ASSUME NEW h \in Hosts, NEW ok \in BOOLEAN, Direct(h, ok) \/ DeviceReturns(h, ok)
      PROVE  OutcomeInv'
  BY <1>3, OutcomeDirect, OutcomeDeviceReturns
<1>4. ASSUME NEW k \in ThreadIds, ThreadStep(k)
      PROVE  OutcomeInv'
  BY <1>4, OutcomeThreadCheck, OutcomeThreadEnters, OutcomeThreadFinishes DEF ThreadStep
<1>5. ASSUME NEW k \in ThreadIds, NEW ok \in BOOLEAN, ThreadReturns(k, ok)
      PROVE  OutcomeInv'
  BY <1>5, OutcomeThreadReturns
<1>6. CASE UNCHANGED vars
  BY <1>6 DEF vars, proxyVars, stateVars, ghostVars, OutcomeInv, Types, Exclusive, HasThread,
     Faithful, NoStranger, Running, Known, Recorded, OutcomeIsOwn
<1> QED
  BY <1>1, <1>2, <1>3, <1>4, <1>5, <1>6 DEF Next

\* No call has been made at first.
LEMMA OutcomeInit == Init => OutcomeInv
<1> SUFFICES ASSUME Init
             PROVE  OutcomeInv
  OBVIOUS
<1>1. Types
  BY LimitsAssumption DEF Init, Types, ThreadStates, HostStates
<1>2. Exclusive /\ HasThread /\ Known
  BY DEF Init, Exclusive, HasThread, Known, Early, Posted
<1>3. Faithful /\ NoStranger
  BY DEF Init, Faithful, NoStranger, Running, Executing
<1>4. Recorded /\ OutcomeIsOwn
  BY DEF Init, Recorded, OutcomeIsOwn
<1> QED
  BY <1>1, <1>2, <1>3, <1>4 DEF OutcomeInv

\* The outcome that run() returns is the one of its own call, for the device and for the
\* adapter: a call that was given up and ends late, or crashes late, is never taken for the
\* one after it (the counters posted and finished of PluginWatchdog::State).
THEOREM OutcomesAreOwn == Spec => []OutcomeIsOwn
<1>1. OutcomeInv => OutcomeIsOwn
  BY DEF OutcomeInv
<1> QED
  BY OutcomeInit, OutcomeStep, <1>1, PTL DEF Spec

-----------------------------------------------------------------------------
(* A device has one thread *)

\* Every step of a device keeps it to one thread.
LEMMA OneThreadStep ==
    ASSUME Proxy = "device", OutcomeInv, OneThread, [Next]_vars
    PROVE  OneThread'
<1> USE DEF Early, Posted, Parting
<1>1. Types /\ Exclusive
  BY DEF OutcomeInv
<1>2. ASSUME NEW h \in Hosts, GuardedCall(h)
      PROVE  OneThread'
  BY <1>2 DEF OneThread, GuardedCall, MayRun
<1>3. ASSUME NEW h \in Hosts, Begin(h)
      PROVE  OneThread'
  BY <1>1, <1>3, LimitsAssumption DEF Types, OneThread, Begin, proxyVars, ThreadIds
<1>4. ASSUME NEW h \in Hosts, BeginFails(h)
      PROVE  OneThread'
  BY <1>4 DEF OneThread, BeginFails
<1>5. ASSUME NEW h \in Hosts, First(h)
      PROVE  OneThread'
  BY <1>1, <1>5 DEF Types, OneThread, First, proxyVars
<1>6. ASSUME NEW h \in Hosts, Wake(h)
      PROVE  OneThread'
  BY <1>6 DEF OneThread, Wake, Woken, proxyVars
<1>7. ASSUME NEW h \in Hosts, Second(h)
      PROVE  OneThread'
  BY <1>1, <1>7 DEF Types, OneThread, Second, Ended, proxyVars
<1>8. ASSUME NEW h \in Hosts, Timeout(h)
      PROVE  OneThread'
  BY <1>1, <1>8 DEF Types, OneThread, Timeout, Ended, Done, proxyVars
<1>9. ASSUME NEW h \in Hosts, Decide(h)
      PROVE  OneThread'
  BY <1>1, <1>9 DEF Types, Exclusive, OneThread, Decide, Abandons
<1>10. ASSUME NEW h \in Hosts, Shutdown(h)
      PROVE  OneThread'
  BY <1>1, <1>10 DEF Types, OneThread, Shutdown, Parted, proxyVars
<1>11. ASSUME NEW h \in Hosts, StopWake(h)
      PROVE  OneThread'
  BY <1>11 DEF OneThread, StopWake, Woken, proxyVars
<1>12. ASSUME NEW h \in Hosts, Part(h)
      PROVE  OneThread'
  BY <1>12 DEF OneThread, Part, Parted, proxyVars
<1>13. ASSUME NEW h \in Hosts, Leave(h)
      PROVE  OneThread'
  BY <1>13 DEF OneThread, Leave
<1>14. ASSUME NEW h \in Hosts, Destroy(h)
      PROVE  OneThread'
  BY <1>14 DEF OneThread, Destroy
<1>15. ASSUME NEW h \in Hosts, EnterPlugin(h)
      PROVE  OneThread'
  BY <1>15 DEF OneThread, EnterPlugin
<1>16. ASSUME NEW h \in Hosts, NEW ok \in BOOLEAN, Direct(h, ok)
      PROVE  OneThread'
  BY <1>16 DEF OneThread, Direct, Ended, proxyVars
<1>17. ASSUME NEW h \in Hosts, NEW ok \in BOOLEAN, DeviceReturns(h, ok)
      PROVE  OneThread'
  BY <1>1, <1>17 DEF Exclusive, OneThread, DeviceReturns
<1>18. ASSUME NEW k \in ThreadIds, ThreadCheck(k)
      PROVE  OneThread'
  BY <1>1, <1>18 DEF Types, OneThread, ThreadCheck, proxyVars
<1>19. ASSUME NEW k \in ThreadIds, ThreadEnters(k)
      PROVE  OneThread'
  BY <1>19 DEF OneThread, ThreadEnters, proxyVars
<1>20. ASSUME NEW k \in ThreadIds, ThreadFinishes(k)
      PROVE  OneThread'
  BY <1>20 DEF OneThread, ThreadFinishes, DoneNotified, Done, proxyVars
<1>21. ASSUME NEW k \in ThreadIds, NEW ok \in BOOLEAN, ThreadReturns(k, ok)
      PROVE  OneThread'
  BY <1>21 DEF OneThread, ThreadReturns, proxyVars
<1>22. CASE UNCHANGED vars
  BY <1>22 DEF vars, proxyVars, OneThread
<1>23. ASSUME NEW h \in Hosts, HostStep(h)
      PROVE  OneThread'
  BY <1>23, <1>3, <1>4, <1>5, <1>6, <1>7, <1>8, <1>9, <1>10, <1>11, <1>12, <1>13 DEF HostStep
<1>24. ASSUME NEW h \in Hosts, DestroyReturns(h)
      PROVE  OneThread'
  BY <1>1, <1>24 DEF Exclusive, OneThread, DestroyReturns
<1> QED
  BY <1>2, <1>14, <1>15, <1>16, <1>17, <1>18, <1>19, <1>20, <1>21, <1>22, <1>23, <1>24 DEF Next,
     ThreadStep, Event, Stamp

\* Two post_steps of one device never run at the same time, whatever becomes of them: the
\* device keeps one watchdog, and run() waits for the call before to end
\* (NativeDeviceProxy::postStep, "nunca duas chamadas da mesma instancia rodando ao mesmo tempo").
THEOREM DeviceIsNeverReentered ==
    ASSUME Proxy = "device"
    PROVE  Spec => []NeverReentered
<1>1. Init => OneThread
  BY DEF Init, OneThread, Early, Posted, Parting
<1>2. OutcomeInv /\ OneThread => NeverReentered
  <2> SUFFICES ASSUME OutcomeInv, OneThread
               PROVE  NeverReentered
    OBVIOUS
  <2> DEFINE S == {k \in ThreadIds : tpc[k] \in {"taken", "inside"}}
  <2>1. S \subseteq {1}
    BY LimitsAssumption DEF OutcomeInv, Types, OneThread, ThreadIds
  <2>2. IsFiniteSet({1}) /\ Cardinality({1}) = 1
    BY FS_Singleton
  <2>3. Cardinality(S) <= 1
    BY <2>1, <2>2, FS_Subset
  <2> QED
    BY <2>3 DEF NeverReentered
<1> QED
  BY OutcomeInit, OutcomeStep, OneThreadStep, <1>1, <1>2, PTL DEF Spec

=============================================================================
