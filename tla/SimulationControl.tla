------------------------- MODULE SimulationControl -------------------------
(***************************************************************************)
(* Run, Pause and Stop as the extension serves them, the telemetry it polls  *)
(* and the connection to the Core (extension/src/extension.ts,              *)
(* extension/src/core/coreLifecycle.ts, extension/src/ipc/CoreClient.ts,    *)
(* extension/src/ipc/CoreProcess.ts).                                       *)
(*                                                                         *)
(* Requests of one connection are executed and answered in order; the       *)
(* notification that a condition has paused the simulation comes from       *)
(* another thread of the Core and overtakes answers or is overtaken.  The   *)
(* Core also pauses itself without a notification that changes the status   *)
(* (a Python fault, which the extension only logs).  The process may die    *)
(* at any time: the extension sees its socket close and                     *)
(* its exit, in either order.  What the webview shows is "values" of some    *)
(* run or "blank".  Rebuilds are one request between the stop and the       *)
(* resume (CoreSync has what they do); the circuit has no HART devices, whose *)
(* configuration a rebuild would read before it stops anything.             *)
(***************************************************************************)
EXTENDS Integers, Sequences, SequencesExt

CONSTANTS
    MaxProcs,       \* bound: processes of the Core, the first one included
    MaxGestures,    \* bound: presses of Run, Pause and Stop, edits that rebuild
    MaxFaults       \* bound: crashes, requests that time out or are refused, triggered conditions,
                    \* Python faults, pollings that could not be started

ASSUME BoundsAssumption == MaxProcs \in Nat \ {0} /\ MaxGestures \in Nat /\ MaxFaults \in Nat

Procs == 1..MaxProcs

VARIABLES
    status,         \* state.simulationStatus
    rev,            \* simulationStatusRevision
    client,         \* state.coreClient: the process it was made for, 0: undefined
    sock,           \* CoreClient.socket of each process
    launched,       \* state.coreProc: the process started last
    proc,           \* each process: "none", "alive", "dead", "reaped"
    mode,           \* the scheduler of each: "stopped", "running", "paused"
    silent,         \* processes whose running scheduler has paused itself, without a notification
                    \* that changes the status
    calls,          \* requests, in order: [p, k, awaited, res, rev, before, gen]
    notes,          \* processes with a pauseConditionTriggered under way
    jobs,           \* coreMutationQueue: [k, phase, resume]
    stopPending,    \* stopOperationPending
    prep,           \* how far runSimulationWithFirmwareCheck has come
    gen,            \* telemetryGeneration
    timer,          \* voltageReadoutTimer: the generation it was set with, 0: none
    inFlight,       \* telemetryPollInFlight
    last,           \* lastTelemetryFrameGeneration: the process it comes from, 0: none
    shown,          \* the webview: "blank", "values"
    overlapped,     \* history: a gesture came while another one was being served, or the exit
                    \* of an older process took the client of a new one away
    loose,          \* history: the readouts of a resumption were not answered when it ended
    lost,           \* history: the answer to a control request never came, or the polling that
                    \* follows it could not be started
    orphaned,       \* history: the Core exited and left the timer or values behind
    budget

connVars == <<client, sock, launched, proc>>
pollVars == <<gen, timer, inFlight, last, shown>>
ctrlVars == <<jobs, stopPending, prep>>
ghosts == <<overlapped, loose, lost, orphaned>>
vars == <<status, rev, client, sock, launched, proc, mode, silent, calls, notes, jobs, stopPending, prep,
          gen, timer, inFlight, last, shown, overlapped, loose, lost, orphaned, budget>>

\* The first process is connected, or the activation has not managed to.
Init ==
    /\ status = "stopped" /\ rev = 0
    /\ client = 1 /\ launched = 1
    /\ sock \in {[p \in Procs |-> FALSE], [p \in Procs |-> p = 1]}
    /\ proc = [p \in Procs |-> IF p = 1 THEN "alive" ELSE "none"]
    /\ mode = [p \in Procs |-> "stopped"] /\ silent = {}
    /\ calls = <<>> /\ notes = {} /\ jobs = <<>>
    /\ stopPending = FALSE /\ prep = "no"
    /\ gen = 0 /\ timer = 0 /\ inFlight = FALSE /\ last = 0 /\ shown = "blank"
    /\ overlapped = FALSE /\ loose = FALSE /\ lost = FALSE /\ orphaned = FALSE
    /\ budget = [gestures |-> 0, faults |-> 0]

-----------------------------------------------------------------------------
(* CoreClient *)

\* A request on a client without a socket is rejected at once.
Call(k) == [p |-> client, k |-> k, awaited |-> TRUE, rev |-> rev, before |-> status, gen |-> timer,
            res |-> IF client # 0 /\ sock[client] THEN "sent" ELSE "err"]
request(cs, k) == Append(cs, Call(k))

\* Rejections run before any other event is served.
Rejecting == \E i \in DOMAIN calls : calls[i].res = "err"

IsControl(k) == k \in {"start", "pause", "jobStop", "jobWork", "jobRun"}
ControlUnderWay == \E i \in DOMAIN calls : IsControl(calls[i].k)
\* What sets the status when it arrives, whatever the status is by then.
Unconditional == notes # {} \/ jobs # <<>> \/ \E i \in DOMAIN calls : calls[i].k = "pause"
\* A second resume is asked for before the first is answered.
Resuming == status = "paused" /\ \E i \in DOMAIN calls : calls[i].k = "start"
Quiet == calls = <<>> /\ notes = {} /\ jobs = <<>> /\ prep = "no"
         /\ \A p \in Procs : proc[p] # "dead"

-----------------------------------------------------------------------------
(* Status and polling *)

setSimulationStatus(s) == status' = s /\ rev' = rev + 1

startVoltageReadoutPolling ==
    IF timer # 0 THEN UNCHANGED <<gen, timer, last>>
    ELSE gen' = gen + 1 /\ timer' = gen + 1 /\ last' = 0

stopVoltageReadoutPolling(clearVisuals) ==
    /\ gen' = gen + 1
    /\ timer' = 0
    /\ last' = 0
    /\ shown' = IF clearVisuals THEN "blank" ELSE shown

\* The readouts asked for when a run begins.
pollInstrumentReadouts(cs) == IF client = 0 THEN cs ELSE request(cs, "poll")

\* The flag belongs to the timer: it is not looked at across a stop.
MutTick ==
    /\ ~Rejecting
    /\ timer # 0 /\ client # 0
    /\ inFlight => \A i \in DOMAIN calls : calls[i].k = "frame" => calls[i].gen # timer
    /\ inFlight' = TRUE
    /\ calls' = request(calls, "frame")
    /\ UNCHANGED <<status, rev, connVars, mode, silent, notes, ctrlVars, gen, timer, last, shown, ghosts, budget>>

\* A tick asks for a frame unless one is in transit.
Tick ==
    /\ ~Rejecting
    /\ timer # 0 /\ ~inFlight /\ client # 0
    /\ inFlight' = TRUE
    /\ calls' = request(calls, "frame")
    /\ UNCHANGED <<status, rev, connVars, mode, silent, notes, ctrlVars, gen, timer, last, shown, ghosts, budget>>

-----------------------------------------------------------------------------
(* Gestures *)

Gesture ==
    /\ ~Rejecting
    /\ budget.gestures < MaxGestures
    /\ budget' = [budget EXCEPT !.gestures = @ + 1]

\* runSimulationWithFirmwareCheck: a pause is resumed, a stopped simulation is prepared.
PressRun ==
    /\ Gesture
    /\ overlapped' = (overlapped \/ Unconditional \/ Resuming)
    /\ \/ /\ status = "paused" /\ client # 0
          /\ calls' = request(calls, "start")
          /\ UNCHANGED prep
       \/ /\ status = "stopped" /\ prep = "no"
          /\ prep' = IF client # 0 THEN "ready" ELSE "launch"
          /\ UNCHANGED calls
    /\ UNCHANGED <<status, rev, connVars, mode, silent, notes, jobs, stopPending, pollVars, loose, lost, orphaned>>

\* pauseSimulation, a toggle.
PressPause ==
    /\ Gesture
    /\ overlapped' = (overlapped \/ Unconditional \/ Resuming)
    /\ client # 0
    /\ \/ status = "paused" /\ calls' = request(calls, "start")
       \/ status = "running" /\ calls' = request(calls, "pause")
    /\ UNCHANGED <<status, rev, connVars, mode, silent, notes, ctrlVars, pollVars, loose, lost, orphaned>>

Job(k) == [k |-> k, phase |-> "queued", resume |-> FALSE, prep |-> FALSE]

\* A rebuild that waits in the queue serves whoever asks for one; prep: a preparation awaits it.
queueCoreRebuild(awaited) ==
    LET queued == {i \in DOMAIN jobs : jobs[i].k = "rebuild" /\ jobs[i].phase = "queued"}
    IN jobs' = IF queued = {} THEN Append(jobs, [Job("rebuild") EXCEPT !.prep = awaited])
               ELSE [i \in DOMAIN jobs |-> [jobs[i] EXCEPT !.prep = @ \/ (awaited /\ i \in queued)]]

stopSimulation ==
    /\ ~stopPending /\ status # "stopped"
    /\ stopVoltageReadoutPolling(TRUE)
    /\ IF client = 0
       THEN setSimulationStatus("stopped") /\ UNCHANGED <<stopPending, jobs>>
       ELSE /\ stopPending' = TRUE
            /\ jobs' = Append(jobs, Job("stop"))
            /\ UNCHANGED <<status, rev>>
    /\ UNCHANGED inFlight

PressStop ==
    /\ Gesture
    /\ overlapped' = (overlapped \/ Unconditional \/ ControlUnderWay)
    /\ stopSimulation
    /\ loose' = (loose \/ \E i \in DOMAIN calls : calls[i].k = "poll")
    /\ UNCHANGED <<connVars, mode, silent, calls, notes, prep, lost, orphaned>>

\* An edit that needs a rebuild.
RebuildingEdit ==
    /\ Gesture
    /\ queueCoreRebuild(FALSE)
    /\ overlapped' = (overlapped \/ Unconditional)
    /\ UNCHANGED <<status, rev, connVars, mode, silent, calls, notes, stopPending, prep, pollVars, loose, lost, orphaned>>

-----------------------------------------------------------------------------
(* runSimulationWithFirmwareCheck and ensureCoreConnected *)

launchCoreProcess ==
    /\ prep = "launch"
    /\ IF launched < MaxProcs
       THEN /\ launched' = launched + 1
            /\ proc' = [proc EXCEPT ![launched + 1] = "alive"]
            /\ prep' = "connect"
       ELSE prep' = "no" /\ UNCHANGED <<launched, proc>>
    /\ UNCHANGED <<status, rev, client, sock, calls, jobs, stopPending, pollVars, ghosts>>

\* The socket is there, and the handshake on it succeeds or fails; or the attempts are used up.
connectCoreClient ==
    /\ prep = "connect"
    /\ \/ /\ proc[launched] = "alive"
          /\ sock' = [sock EXCEPT ![launched] = TRUE]
          /\ prep' \in {"connected", "no"}
       \/ prep' = "no" /\ UNCHANGED sock
    /\ UNCHANGED <<status, rev, client, launched, proc, calls, jobs, stopPending, pollVars, ghosts>>

\* After the interpreter was sent (a failure is only logged) the client is published.
publishClient ==
    /\ prep = "connected"
    /\ client' = launched
    /\ prep' = "catalog"
    /\ UNCHANGED <<status, rev, sock, launched, proc, calls, jobs, stopPending, pollVars, ghosts>>

\* The catalog is refreshed and the circuit rebuilt, or the catalog fails.
RefreshCatalog ==
    /\ prep = "catalog"
    /\ \/ queueCoreRebuild(TRUE) /\ prep' = "rebuild"
       \/ prep' = "no" /\ UNCHANGED jobs
    /\ UNCHANGED <<status, rev, connVars, calls, stopPending, pollVars, ghosts>>

\* runSimulation, awaited; there may be no client by now, or a PLC program that fails to build.
PrepareRun ==
    /\ prep = "ready"
    /\ \/ /\ client # 0
          /\ prep' = "start"
          /\ calls' = Append(calls, [Call("start") EXCEPT !.gen = -1])
       \/ prep' = "no" /\ UNCHANGED calls
    /\ UNCHANGED <<status, rev, connVars, jobs, stopPending, pollVars, ghosts>>

\* The firmware is loaded, or could not be.
CheckFirmware ==
    /\ prep = "firmware"
    /\ prep' = "no"
    /\ \/ UNCHANGED <<status, rev, jobs, stopPending, pollVars, ghosts>>
       \/ /\ stopSimulation
          /\ overlapped' = (overlapped \/ Unconditional \/ ControlUnderWay)
          /\ loose' = (loose \/ \E i \in DOMAIN calls : calls[i].k = "poll")
          /\ UNCHANGED <<lost, orphaned>>
    /\ UNCHANGED <<connVars, calls>>

Prepare ==
    /\ ~Rejecting
    /\ \/ launchCoreProcess \/ connectCoreClient \/ publishClient \/ RefreshCatalog
       \/ PrepareRun \/ CheckFirmware
    /\ UNCHANGED <<mode, silent, notes, budget>>

-----------------------------------------------------------------------------
(* The queue of mutations *)

Current == Head(jobs)
Proceed(phase) == jobs' = [jobs EXCEPT ![1].phase = phase]

Finish ==
    /\ jobs' = Tail(jobs)
    /\ prep' = IF Current.prep THEN "ready" ELSE prep

\* rebuildCoreFromSchematicStateNow up to its first request, and the job of stopSimulation.
StartJob ==
    /\ ~Rejecting
    /\ jobs # <<>> /\ Current.phase = "queued"
    /\ CASE client = 0 /\ Current.k = "stop" ->
                /\ setSimulationStatus("stopped")
                /\ stopPending' = FALSE
                /\ Finish
                /\ UNCHANGED <<calls, pollVars>>
         [] client = 0 /\ Current.k = "rebuild" ->
                /\ Finish
                /\ UNCHANGED <<status, rev, stopPending, calls, pollVars>>
         [] client # 0 /\ Current.k = "rebuild" /\ status # "running" ->
                /\ Proceed("work")
                /\ calls' = request(calls, "jobWork")
                /\ UNCHANGED <<status, rev, stopPending, prep, pollVars>>
         [] OTHER ->
                /\ jobs' = [jobs EXCEPT ![1].phase = "stop", ![1].resume = Current.k = "rebuild"]
                /\ calls' = request(calls, "jobStop")
                /\ IF Current.k = "rebuild"
                   THEN stopVoltageReadoutPolling(TRUE) /\ UNCHANGED inFlight
                   ELSE UNCHANGED pollVars
                /\ UNCHANGED <<status, rev, stopPending, prep>>
    /\ loose' = (loose \/ (Current.k = "rebuild" /\ \E i \in DOMAIN calls : calls[i].k = "poll"))
    /\ UNCHANGED <<connVars, mode, silent, notes, overlapped, lost, orphaned, budget>>

\* The stop of a rebuild counts as done even when it failed; the one of Stop does not.
AfterStop(ok, rest) ==
    IF Current.k = "stop" /\ ~ok
    THEN Finish /\ stopPending' = FALSE /\ calls' = rest /\ UNCHANGED <<status, rev>>
    ELSE /\ Proceed("work")
         /\ calls' = request(rest, "jobWork")
         /\ IF Current.k = "rebuild" THEN setSimulationStatus("stopped") ELSE UNCHANGED <<status, rev>>
         /\ UNCHANGED <<stopPending, prep>>

\* The flag of the operation survives its failure.
MutAfterWork(ok, rest) ==
    \/ /\ Current.resume
       /\ Proceed("run") /\ calls' = request(rest, "jobRun")
       /\ UNCHANGED <<status, rev, stopPending, prep>>
    \/ /\ ~Current.resume
       /\ Finish /\ calls' = rest
       /\ stopPending' = (stopPending /\ Current.k # "stop")
       /\ IF Current.k = "stop" THEN setSimulationStatus("stopped") ELSE UNCHANGED <<status, rev>>
    \/ /\ ~ok
       /\ Finish /\ calls' = rest
       /\ UNCHANGED <<status, rev, stopPending>>

\* What is left of a rebuild goes on after most failures; one of the configuration ends it.
AfterWork(ok, rest) ==
    \/ /\ Current.resume
       /\ Proceed("run") /\ calls' = request(rest, "jobRun")
       /\ UNCHANGED <<status, rev, stopPending, prep>>
    \/ /\ ~Current.resume
       /\ Finish /\ calls' = rest
       /\ stopPending' = (stopPending /\ Current.k # "stop")
       /\ IF Current.k = "stop" THEN setSimulationStatus("stopped") ELSE UNCHANGED <<status, rev>>
    \/ /\ ~ok
       /\ Finish /\ calls' = rest
       /\ stopPending' = (stopPending /\ Current.k # "stop")
       /\ UNCHANGED <<status, rev>>

\* The simulation of before the rebuild runs again.
AfterRun(ok, rest) ==
    /\ Finish
    /\ IF ok THEN /\ startVoltageReadoutPolling
                  /\ setSimulationStatus("running")
                  /\ calls' = pollInstrumentReadouts(rest)
       ELSE calls' = rest /\ UNCHANGED <<status, rev, gen, timer, last>>
    /\ UNCHANGED <<stopPending, inFlight, shown>>

-----------------------------------------------------------------------------
(* Continuations of the other requests *)

\* A preparation ends with the run it waited for, unless that is in effect.
Prepared(c, now) ==
    prep' = IF c.gen # -1 THEN prep ELSE IF now = "running" THEN "firmware" ELSE "no"

\* The answer is applied whatever happened meanwhile.
MutAfterStart(c, ok, rest) ==
    /\ CASE ok ->
                /\ startVoltageReadoutPolling
                /\ setSimulationStatus("running")
                /\ calls' = pollInstrumentReadouts(rest)
                /\ Prepared(c, "running")
                /\ UNCHANGED shown
         [] OTHER ->
                /\ stopVoltageReadoutPolling(c.before = "stopped")
                /\ setSimulationStatus(c.before)
                /\ calls' = rest
                /\ Prepared(c, c.before)
    /\ UNCHANGED <<jobs, stopPending, inFlight>>

\* runSimulation: a status that is newer than the request is left alone.
AfterStart(c, ok, rest) ==
    /\ CASE rev # c.rev ->
                /\ UNCHANGED <<status, rev, gen, timer, last, shown>>
                /\ calls' = rest
                /\ Prepared(c, status)
         [] rev = c.rev /\ ok ->
                /\ startVoltageReadoutPolling
                /\ setSimulationStatus("running")
                /\ calls' = pollInstrumentReadouts(rest)
                /\ Prepared(c, "running")
                /\ UNCHANGED shown
         [] OTHER ->
                /\ stopVoltageReadoutPolling(c.before = "stopped")
                /\ setSimulationStatus(c.before)
                /\ calls' = rest
                /\ Prepared(c, c.before)
    /\ UNCHANGED <<jobs, stopPending, inFlight>>

AfterPause(ok, rest) ==
    /\ IF ok THEN stopVoltageReadoutPolling(FALSE) /\ setSimulationStatus("paused")
       ELSE UNCHANGED <<status, rev, gen, timer, last, shown>>
    /\ calls' = rest
    /\ UNCHANGED <<ctrlVars, inFlight>>

\* The frame is shown whichever run asked for it.
MutAfterFrame(c, ok, rest) ==
    /\ inFlight' = FALSE
    /\ calls' = rest
    /\ IF ok THEN shown' = "values" /\ last' = c.p ELSE shown' = "blank" /\ UNCHANGED last
    /\ UNCHANGED <<status, rev, ctrlVars, gen, timer>>

\* The flag of the frame in transit is only reset when the frame came.
MutFrameInTransit(c, ok, rest) ==
    /\ inFlight' = (inFlight /\ ~ok)
    /\ calls' = rest
    /\ \/ /\ c.gen # gen
          /\ UNCHANGED <<shown, last>>
       \/ /\ c.gen = gen /\ ok
          /\ shown' = "values" /\ last' = c.p
       \/ /\ c.gen = gen /\ ok /\ last # 0
          /\ UNCHANGED <<shown, last>>
       \/ /\ c.gen = gen /\ ~ok
          /\ shown' = "blank"
          /\ UNCHANGED last
    /\ UNCHANGED <<status, rev, ctrlVars, gen, timer>>

\* pollTelemetryFrame: only for the generation that asked, only if newer than the last one
\* shown; another process counts from the beginning, so its frames may seem old.
AfterFrame(c, ok, rest) ==
    /\ inFlight' = FALSE
    /\ calls' = rest
    /\ \/ /\ c.gen # gen
          /\ UNCHANGED <<shown, last>>
       \/ /\ c.gen = gen /\ ok
          /\ shown' = "values" /\ last' = c.p
       \/ /\ c.gen = gen /\ ok /\ last # 0
          /\ UNCHANGED <<shown, last>>
       \/ /\ c.gen = gen /\ ~ok
          /\ shown' = "blank"
          /\ UNCHANGED last
    /\ UNCHANGED <<status, rev, ctrlVars, gen, timer>>

\* pollInstrumentReadouts of a resumption carries no generation.
AfterPoll(ok, rest) ==
    /\ shown' = IF ok THEN "values" ELSE "blank"
    /\ calls' = rest
    /\ UNCHANGED <<status, rev, ctrlVars, gen, timer, inFlight, last>>

Continue(c, ok, rest) ==
    \/ c.k = "start" /\ AfterStart(c, ok, rest)
    \/ c.k = "pause" /\ AfterPause(ok, rest)
    \/ c.k = "frame" /\ AfterFrame(c, ok, rest)
    \/ c.k = "poll" /\ AfterPoll(ok, rest)
    \/ c.k = "jobStop" /\ AfterStop(ok, rest) /\ UNCHANGED pollVars
    \/ c.k = "jobWork" /\ AfterWork(ok, rest) /\ UNCHANGED pollVars
    \/ c.k = "jobRun" /\ AfterRun(ok, rest)

\* _dispatch: the answer finds the request by its id, or is dropped if that timed out.
Deliver ==
    \E i \in DOMAIN calls :
        LET c == calls[i]
            rest == RemoveAt(calls, i)
        IN /\ c.res \in {"ok", "refused", "err"}
           /\ Rejecting => c.res = "err"
           /\ \A j \in 1..(i - 1) : calls[j].p # c.p /\ calls[j].res # "err"
           /\ IF c.awaited THEN Continue(c, c.res = "ok", rest)
              ELSE calls' = rest /\ UNCHANGED <<status, rev, ctrlVars, pollVars>>
           /\ UNCHANGED <<connVars, mode, silent, notes, ghosts, budget>>

\* The time is up: the request is forgotten and its promise rejected.
TimeOut ==
    /\ ~Rejecting
    /\ budget.faults < MaxFaults
    /\ \E i \in DOMAIN calls :
           /\ calls[i].awaited
           /\ Continue(calls[i], FALSE, [calls EXCEPT ![i].awaited = FALSE])
           /\ lost' = (lost \/ IsControl(calls[i].k))
    /\ budget' = [budget EXCEPT !.faults = @ + 1]
    /\ UNCHANGED <<connVars, mode, silent, notes, overlapped, loose, orphaned>>

\* The answer is good but startVoltageReadoutPolling throws, over a telemetryRateHz that is no
\* positive number, when it has taken a generation: the catch of runSimulation puts the status
\* of before back, the one of a rebuild leaves it "stopped".
PollingThrows ==
    /\ ~Rejecting
    /\ budget.faults < MaxFaults
    /\ budget' = [budget EXCEPT !.faults = @ + 1]
    /\ timer = 0
    /\ \E i \in DOMAIN calls :
           LET c == calls[i]
           IN /\ c.awaited /\ c.res = "ok"
              /\ \A j \in 1..(i - 1) : calls[j].p # c.p
              /\ calls' = RemoveAt(calls, i)
              /\ \/ /\ c.k = "start" /\ rev = c.rev
                    /\ gen' = gen + 2
                    /\ shown' = IF c.before = "stopped" THEN "blank" ELSE shown
                    /\ setSimulationStatus(c.before)
                    /\ Prepared(c, c.before)
                    /\ UNCHANGED jobs
                 \/ /\ c.k = "jobRun"
                    /\ gen' = gen + 1
                    /\ Finish
                    /\ UNCHANGED <<status, rev, shown>>
    /\ last' = 0
    /\ lost' = TRUE
    /\ UNCHANGED <<connVars, mode, silent, notes, stopPending, timer, inFlight, overlapped, loose, orphaned>>

-----------------------------------------------------------------------------
(* The Core *)

\* start resumes and starts; a pause of what is stopped is undone by the next start.
Effect(k, m) ==
    CASE k \in {"start", "jobRun"} -> "running"
      [] k = "pause" /\ m = "running" -> "paused"
      [] k = "jobStop" -> "stopped"
      [] OTHER -> m

\* What leaves the scheduler the way it was asked to be.
Commands(k) == k \in {"start", "pause", "jobStop", "jobRun"}

\* The first request that is not answered yet.
Execute ==
    /\ ~Rejecting
    /\ \E i \in DOMAIN calls :
           LET c == calls[i]
           IN /\ c.res = "sent" /\ proc[c.p] = "alive"
              /\ \A j \in 1..(i - 1) : calls[j].p # c.p \/ calls[j].res # "sent"
              /\ \/ /\ mode' = [mode EXCEPT ![c.p] = Effect(c.k, @)]
                    /\ silent' = IF Commands(c.k) THEN silent \ {c.p} ELSE silent
                    /\ calls' = [calls EXCEPT ![i].res = "ok"]
                    /\ UNCHANGED budget
                 \/ /\ c.k \in {"start", "jobRun"}
                    /\ budget.faults < MaxFaults
                    /\ budget' = [budget EXCEPT !.faults = @ + 1]
                    /\ calls' = [calls EXCEPT ![i].res = "refused"]
                    /\ UNCHANGED <<mode, silent>>
    /\ UNCHANGED <<status, rev, connVars, notes, ctrlVars, pollVars, ghosts>>

\* A pause condition holds in a settle.
TriggerCondition ==
    /\ ~Rejecting
    /\ budget.faults < MaxFaults
    /\ budget' = [budget EXCEPT !.faults = @ + 1]
    /\ \E p \in Procs :
           /\ proc[p] = "alive" /\ mode[p] = "running" /\ p \notin silent
           /\ mode' = [mode EXCEPT ![p] = "paused"]
           /\ notes' = notes \cup {p}
    /\ overlapped' = (overlapped \/ Unconditional)
    /\ UNCHANGED <<status, rev, connVars, silent, calls, ctrlVars, pollVars, loose, lost, orphaned>>

\* A batch of Python blocks fails (pythonRuntimeFault is sent, for the log), a condition fails
\* again whose error was reported, or the notification of one does not fit into the queue.
PauseSilently ==
    /\ ~Rejecting
    /\ budget.faults < MaxFaults
    /\ budget' = [budget EXCEPT !.faults = @ + 1]
    /\ \E p \in Procs \ silent :
           /\ proc[p] = "alive" /\ mode[p] = "running"
           /\ silent' = silent \cup {p}
    /\ UNCHANGED <<status, rev, connVars, mode, calls, notes, ctrlVars, pollVars, ghosts>>

\* attachCoreClientNotifications: pauseConditionTriggered; a pythonRuntimeFault only writes to
\* the log.
ReceiveCondition ==
    /\ ~Rejecting
    /\ \E p \in notes : sock[p] /\ notes' = notes \ {p}
    /\ stopVoltageReadoutPolling(FALSE)
    /\ setSimulationStatus("paused")
    /\ UNCHANGED <<connVars, mode, silent, calls, ctrlVars, inFlight, ghosts, budget>>

Crash ==
    /\ ~Rejecting
    /\ budget.faults < MaxFaults
    /\ budget' = [budget EXCEPT !.faults = @ + 1]
    /\ \E p \in Procs :
           /\ proc[p] = "alive"
           /\ proc' = [proc EXCEPT ![p] = "dead"]
    /\ UNCHANGED <<status, rev, client, sock, launched, mode, silent, calls, notes, ctrlVars, pollVars, ghosts>>

\* _destroy: every request of the connection is rejected.
SocketClosed ==
    /\ ~Rejecting
    /\ \E p \in Procs :
           /\ sock[p] /\ proc[p] \in {"dead", "reaped"}
           /\ sock' = [sock EXCEPT ![p] = FALSE]
           /\ notes' = notes \ {p}
           /\ calls' = [i \in DOMAIN calls |->
                           IF calls[i].p = p THEN [calls[i] EXCEPT !.res = "err"] ELSE calls[i]]
    /\ UNCHANGED <<status, rev, client, launched, proc, mode, silent, ctrlVars, pollVars, ghosts, budget>>

\* attachCoreProcessHandlers: the exit of any process takes the client away.
ProcessExit ==
    /\ ~Rejecting
    /\ \E p \in Procs :
           /\ proc[p] = "dead"
           /\ proc' = [proc EXCEPT ![p] = "reaped"]
           /\ overlapped' = (overlapped \/ Unconditional \/ client \notin {0, p})
    /\ client' = 0
    /\ setSimulationStatus("stopped")
    /\ orphaned' = (orphaned \/ timer # 0 \/ shown = "values")
    /\ loose' = (loose \/ \E i \in DOMAIN calls : calls[i].k = "poll")
    /\ UNCHANGED <<sock, launched, mode, silent, calls, notes, ctrlVars, pollVars, lost, budget>>

-----------------------------------------------------------------------------
User == PressRun \/ PressPause \/ PressStop \/ RebuildingEdit

Next ==
    \/ User
    \/ Tick \/ Prepare \/ StartJob \/ Deliver \/ TimeOut \/ PollingThrows
    \/ Execute \/ TriggerCondition \/ PauseSilently \/ ReceiveCondition
    \/ Crash \/ SocketClosed \/ ProcessExit

Spec == Init /\ [][Next]_vars

\* The event loop serves what is due, the timer fires, the Core answers while it lives.
FairSpec ==
    /\ Spec
    /\ WF_vars(Tick) /\ WF_vars(Deliver) /\ WF_vars(Execute)
    /\ WF_vars(ReceiveCondition) /\ WF_vars(SocketClosed)
    /\ SF_vars(Prepare) /\ SF_vars(StartJob) /\ SF_vars(ProcessExit)

-----------------------------------------------------------------------------
(* Properties *)

CoreStatus ==
    IF client = 0 \/ proc[client] # "alive" THEN "stopped"
    ELSE IF client \in silent THEN "paused" ELSE mode[client]

\* Once everything is answered, the status the extension shows is what the Core it talks to
\* is doing: runSimulation leaves a status alone that was set after its request (a pause
\* condition, an exit), and a rebuild resumes what it stopped.  A Core that has paused itself
\* silently is still shown as "running", and that is the only way the two may differ.  Excepted
\* are histories in which a gesture met an answer that is applied unconditionally, the exit of
\* an older process took the client away, an answer was lost or the polling after it threw.
StatusAgrees ==
    Quiet /\ ~overlapped /\ ~lost =>
        \/ status = CoreStatus
        \/ client \in silent /\ CoreStatus = "paused" /\ status = "running"

\* The extension shows a Core that has paused as paused: "A simulacao foi pausada por uma falha
\* Python" is what it logs.  It does not for the pauses no pauseConditionTriggered tells of.
PauseIsShown == Quiet /\ ~overlapped /\ ~lost => (CoreStatus = "paused" => status = "paused")

\* Values are only on the screen of a simulation that runs or is paused, and not while it
\* is being stopped: a frame asked for before stopVoltageReadoutPolling is recognised by its
\* generation when it arrives after the screen was cleared.  Excepted are the readouts of a
\* resumption, which carry no generation, and what an exit of the Core leaves behind.
StoppedScreenIsBlank ==
    ~overlapped /\ ~lost /\ ~loose /\ ~orphaned /\ shown = "values" => status # "stopped" /\ ~stopPending

\* One frame is in transit at most ("um unico frame visual em transito"), and
\* telemetryPollInFlight says so exactly: the flag is reset by every way a request ends, and
\* by nothing else, over stops, rebuilds and changes of the Core.
InTransit == {i \in DOMAIN calls : calls[i].k = "frame" /\ calls[i].awaited}
OneFrameInTransit ==
    /\ inFlight <=> InTransit # {}
    /\ \A i, j \in InTransit : i = j

\* Stop and Run never stay unavailable: stopOperationPending and the flag of a preparation
\* are reset whatever becomes of their requests (refusal, timeout, death of the Core).
ControlsReturn == []<>(~stopPending) /\ []<>(prep = "no")

\* A running simulation is seen: telemetryPollInFlight never blocks the timer for good, and
\* a frame of the Core that runs is shown.
FramesFlow ==
    /\ []<>(~inFlight)
    /\ status = "running" ~> status # "running" \/ last = client \/ overlapped \/ lost \/ orphaned

=============================================================================
