------------------------------ MODULE CoreSync ------------------------------
(***************************************************************************)
(* How the Core follows the document while the user edits                   *)
(* (extension/src/core/coreLifecycle.ts, the message handlers of            *)
(* extension/src/extension.ts, extension/src/ipc/CoreClient.ts).            *)
(*                                                                         *)
(* A handler changes the document at once and puts what the Core has to do  *)
(* on one queue of jobs (enqueueCoreMutation); snapshots from undo and redo *)
(* wait on a second queue that feeds the first.  Handlers run whenever a    *)
(* job awaits an answer; each request, with the code up to the next one, is *)
(* one step.  The Core refuses topology changes while its scheduler runs,   *)
(* and a pause does not stop it; an answer may be lost (the request times   *)
(* out although it was executed).                                           *)
(*                                                                         *)
(* The document has components with one property, and one wire between two  *)
(* of them (WireTopology has the graphs).  The property of some is           *)
(* structural, and the Core refuses to set it while it runs, that of some    *)
(* decides the pins too; some values the Core refuses always.  The extension *)
(* only reports what is refused: the document keeps the value, the Core the  *)
(* one it had.                                                               *)
(*                                                                         *)
(* The webview of this version draws and removes wires itself and posts a    *)
(* snapshot (projectChanged); requestConnectEndpoints, requestRemoveWire and  *)
(* requestAddComponent are verbs of the protocol that the host still serves. *)
(***************************************************************************)
EXTENDS Integers, FiniteSets, Bags, SequencesExt

CONSTANTS
    Components,     \* component ids of the document
    Ends,           \* the two components the wire joins
    Values,         \* values of the property; 0 is the default
    AffectsTopology,    \* the components whose property has this flag: it is structural
    AffectsPinCount,    \* those whose property decides the pins
    Invalid,        \* values of a wrong type or option, or out of range
    Pinless,        \* values with which the component has not the pin the wire is at
    Loaded,         \* the components of the project at the start
    MaxEdits,       \* bound: edits of the document
    MaxEvents       \* bound: presses of Run, Pause and Stop, answers lost, runs that fail

ASSUME ComponentsAssumption == Components \subseteq Nat /\ IsFiniteSet(Components)
ASSUME EndsAssumption == Ends \subseteq Components /\ Cardinality(Ends) = 2
ASSUME LoadedAssumption == Loaded \subseteq Components
ASSUME ValuesAssumption == 0 \in Values /\ Values \subseteq Nat
ASSUME FlagsAssumption == AffectsTopology \cup AffectsPinCount \subseteq Components
ASSUME InvalidAssumption == Invalid \subseteq Values \ {0}
ASSUME PinlessAssumption == Pinless \subseteq Values \ {0}
ASSUME BoundsAssumption == MaxEdits \in Nat /\ MaxEvents \in Nat

VARIABLES
    doc,            \* state.schematicState: [comps, val, wired]
    map,            \* coreInstanceIdByComponentId, 0: no entry
    inst,           \* the Core's instances by id: [of, val, live], and the history of each, denied:
                    \* the last value committed to it, if the Core refused that; -1: it did not
    wires,          \* the Core's wires, a bag of pairs of ids
    on,             \* the Core's scheduler isRunning()
    stale,          \* CoreClient.wireTopologyRevision is not the Core's
    status,         \* state.simulationStatus
    queue,          \* coreMutationQueue: the job in progress first
    rebuildScheduled,
    previews,       \* pendingPropertyPreviews, -1: none
    draining,       \* activePropertyPreviewDrains
    snaps,          \* projectSnapshotSyncQueue: snapshots to synchronise, [prev, next]
    snapWait,       \* what the first of them awaits: "none", "txn", "rebuild"
    born,           \* history: ids given to a component (nextId never repeats)
    lastInput,      \* history: the last thing the user did to the property
    tainted,        \* history: an edit crossed one not synchronised yet, or a change of the
                    \* components, the wire or the pins was refused
    leaked,         \* history: an instance may have been forgotten
    budget          \* edits and other events so far

docVars == <<doc, born, lastInput>>
coreVars == <<inst, wires, on>>
snapVars == <<snaps, snapWait>>
previewVars == <<previews, draining>>
ghosts == <<tainted, leaked>>
vars == <<doc, map, inst, wires, on, stale, status, queue, rebuildScheduled, previews,
          draining, snaps, snapWait, born, lastInput, tainted, leaked, budget>>

Init ==
    /\ doc = [comps |-> Loaded, val |-> [c \in Components |-> 0], wired |-> FALSE]
    /\ map = [c \in Components |-> IF c \in Loaded THEN Cardinality({x \in Loaded : x <= c}) ELSE 0]
    /\ inst = [i \in 1..Cardinality(Loaded) |-> [of |-> CHOOSE c \in Loaded : map[c] = i,
                                                 val |-> 0, live |-> TRUE, denied |-> -1]]
    /\ wires = EmptyBag
    /\ status \in {"stopped", "running", "paused"}
    /\ on = (status # "stopped")
    /\ stale = FALSE
    /\ queue = <<>>
    /\ rebuildScheduled = FALSE
    /\ previews = [c \in Components |-> -1]
    /\ draining = {}
    /\ snaps = <<>>
    /\ snapWait = "none"
    /\ born = Loaded
    /\ lastInput = [c \in Components |-> "commit"]
    /\ tainted = FALSE
    /\ leaked = FALSE
    /\ budget = [edits |-> 0, events |-> 0]

-----------------------------------------------------------------------------
(* The Core *)

Live == {i \in DOMAIN inst : inst[i].live}
Pair == {map[c] : c \in Ends}
Resolved == \A c \in Ends : map[c] # 0

\* The wires without those at an instance.
Detached(i) == [p \in {q \in DOMAIN wires : i \notin q} |-> wires[p]]

\* The properties are left to the factories: the instance keeps its default.
MutAddInstance(c, v) ==
    inst' = Append(inst, [of |-> c, val |-> 0, live |-> TRUE,
                          denied |-> IF v \in Invalid THEN v ELSE -1])

\* Hydration reports nothing: of a value the Core would refuse it keeps the default, or
\* takes it unchecked.
AddInstance(c, v) ==
    \E x \in IF v \in Invalid THEN {0, v} ELSE {v} :
        inst' = Append(inst, [of |-> c, val |-> x, live |-> TRUE,
                              denied |-> IF v \in Invalid THEN v ELSE -1])
RemoveInstance(i) ==
    /\ inst' = [inst EXCEPT ![i].live = FALSE]
    /\ wires' = Detached(i)

\* setPropertyUnlocked: an instance that exists, nothing structural while the scheduler
\* runs, a valid value.
Accepts(i, v) ==
    /\ inst[i].live
    /\ on => inst[i].of \notin AffectsTopology \cup AffectsPinCount
    /\ v \notin Invalid

\* The wires stay although the pins are others.
MutRepinned(i, v) == wires

\* reregisterPinsIfChanged: other pins take every wire off the instance.
Repinned(i, v) ==
    IF inst[i].of \in AffectsPinCount /\ inst[i].val # v THEN Detached(i) ELSE wires

\* connectWire needs both pins.
HasPin(c, v) == c \in AffectsPinCount => v \notin Pinless
Connectable(ids) == \A i \in ids : inst[i].live /\ HasPin(inst[i].of, inst[i].val)

\* How a request can end: the Core refuses it, it executes it, or it executes it and
\* the answer comes after the time-out.
Answers(ok) ==
    IF ~ok THEN {"refused"}
    ELSE {"ok"} \cup (IF budget.events < MaxEvents THEN {"lost"} ELSE {})
Spend(answer) ==
    budget' = IF answer = "lost" THEN [budget EXCEPT !.events = @ + 1] ELSE budget

-----------------------------------------------------------------------------
(* The queue *)

\* A job: what it is about (c, v, id, ids) and how far it has come (phase).
Job(k) == [k |-> k, phase |-> "queued", c |-> 0, v |-> 0, id |-> 0, ids |-> <<>>,
           connect |-> FALSE, resume |-> FALSE, awaited |-> FALSE, undisturbed |-> TRUE]
Current == Head(queue)
IsRebuild(j) == j.k \in {"rebuild", "stop"}

\* What is due before any event of the user or the Core is served.
StartDue == queue # <<>> /\ Current.phase = "queued"
SnapDue == snaps # <<>> /\ snapWait = "none"
Settled == ~StartDue /\ ~SnapDue
Quiet == queue = <<>> /\ snaps = <<>>

\* What an edit can cross: a snapshot or a paste still to be synchronised, a rebuild.
Syncing == snaps # <<>> \/ \E i \in DOMAIN queue : queue[i].k \in {"insert", "wire"}
Crosses == Syncing \/ \E i \in DOMAIN queue : IsRebuild(queue[i])

enqueueCoreMutation(q, j) == Append(q, j)

\* queueCoreRebuild shares the rebuild that is scheduled and has not begun.
queueCoreRebuild(q, awaited) ==
    /\ rebuildScheduled' = TRUE
    /\ queue' = IF ~rebuildScheduled
                THEN enqueueCoreMutation(q, [Job("rebuild") EXCEPT !.awaited = awaited])
                ELSE [i \in DOMAIN q |-> IF q[i].k = "rebuild" /\ q[i].phase = "queued"
                                         THEN [q[i] EXCEPT !.awaited = @ \/ awaited]
                                         ELSE q[i]]

Proceed(j) == queue' = [queue EXCEPT ![1] = j] /\ UNCHANGED rebuildScheduled
Finish == queue' = Tail(queue) /\ UNCHANGED rebuildScheduled

\* The job in progress starts: the code up to its first request.
StartAdd ==
    /\ Current.k \in {"add", "insert"}
    /\ Proceed([Current EXCEPT !.phase = "sent"])
    /\ UNCHANGED <<previews, draining, snapWait>>

StartRemove ==
    /\ Current.k = "remove"
    /\ Proceed([Current EXCEPT !.phase = "sent"])
    /\ UNCHANGED <<previews, draining, snapWait>>

StartProperty ==
    /\ Current.k = "property"
    /\ IF map[Current.c] = 0 THEN Finish
       ELSE Proceed([Current EXCEPT !.phase = "sent", !.id = map[Current.c]])
    /\ UNCHANGED <<previews, draining, snapWait>>

\* The drain takes the latest preview; without an instance to set it is dropped.
StartPreview ==
    /\ Current.k = "preview"
    /\ previews' = [previews EXCEPT ![Current.c] = -1]
    /\ IF previews[Current.c] # -1 /\ map[Current.c] # 0
       THEN /\ Proceed([Current EXCEPT !.phase = "sent", !.id = map[Current.c],
                                       !.v = previews[Current.c]])
            /\ UNCHANGED draining
       ELSE /\ Finish
            /\ draining' = draining \ {Current.c}
    /\ UNCHANGED snapWait

\* An endpoint without an instance fails the transaction; the caller then rebuilds.
StartTransaction ==
    /\ Current.k = "transaction"
    /\ IF Resolved
       THEN /\ Proceed([Current EXCEPT !.phase = "sent", !.ids = SetToSeq(Pair)])
            /\ UNCHANGED snapWait
       ELSE /\ queueCoreRebuild(Tail(queue), Current.awaited)
            /\ snapWait' = IF Current.awaited THEN "rebuild" ELSE snapWait
    /\ UNCHANGED <<previews, draining>>

StartWire ==
    /\ Current.k = "wire"
    /\ IF Resolved THEN Proceed([Current EXCEPT !.phase = "sent", !.ids = SetToSeq(Pair)]) ELSE Finish
    /\ UNCHANGED <<previews, draining, snapWait>>

\* The flag is left set.
MutStartRebuild ==
    /\ Current.k = "rebuild"
    /\ Proceed([Current EXCEPT !.phase = "prepare"])
    /\ UNCHANGED <<previews, draining, snapWait>>

StartRebuild ==
    /\ Current.k = "rebuild"
    /\ queue' = [queue EXCEPT ![1].phase = "prepare"]
    /\ rebuildScheduled' = FALSE
    /\ UNCHANGED <<previews, draining, snapWait>>

StartStop ==
    /\ Current.k = "stop"
    /\ Proceed([Current EXCEPT !.phase = "stopping"])
    /\ UNCHANGED <<previews, draining, snapWait>>

Start ==
    /\ StartDue
    /\ \/ StartAdd \/ StartRemove \/ StartProperty \/ StartPreview
       \/ StartTransaction \/ StartWire \/ StartRebuild \/ StartStop
    /\ UNCHANGED <<docVars, map, coreVars, stale, status, snaps, ghosts, budget>>

-----------------------------------------------------------------------------
(* Answers *)

\* pushComponentToCoreNow.  A component added from the palette enters the document
\* only now; one that is pasted is there already and its wire is pushed next.
AnswerAdd ==
    /\ Current.k \in {"add", "insert"} /\ Current.phase = "sent"
    /\ \E answer \in Answers(~on) :
           /\ Spend(answer)
           /\ IF answer = "refused" THEN UNCHANGED inst ELSE AddInstance(Current.c, Current.v)
           /\ map' = IF answer = "ok" THEN [map EXCEPT ![Current.c] = Len(inst) + 1] ELSE map
           /\ stale' = (stale /\ answer # "ok")
           /\ doc' = IF answer = "ok" /\ Current.k = "add"
                     THEN [doc EXCEPT !.comps = @ \cup {Current.c}] ELSE doc
           /\ tainted' = (tainted \/ (Current.k = "insert" /\ answer # "ok"))
           /\ leaked' = (leaked \/ answer = "lost")
    /\ queue' = IF Current.connect THEN Append(Tail(queue), Job("wire")) ELSE Tail(queue)
    /\ UNCHANGED <<rebuildScheduled, born, lastInput, wires, on, status, previewVars, snapVars>>

AnswerRemove ==
    /\ Current.k = "remove" /\ Current.phase = "sent"
    /\ \E answer \in Answers(~on) :
           /\ Spend(answer)
           /\ IF answer = "refused" THEN UNCHANGED <<inst, wires>> ELSE RemoveInstance(Current.id)
           /\ stale' = (stale /\ answer # "ok")
           /\ leaked' = (leaked \/ answer = "refused")
    /\ Finish
    /\ UNCHANGED <<docVars, map, on, status, previewVars, snapVars, tainted>>

\* A refusal is only reported; a document that dropped a wire with its pins keeps it so.
AnswerProperty ==
    /\ Current.k = "property" /\ Current.phase = "sent"
    /\ \/ /\ Accepts(Current.id, Current.v)
          /\ inst' = [inst EXCEPT ![Current.id].val = Current.v, ![Current.id].denied = -1]
          /\ wires' = Repinned(Current.id, Current.v)
          /\ UNCHANGED tainted
       \/ /\ ~Accepts(Current.id, Current.v)
          /\ inst' = [inst EXCEPT ![Current.id].denied = Current.v]
          /\ tainted' = (tainted \/ Current.c \in AffectsPinCount)
          /\ UNCHANGED wires
    /\ Finish
    /\ UNCHANGED <<docVars, map, on, stale, status, previewVars, snapVars, leaked, budget>>

\* The drain goes on with the latest preview, if another one came.
AnswerPreview ==
    /\ Current.k = "preview" /\ Current.phase = "sent"
    /\ \/ /\ Accepts(Current.id, Current.v)
          /\ inst' = [inst EXCEPT ![Current.id].val = Current.v]
          /\ wires' = Repinned(Current.id, Current.v)
          /\ tainted' = (tainted \/ wires' # wires)
       \/ /\ ~Accepts(Current.id, Current.v)
          /\ UNCHANGED <<inst, wires, tainted>>
    /\ Proceed([Current EXCEPT !.phase = "queued"])
    /\ UNCHANGED <<docVars, map, on, stale, status, previewVars, snapVars, leaked, budget>>

Connected(bag, ids) == bag (+) SetToBag({ToSet(ids)})
Disconnected(bag, ids) == bag (-) SetToBag({ToSet(ids)})

\* applyWireTopologyTransaction, checked against the revision; what is not confirmed
\* is followed by a rebuild.
AnswerTransaction ==
    /\ Current.k = "transaction" /\ Current.phase = "sent"
    /\ \E answer \in Answers(/\ ~on /\ ~stale
                             /\ IF Current.connect THEN Connectable(ToSet(Current.ids))
                                ELSE ToSet(Current.ids) \subseteq Live) :
           /\ Spend(answer)
           /\ wires' = CASE answer = "refused" -> wires
                         [] answer # "refused" /\ Current.connect -> Connected(wires, Current.ids)
                         [] OTHER -> Disconnected(wires, Current.ids)
           /\ stale' = (stale \/ answer = "lost")
           /\ IF answer = "ok"
              THEN /\ Finish
                   /\ snaps' = IF Current.awaited THEN Tail(snaps) ELSE snaps
                   /\ snapWait' = IF Current.awaited THEN "none" ELSE snapWait
              ELSE /\ queueCoreRebuild(Tail(queue), Current.awaited)
                   /\ snapWait' = IF Current.awaited THEN "rebuild" ELSE snapWait
                   /\ UNCHANGED snaps
    /\ UNCHANGED <<docVars, map, inst, on, status, previewVars, ghosts>>

\* pushWireToCore, for the wires of what is pasted: a failure is only reported.
AnswerWire ==
    /\ Current.k = "wire" /\ Current.phase = "sent"
    /\ \E answer \in Answers(~on /\ Connectable(ToSet(Current.ids))) :
           /\ Spend(answer)
           /\ wires' = IF answer = "refused" THEN wires ELSE Connected(wires, Current.ids)
           /\ stale' = ((stale /\ answer # "ok") \/ answer = "lost")
           /\ tainted' = (tainted \/ answer = "refused")
    /\ Finish
    /\ UNCHANGED <<docVars, map, inst, on, status, previewVars, snapVars, leaked>>

-----------------------------------------------------------------------------
(* rebuildCoreFromSchematicStateNow *)

Rebuilding(phase) == queue # <<>> /\ IsRebuild(Current) /\ Current.phase = phase

\* stopSimulation's job first stops the Core.
StopCore ==
    /\ Rebuilding("stopping")
    /\ on' = FALSE
    /\ Proceed([Current EXCEPT !.phase = "prepare"])
    /\ UNCHANGED <<docVars, map, inst, wires, stale, status, previewVars, snapVars, ghosts, budget>>

\* Only a simulation that is "running" now is stopped, and resumed in the end.
RebuildPrepare ==
    /\ Rebuilding("prepare")
    /\ Proceed([Current EXCEPT !.phase = "halt",
                               !.resume = Current.k = "rebuild" /\ status = "running"])
    /\ UNCHANGED <<docVars, map, coreVars, stale, status, previewVars, snapVars, ghosts, budget>>

\* Nothing is removed before the components are added again.
MutCaptureInstances(j) == [j EXCEPT !.phase = "remove", !.ids = <<>>]

\* The instances known to the map, then none; the components as they are now.
CaptureInstances(j) ==
    [j EXCEPT !.phase = "remove", !.ids = SetToSeq({map[c] : c \in Components} \ {0})]

\* The components as they were when the rebuild was asked for: those still known.
MutCaptureComponents(j) ==
    [j EXCEPT !.phase = "add",
              !.ids = LET todo == SetToSeq({c \in doc.comps : map[c] # 0})
                      IN [i \in DOMAIN todo |-> <<todo[i], doc.val[todo[i]]>>]]

CaptureComponents(j) ==
    [j EXCEPT !.phase = "add",
              !.ids = LET todo == SetToSeq(doc.comps)
                      IN [i \in DOMAIN todo |-> <<todo[i], doc.val[todo[i]]>>]]

RebuildHalt ==
    /\ Rebuilding("halt")
    /\ on' = (on /\ ~Current.resume)
    /\ status' = IF Current.resume THEN "stopped" ELSE status
    /\ Proceed(CaptureInstances(Current))
    /\ UNCHANGED <<docVars, map, inst, wires, stale, previewVars, snapVars, ghosts, budget>>

\* The answer to the stop or to the configuration never comes: what is left of the job
\* is given up, and a simulation that was halted stays so.
RebuildAbort ==
    /\ Rebuilding("stopping") \/ Rebuilding("halt")
    /\ budget.events < MaxEvents
    /\ budget' = [budget EXCEPT !.events = @ + 1]
    /\ on' = (on /\ ~(Current.phase = "stopping" \/ Current.resume))
    /\ status' = IF Current.resume THEN "stopped" ELSE status
    /\ snaps' = IF Current.awaited THEN Tail(snaps) ELSE snaps
    /\ snapWait' = IF Current.awaited THEN "none" ELSE snapWait
    /\ tainted' = TRUE
    /\ Finish
    /\ UNCHANGED <<docVars, map, inst, wires, stale, previewVars, leaked>>

\* Each one removed; what fails is ignored.
RebuildRemove ==
    /\ Rebuilding("remove") /\ Current.ids # <<>>
    /\ \E answer \in Answers(~on) :
           /\ Spend(answer)
           /\ IF answer = "refused" THEN UNCHANGED <<inst, wires>>
              ELSE RemoveInstance(Head(Current.ids))
           /\ stale' = (stale /\ answer # "ok")
           /\ leaked' = (leaked \/ answer = "refused")
    /\ Proceed([Current EXCEPT !.ids = Tail(@)])
    /\ UNCHANGED <<docVars, map, on, status, previewVars, snapVars, tainted>>

RebuildClear ==
    /\ Rebuilding("remove") /\ Current.ids = <<>>
    /\ map' = [c \in Components |-> 0]
    /\ Proceed(CaptureComponents(Current))
    /\ UNCHANGED <<docVars, coreVars, stale, status, previewVars, snapVars, ghosts, budget>>

RebuildAdd ==
    /\ Rebuilding("add") /\ Current.ids # <<>>
    /\ \E answer \in Answers(~on) :
           /\ Spend(answer)
           /\ IF answer = "refused" THEN UNCHANGED inst
              ELSE AddInstance(Head(Current.ids)[1], Head(Current.ids)[2])
           /\ map' = IF answer = "ok" THEN [map EXCEPT ![Head(Current.ids)[1]] = Len(inst) + 1] ELSE map
           /\ stale' = (stale /\ answer # "ok")
           /\ tainted' = (tainted \/ answer # "ok")
           /\ leaked' = (leaked \/ answer = "lost")
           /\ Proceed([Current EXCEPT !.ids = Tail(@), !.undisturbed = @ /\ answer = "ok"])
    /\ UNCHANGED <<docVars, wires, on, status, previewVars, snapVars>>

\* The edges of the document as it is now, between what has an instance.
RebuildEdges ==
    /\ Rebuilding("add") /\ Current.ids = <<>>
    /\ IF doc.wired /\ Resolved
       THEN Proceed([Current EXCEPT !.phase = "wire", !.ids = SetToSeq(Pair)])
       ELSE Proceed([Current EXCEPT !.phase = "resume"])
    /\ UNCHANGED <<docVars, map, coreVars, stale, status, previewVars, snapVars, ghosts, budget>>

RebuildWire ==
    /\ Rebuilding("wire")
    /\ \E answer \in Answers(~on /\ Connectable(ToSet(Current.ids))) :
           /\ Spend(answer)
           /\ wires' = IF answer = "refused" THEN wires ELSE Connected(wires, Current.ids)
           /\ stale' = ((stale /\ answer # "ok") \/ answer = "lost")
           /\ tainted' = (tainted \/ answer = "refused")
           /\ Proceed([Current EXCEPT !.phase = "resume", !.undisturbed = @ /\ answer # "refused"])
    /\ UNCHANGED <<docVars, map, inst, on, status, previewVars, snapVars, leaked>>

\* A rebuild that nothing crossed has repaired whatever was wrong with the map.  The run
\* that resumes may be refused, or its answer be lost, or the polling throw: it is only
\* reported, and the status stays "stopped".
RebuildResume ==
    /\ Rebuilding("resume")
    /\ \/ /\ on' = (on \/ Current.resume)
          /\ status' = CASE Current.k = "stop" -> "stopped"
                         [] Current.k = "rebuild" /\ Current.resume -> "running"
                         [] OTHER -> status
          /\ UNCHANGED budget
       \/ /\ Current.resume
          /\ budget.events < MaxEvents
          /\ budget' = [budget EXCEPT !.events = @ + 1]
          /\ on' \in {on, TRUE}
          /\ UNCHANGED status
    /\ snaps' = IF Current.awaited THEN Tail(snaps) ELSE snaps
    /\ snapWait' = IF Current.awaited THEN "none" ELSE snapWait
    /\ tainted' = (tainted /\ ~(Current.undisturbed /\ Len(queue) = 1 /\ snaps' = <<>>))
    /\ Finish
    /\ UNCHANGED <<docVars, map, inst, wires, stale, previewVars, leaked>>

-----------------------------------------------------------------------------
(* syncProjectSnapshotToCore *)

Changed(s) == {c \in s.next.comps : s.prev.val[c] # s.next.val[c]}
PropertyJobs(s) ==
    LET cs == SetToSeq(Changed(s))
    IN [i \in DOMAIN cs |-> [Job("property") EXCEPT !.c = cs[i], !.v = s.next.val[cs[i]]]]

\* Components first, then wires, then properties: each alternative returns.
SyncSnapshot ==
    LET s == Head(snaps)
    IN /\ SnapDue
       /\ \/ /\ s.prev.comps # s.next.comps
             /\ queueCoreRebuild(queue, TRUE)
             /\ snapWait' = "rebuild"
             /\ UNCHANGED snaps
          \/ /\ s.prev.comps = s.next.comps
             /\ s.prev.wired # s.next.wired
             /\ queue' = enqueueCoreMutation(queue,
                    [Job("transaction") EXCEPT !.connect = s.next.wired, !.awaited = TRUE])
             /\ snapWait' = "txn"
             /\ UNCHANGED <<snaps, rebuildScheduled>>
          \/ /\ s.prev.comps = s.next.comps
             /\ s.prev.wired = s.next.wired
             /\ queue' = queue \o PropertyJobs(s)
             /\ snaps' = Tail(snaps)
             /\ UNCHANGED <<snapWait, rebuildScheduled>>
       /\ UNCHANGED <<docVars, map, coreVars, stale, status, previewVars, ghosts, budget>>

-----------------------------------------------------------------------------
(* The handlers *)

Edit ==
    /\ Settled
    /\ budget.edits < MaxEdits
    /\ budget' = [budget EXCEPT !.edits = @ + 1]

Crossing(taints, leaks) ==
    /\ tainted' = (tainted \/ taints)
    /\ leaked' = (leaked \/ leaks)

Enqueued(j, disturbs) ==
    /\ queue' = enqueueCoreMutation(
           [i \in DOMAIN queue |-> [queue[i] EXCEPT !.undisturbed = @ /\ ~disturbs]], j)
    /\ UNCHANGED rebuildScheduled

requestAddComponent(c) ==
    /\ Edit
    /\ c \notin born
    /\ born' = born \cup {c}
    /\ Enqueued([Job("add") EXCEPT !.c = c], FALSE)
    /\ UNCHANGED <<doc, lastInput, map, coreVars, stale, status, previewVars, snapVars, ghosts>>

\* A component pasted, with the wire to the other one or without.
requestInsertItems(c, wired) ==
    /\ Edit
    /\ c \notin born
    /\ wired => /\ c \in Ends /\ Ends \subseteq doc.comps \cup {c}
                /\ \A e \in Ends : HasPin(e, doc.val[e])
    /\ born' = born \cup {c}
    /\ doc' = [doc EXCEPT !.comps = @ \cup {c}, !.wired = @ \/ wired]
    /\ Enqueued([Job("insert") EXCEPT !.c = c, !.connect = wired], TRUE)
    /\ Crossing(Crosses, Crosses)
    /\ UNCHANGED <<lastInput, map, coreVars, stale, status, previewVars, snapVars>>

\* pushRemoveToCore needs the instance to be known now.
requestRemoveComponent(c) ==
    /\ Edit
    /\ c \in doc.comps
    /\ doc' = [doc EXCEPT !.comps = @ \ {c}, !.wired = @ /\ c \notin Ends]
    /\ map' = [map EXCEPT ![c] = 0]
    /\ IF map[c] # 0 THEN Enqueued([Job("remove") EXCEPT !.id = map[c]], TRUE)
       ELSE /\ queue' = [i \in DOMAIN queue |-> [queue[i] EXCEPT !.undisturbed = FALSE]]
            /\ UNCHANGED rebuildScheduled
    /\ Crossing(Crosses, Crosses)
    /\ UNCHANGED <<born, lastInput, coreVars, stale, status, previewVars, snapVars>>

\* The commit is left to the drain of the previews.
MutUpdateProperty(c, v) ==
    /\ Edit
    /\ c \in doc.comps
    /\ doc' = [doc EXCEPT !.val[c] = v, !.wired = @ /\ (c \in Ends => HasPin(c, v))]
    /\ lastInput' = [lastInput EXCEPT ![c] = "commit"]
    /\ IF c \in draining THEN UNCHANGED <<queue, rebuildScheduled>>
       ELSE Enqueued([Job("property") EXCEPT !.c = c, !.v = v], FALSE)
    /\ Crossing(Syncing, FALSE)
    /\ UNCHANGED <<born, map, coreVars, stale, status, previewVars, snapVars>>

\* The document drops the wire with its pin, and leaves it to the Core to do the same.
requestUpdateProperty(c, v) ==
    /\ Edit
    /\ c \in doc.comps
    /\ doc' = [doc EXCEPT !.val[c] = v, !.wired = @ /\ (c \in Ends => HasPin(c, v))]
    /\ lastInput' = [lastInput EXCEPT ![c] = "commit"]
    /\ Enqueued([Job("property") EXCEPT !.c = c, !.v = v], FALSE)
    /\ Crossing(Syncing, FALSE)
    /\ UNCHANGED <<born, map, coreVars, stale, status, previewVars, snapVars>>

\* previewPropertyInCore: one drain per property serves every preview that comes.
requestPreviewProperty(c, v) ==
    /\ Edit
    /\ c \in doc.comps
    /\ previews' = [previews EXCEPT ![c] = v]
    /\ lastInput' = [lastInput EXCEPT ![c] = "preview"]
    /\ draining' = draining \cup {c}
    /\ IF c \in draining THEN UNCHANGED <<queue, rebuildScheduled>>
       ELSE Enqueued([Job("preview") EXCEPT !.c = c], FALSE)
    /\ UNCHANGED <<doc, born, map, coreVars, stale, status, snapVars, ghosts>>

requestConnectEndpoints ==
    /\ Edit
    /\ Ends \subseteq doc.comps /\ ~doc.wired
    /\ \A c \in Ends : HasPin(c, doc.val[c])
    /\ doc' = [doc EXCEPT !.wired = TRUE]
    /\ Enqueued([Job("transaction") EXCEPT !.connect = TRUE], TRUE)
    /\ Crossing(Crosses, FALSE)
    /\ UNCHANGED <<born, lastInput, map, coreVars, stale, status, previewVars, snapVars>>

requestRemoveWire ==
    /\ Edit
    /\ doc.wired
    /\ doc' = [doc EXCEPT !.wired = FALSE]
    /\ Enqueued(Job("transaction"), FALSE)
    /\ Crossing(Syncing, FALSE)
    /\ UNCHANGED <<born, lastInput, map, coreVars, stale, status, previewVars, snapVars>>

\* projectChanged with the snapshot of an undo or a redo.  One that changes wires and
\* properties at once has only its wires synchronised.
projectChanged(next) ==
    /\ Edit
    /\ next # doc
    /\ doc' = next
    /\ snaps' = Append(snaps, [prev |-> doc, next |-> next])
    /\ lastInput' = [c \in Components |-> IF next.val[c] # doc.val[c] THEN "commit" ELSE lastInput[c]]
    /\ queue' = [i \in DOMAIN queue |-> [queue[i] EXCEPT !.undisturbed = FALSE]]
    /\ Crossing(\/ Crosses
                \/ /\ next.comps = doc.comps /\ next.wired # doc.wired
                   /\ \E c \in doc.comps : next.val[c] # doc.val[c],
                Crosses)
    /\ UNCHANGED <<born, map, coreVars, stale, status, rebuildScheduled, previewVars, snapWait>>

Snapshots ==
    {d \in [comps : SUBSET born, val : [Components -> Values], wired : BOOLEAN] :
        /\ d.wired => Ends \subseteq d.comps /\ \A c \in Ends : HasPin(c, d.val[c])
        /\ \A c \in Components \ d.comps : d.val[c] = doc.val[c]}

Control ==
    /\ Settled
    /\ budget.events < MaxEvents
    /\ budget' = [budget EXCEPT !.events = @ + 1]

\* A run that fails, or whose answer is lost, leaves the status as it was.
runSimulation ==
    /\ Control
    /\ status \in {"stopped", "paused"}
    /\ \/ on' = TRUE /\ status' = "running"
       \/ on' \in {on, TRUE} /\ UNCHANGED status
    /\ UNCHANGED <<docVars, map, inst, wires, stale, queue, rebuildScheduled, previewVars, snapVars, ghosts>>

pauseSimulation ==
    /\ Control
    /\ status = "running"
    /\ status' = "paused"
    /\ UNCHANGED <<docVars, map, coreVars, stale, queue, rebuildScheduled, previewVars, snapVars, ghosts>>

\* stopOperationPending: one at a time.
stopSimulation ==
    /\ Control
    /\ status # "stopped"
    /\ ~\E i \in DOMAIN queue : queue[i].k = "stop"
    /\ Enqueued(Job("stop"), FALSE)
    /\ UNCHANGED <<docVars, map, coreVars, stale, status, previewVars, snapVars, ghosts>>

-----------------------------------------------------------------------------
Answer ==
    /\ queue # <<>>
    /\ \/ AnswerAdd \/ AnswerRemove \/ AnswerProperty \/ AnswerPreview
       \/ AnswerTransaction \/ AnswerWire

Rebuild ==
    \/ StopCore \/ RebuildPrepare \/ RebuildHalt \/ RebuildAbort \/ RebuildRemove \/ RebuildClear
    \/ RebuildAdd \/ RebuildEdges \/ RebuildWire \/ RebuildResume

\* The queues move by themselves, snapshots first: nothing is awaited there.
Work == SyncSnapshot \/ (~SnapDue /\ (Start \/ (~StartDue /\ (Answer \/ Rebuild))))

User ==
    \/ \E c \in Components : \/ requestAddComponent(c)
                             \/ requestRemoveComponent(c)
                             \/ \E wired \in BOOLEAN : requestInsertItems(c, wired)
                             \/ \E v \in Values : \/ requestUpdateProperty(c, v)
                                                  \/ requestPreviewProperty(c, v)
    \/ requestConnectEndpoints \/ requestRemoveWire
    \/ \E next \in Snapshots : projectChanged(next)
    \/ runSimulation \/ pauseSimulation \/ stopSimulation

Next == Work \/ User

Spec == Init /\ [][Next]_vars

\* The Core answers every request (or the request times out) and the event loop serves
\* what is due.
FairSpec == Spec /\ WF_vars(Work)

-----------------------------------------------------------------------------
(* Properties *)

\* How often the Core has a wire.
Copies(pair) == IF pair \in DOMAIN wires THEN wires[pair] ELSE 0

\* Once the queues are empty the Core has what the document shows: an instance for every
\* component and no entry for another, the wire exactly once or not at all.  It holds
\* although edits, refusals while running and lost answers interleave, as long as no
\* structural edit crossed a rebuild or a snapshot and the Core refused no property that
\* decides the pins, and again after the next rebuild that none crossed.
CoreMirrorsDocument ==
    Quiet /\ ~tainted =>
        /\ \A c \in doc.comps : map[c] \in Live
        /\ \A c \in Components \ doc.comps : map[c] = 0
        /\ Ends \subseteq doc.comps =>
               Copies(Pair) = IF doc.wired THEN 1 ELSE 0

\* A value the user committed is never overtaken by an older preview ("nunca é
\* ultrapassado por uma pré-visualização antiga", coreLifecycle.ts:378) nor lost in a
\* rebuild: the Core has it, or was asked for it last and refused it.  A refusal (a
\* structural property while the scheduler runs, a value out of range) is only reported
\* (coreLifecycle.ts:359), and the document and the Core differ until the next commit or
\* rebuild.
CommitWins ==
    Quiet /\ ~tainted =>
        \A c \in doc.comps :
            lastInput[c] = "commit" =>
                doc.val[c] \in {inst[map[c]].val, inst[map[c]].denied}

\* The Core holds no instance the extension does not know, unless a request was refused
\* or lost or a removal or a paste crossed a rebuild.
NoOrphans == Quiet /\ ~leaked => Live = {map[c] : c \in Components} \ {0}

\* What the host says of a property that decides the pins ("O Core faz a MESMA reconciliação
\* do lado dele sozinho", extension.ts:1883): a wire the document keeps, because its pins
\* stay, the Core keeps too.  This does not hold where a value keeps the pin of the wire.
SameReconciliation ==
    Quiet /\ ~tainted /\ doc.wired => Copies(Pair) = 1

\* Whatever happens, the queues become empty: a snapshot never waits for a rebuild that
\* nobody runs, a drain never runs dry of its end.
QueuesDrain == []<>Quiet

=============================================================================
