---------------------------- MODULE DocumentSync ----------------------------
(***************************************************************************)
(* The two copies of the open document and the undo history                 *)
(* (extension/src/extension.ts, extension/src/ui/webview/main.ts).          *)
(*                                                                         *)
(* The extension host holds the document and the stack of the levels that   *)
(* are open for editing; the webview holds the copy on the screen and one   *)
(* undo history per level.  They exchange messages in order, each way.  A    *)
(* gesture of the webview either changes its copy and posts the whole of it  *)
(* (projectChanged), or asks the host for the change and gets back a patch   *)
(* of the fields that changed (syncStatePatch).  Some handlers await the     *)
(* Core before they send the patch, and others run meanwhile.                *)
(*                                                                         *)
(* Circuit 0 is the project, circuit k > 0 the internal definition that an   *)
(* instance in circuit k - 1 opens.  Components and wires of a circuit are   *)
(* one value each, tagged with the circuit they belong to.                   *)
(*                                                                         *)
(* The webview of this version draws wires itself and posts a snapshot; the   *)
(* request to connect two endpoints is a verb of the protocol (messages.ts)  *)
(* that the host still serves, and the only one that carries a revision.     *)
(***************************************************************************)
EXTENDS Integers, Sequences, SequencesExt

CONSTANTS
    Values,             \* what the components, or the wires, of a circuit can be
    MaxDepth,           \* bound: nested definitions
    UNDO_HISTORY_LIMIT,
    MaxActions          \* bound: gestures of the user and edits from other panels

ASSUME ValuesAssumption == 0 \in Values
ASSUME BoundsAssumption ==
    MaxDepth \in Nat \ {0} /\ UNDO_HISTORY_LIMIT \in Nat \ {0} /\ MaxActions \in Nat

Circuits == 0..MaxDepth
Definitions == 1..MaxDepth

VARIABLES
    host,       \* state.schematicState: [comps, topo, at, subs]
    last,       \* state.lastSyncedProjectState
    stack,      \* state.subcircuitEditingStack: [src, outer, init]
    awaiting,   \* host functions that await the Core and then synchronise the panel
    panel,      \* the panel is open
    view,       \* state of the webview
    history,    \* mainUndoHistory: [undo, redo, base]
    outer,      \* outerUndoHistories
    toHost, toView,
    crossed,    \* history: a snapshot met a change of the host on its way, or the host
                \* showed a change that it had not published
    tangled,    \* history: something else was served while a level was opened or closed
    actions     \* gestures so far

hostVars == <<host, last, stack, awaiting>>
viewVars == <<view, history, outer>>
vars == <<host, last, stack, awaiting, panel, view, history, outer, toHost, toView,
          crossed, tangled, actions>>

Of(c, v) == [of |-> c, v |-> v]
Content(s) == [comps |-> s.comps, wires |-> s.topo.wires]

-----------------------------------------------------------------------------
(* Undo histories *)

snapshotOf(s) == [comps |-> s.comps, wires |-> s.topo.wires, subs |-> s.subs]

resetUndoHistory(s) == [undo |-> <<>>, redo |-> <<>>, base |-> snapshotOf(s)]

Pushed(seq, x) ==
    LET longer == Append(seq, x)
    IN IF Len(longer) > UNDO_HISTORY_LIMIT THEN Tail(longer) ELSE longer

\* The key holds the revision of the host: a snapshot that brings nothing new is a step.
MutRecordUndoTransition(h, s) ==
    [undo |-> Pushed(h.undo, h.base), redo |-> <<>>, base |-> snapshotOf(s)]

\* What the key compares has no selection and no revision: only content makes a step.
recordUndoTransition(h, s) ==
    IF snapshotOf(s) = h.base THEN h
    ELSE [undo |-> Pushed(h.undo, h.base), redo |-> <<>>, base |-> snapshotOf(s)]

\* Entering a definition is recorded like an edit.
MutSwitchUndoHistoryLevel(from, to, s) ==
    /\ history' = recordUndoTransition(history, s)
    /\ UNCHANGED outer

\* Entering stores the history of the level outside and begins one; leaving restores it
\* and records what changed in the table of definitions as one step.
switchUndoHistoryLevel(from, to, s) ==
    CASE to > from ->
            /\ outer' = Append(outer, history)
            /\ history' = resetUndoHistory(s)
      [] to < from /\ outer # <<>> ->
            /\ outer' = Front(outer)
            /\ history' = recordUndoTransition(Last(outer), s)
      [] OTHER ->
            /\ history' = resetUndoHistory(s)
            /\ UNCHANGED outer

-----------------------------------------------------------------------------
(* The initial states: the project, or a chain of definitions opened from it *)

Fresh(c) == [comps |-> Of(c, 0), topo |-> [wires |-> Of(c, 0), rev |-> 0]]
Table == [k \in Definitions |-> Fresh(k)]
Level(c) == [comps |-> Of(c, 0), topo |-> [wires |-> Of(c, 0), rev |-> c],
             at |-> [src |-> c, depth |-> c, ref |-> c], subs |-> Table]

Init ==
    \E n \in Circuits :
        /\ host = Level(n)
        /\ last = <<Level(n)>>
        /\ stack = [i \in 1..n |-> [src |-> i, outer |-> Level(i - 1), init |-> Content(Level(i))]]
        /\ view = Level(n)
        /\ history = resetUndoHistory(Level(n))
        /\ outer = [i \in 1..n |-> resetUndoHistory(Level(i - 1))]
        /\ awaiting = <<>>
        /\ panel = TRUE
        /\ toHost = <<>> /\ toView = <<>>
        /\ crossed = FALSE /\ tangled = FALSE
        /\ actions = 0

-----------------------------------------------------------------------------
(* The host publishes *)

\* What the host has changed and the webview has not been sent.
Unsent == last # <<>> /\ host # last[1]

\* Fields are compared by reference.  An edit always makes a different value; opening a
\* level makes new objects, which may have the same values, and at.ref tells those apart.
Same(h, f) == h[f] = last[1][f] /\ (f # "subs" => h.at.ref = last[1].at.ref)
NewRef ==
    CHOOSE r \in 0..Len(stack) + 2 :
        r \notin {host.at.ref} \cup {stack[i].outer.at.ref : i \in DOMAIN stack}
                \cup {last[i].at.ref : i \in DOMAIN last}

\* syncSchematicPanel: a change of content gets a revision of its own.
Revised(h) ==
    IF /\ last # <<>>
       /\ ~Same(h, "comps") \/ ~Same(h, "topo")
       /\ h.topo.rev <= last[1].topo.rev
    THEN [h EXCEPT !.topo.rev = last[1].topo.rev + 1]
    ELSE h

\* computeProjectStatePatch: the fields that changed.
computeProjectStatePatch(h) ==
    [f \in {g \in DOMAIN h : last = <<>> \/ ~Same(h, g)} |-> h[f]]

\* For a handler that leaves the document at h.
syncSchematicPanel(h) ==
    LET revised == Revised(h)
        patch == computeProjectStatePatch(revised)
    IN /\ host' = revised
       /\ last' = <<revised>>
       /\ toView' = IF panel /\ DOMAIN patch # {}
                    THEN Append(toView, [type |-> "patch", patch |-> patch]) ELSE toView

-----------------------------------------------------------------------------
(* The webview *)

Acting == actions < MaxActions /\ actions' = actions + 1
Post(m) == toHost' = Append(toHost, m)

\* Something the webview has not seen is on its way, or will be.
Disturbed ==
    \/ Unsent
    \/ awaiting # <<>>
    \/ \E i \in DOMAIN toView : toView[i].type # "revision"
    \/ \E i \in DOMAIN toHost : toHost[i].type # "projectChanged"

\* persistState: the whole copy goes to the host.  It repairs what has crossed, unless it
\* brings nothing new: then no revision comes back.
persistState(s) ==
    /\ view' = s
    /\ Post([type |-> "projectChanged", project |-> s])
    /\ crossed' = (Disturbed \/ (crossed /\ Content(s) = Content(host)))
    /\ UNCHANGED <<hostVars, panel, toView, tangled>>

LocalEdit(s) ==
    /\ panel
    /\ Acting
    /\ history' = recordUndoTransition(history, s)
    /\ persistState(s)
    /\ UNCHANGED outer

Edits == {[view EXCEPT !.comps.v = v] : v \in Values \ {view.comps.v}}
         \cup {[view EXCEPT !.topo.wires.v = v] : v \in Values \ {view.topo.wires.v}}

\* Content and table come back, the revision does not.
applyUndoSnapshot(x) ==
    persistState([view EXCEPT !.comps = x.comps, !.topo.wires = x.wires, !.subs = x.subs])

undo ==
    /\ panel
    /\ Acting
    /\ history.undo # <<>>
    /\ history' = [undo |-> Front(history.undo), redo |-> Append(history.redo, history.base),
                   base |-> Last(history.undo)]
    /\ applyUndoSnapshot(Last(history.undo))
    /\ UNCHANGED outer

redo ==
    /\ panel
    /\ Acting
    /\ history.redo # <<>>
    /\ history' = [undo |-> Append(history.undo, history.base), redo |-> Front(history.redo),
                   base |-> Last(history.redo)]
    /\ applyUndoSnapshot(Last(history.redo))
    /\ UNCHANGED outer

\* Gestures the host carries out; shown is what the user sees.
Requests ==
    [type : {"update"}, c : {view.comps.of}, v : Values]
    \cup [type : {"connect"}, c : {view.topo.wires.of}, v : Values, base : {view.topo.rev},
          shown : {Content(view)}]
    \cup [type : {"open"}, src : {view.at.src + 1} \cap Definitions]
    \cup (IF view.at.depth > 0 THEN [type : {"close"}, choice : {"save", "discard"}] ELSE {})

Request ==
    /\ panel
    /\ Acting
    /\ \E m \in Requests : Post(m)
    /\ UNCHANGED <<hostVars, viewVars, panel, toView, crossed, tangled>>

\* The fields of the patch replace those of the copy.
Merged(patch) == [f \in DOMAIN view |-> IF f \in DOMAIN patch THEN patch[f] ELSE view[f]]

\* The handler of syncStatePatch.
ReceivePatch ==
    LET m == Head(toView)
        merged == Merged(m.patch)
    IN /\ m.type = "patch"
       /\ view' = merged
       /\ IF merged.at.src # view.at.src
          THEN switchUndoHistoryLevel(view.at.depth, merged.at.depth, merged)
          ELSE /\ history' = recordUndoTransition(history, merged)
               /\ UNCHANGED outer

\* syncState replaces the copy and is recorded as an edit.
ReceiveState ==
    LET m == Head(toView)
    IN /\ m.type = "syncState"
       /\ view' = m.project
       /\ history' = recordUndoTransition(history, m.project)
       /\ UNCHANGED outer

ReceiveRevision ==
    LET m == Head(toView)
    IN /\ m.type = "revision"
       /\ view' = [view EXCEPT !.topo.rev = m.revision]
       /\ UNCHANGED <<history, outer>>

Receive ==
    /\ toView # <<>>
    /\ ReceivePatch \/ ReceiveState \/ ReceiveRevision
    /\ toView' = Tail(toView)
    /\ UNCHANGED <<hostVars, panel, toHost, crossed, tangled, actions>>

-----------------------------------------------------------------------------
(* The handlers of the host *)

\* A level has been opened or closed and the webview has not been told.
Navigating == \E i \in DOMAIN awaiting : awaiting[i] \in {"open", "close"}
SnapshotUnderWay == \E i \in DOMAIN toHost : toHost[i].type = "projectChanged"

\* The revision it was given is not sent back.
MutProjectChanged(m) ==
    LET changed == Content(host) # Content(m.project)
        next == [m.project EXCEPT !.topo.rev = host.topo.rev + (IF changed THEN 1 ELSE 0)]
    IN /\ m.type = "projectChanged"
       /\ host' = next
       /\ last' = IF last = <<>> THEN <<>> ELSE <<next>>
       /\ awaiting' = IF host.subs # m.project.subs THEN Append(awaiting, "subsystems") ELSE awaiting
       /\ tangled' = (tangled \/ Navigating \/ m.project.at # host.at)
       /\ UNCHANGED <<stack, toView, crossed>>

\* The snapshot replaces the document, whatever the host changed meanwhile; the webview
\* has it already and is sent the revision alone.
projectChanged(m) ==
    LET changed == Content(host) # Content(m.project)
        next == [m.project EXCEPT !.topo.rev = host.topo.rev + (IF changed THEN 1 ELSE 0)]
    IN /\ m.type = "projectChanged"
       /\ host' = next
       /\ last' = IF last = <<>> THEN <<>> ELSE <<next>>
       /\ toView' = IF changed THEN Append(toView, [type |-> "revision", revision |-> next.topo.rev])
                    ELSE toView
       /\ awaiting' = IF host.subs # m.project.subs THEN Append(awaiting, "subsystems") ELSE awaiting
       /\ tangled' = (tangled \/ Navigating \/ m.project.at # host.at)
       /\ UNCHANGED <<stack, crossed>>

\* A component that is not in the document is left alone.
requestUpdateProperty(m) ==
    /\ m.type = "update"
    /\ IF m.c = host.comps.of /\ m.v # host.comps.v
       THEN syncSchematicPanel([host EXCEPT !.comps.v = m.v])
       ELSE UNCHANGED <<host, last, toView>>
    /\ UNCHANGED <<stack, awaiting, crossed, tangled>>

\* The gesture is accepted whatever it was drawn on.
MutConnectEndpoints(m) ==
    /\ m.type = "connect"
    /\ IF m.c = host.topo.wires.of /\ m.v # host.topo.wires.v
       THEN /\ host' = [host EXCEPT !.topo = [wires |-> Of(m.c, m.v), rev |-> @.rev + 1]]
            /\ awaiting' = Append(awaiting, "connect")
       ELSE UNCHANGED <<host, awaiting>>
    /\ UNCHANGED <<last, stack, toView, crossed, tangled>>

\* A gesture on another revision is answered with the whole document, which is not marked
\* as sent: an unpublished revision it shows may be given to another content later.  An
\* accepted gesture changes the document now and the panel after the Core has answered.
requestConnectEndpoints(m) ==
    /\ m.type = "connect"
    /\ IF m.base # host.topo.rev
       THEN /\ toView' = Append(toView, [type |-> "syncState", project |-> host])
            /\ crossed' = (crossed \/ Unsent)
            /\ tangled' = (tangled \/ Navigating)
            /\ UNCHANGED <<host, awaiting>>
       ELSE /\ IF m.c = host.topo.wires.of /\ m.v # host.topo.wires.v
               THEN /\ host' = [host EXCEPT !.topo = [wires |-> Of(m.c, m.v), rev |-> @.rev + 1]]
                    /\ awaiting' = Append(awaiting, "connect")
               ELSE UNCHANGED <<host, awaiting>>
            /\ UNCHANGED <<toView, crossed, tangled>>
    /\ UNCHANGED <<last, stack>>

\* openSubcircuitForEditingCommand up to its first await.
openSubcircuit(m) ==
    LET def == host.subs[m.src]
    IN /\ m.type = "open"
       /\ stack' = Append(stack, [src |-> m.src, outer |-> host, init |-> [comps |-> def.comps, wires |-> def.topo.wires]])
       /\ host' = [host EXCEPT !.comps = def.comps, !.topo = def.topo,
                               !.at = [src |-> m.src, depth |-> Len(stack) + 1, ref |-> NewRef]]
       /\ awaiting' = Append(awaiting, "open")
       /\ tangled' = (tangled \/ Navigating)
       /\ UNCHANGED <<last, toView, crossed>>

isSubcircuitEditingSessionDirty(session) == Content(host) # session.init

\* The circuit on the screen becomes the definition of the session.
writeSubcircuitEditingSessionBack(session) ==
    [host.subs EXCEPT ![session.src] = [comps |-> host.comps, topo |-> host.topo]]

\* restoreOuterCircuitFromSession: the level outside as it was, the table as it is now.
restoreOuterCircuit(session, table) ==
    /\ stack' = Front(stack)
    /\ host' = [session.outer EXCEPT !.subs = table]
    /\ awaiting' = Append(awaiting, "close")
    /\ UNCHANGED crossed

\* A level that cannot be written stays open: refused by the validation it changes
\* nothing; refused by the Core it has changed the table, and nobody is told.
StayInLevel(table) ==
    /\ host' = [host EXCEPT !.subs = table]
    /\ crossed' = (crossed \/ table # host.subs)
    /\ UNCHANGED <<stack, awaiting>>

\* closeSubcircuitEditorCommand up to its await.
closeSubcircuitEditor(m) ==
    LET session == Last(stack)
        written == writeSubcircuitEditingSessionBack(session)
    IN /\ m.type = "close"
       /\ IF stack = <<>> THEN UNCHANGED <<host, stack, awaiting, crossed>>
          ELSE IF ~isSubcircuitEditingSessionDirty(session) \/ m.choice = "discard"
          THEN restoreOuterCircuit(session, host.subs)
          ELSE restoreOuterCircuit(session, written) \/ StayInLevel(host.subs) \/ StayInLevel(written)
       /\ tangled' = (tangled \/ Navigating)
       /\ UNCHANGED <<last, toView>>

handleWebviewMessage ==
    /\ toHost # <<>>
    /\ \/ projectChanged(Head(toHost))
       \/ requestUpdateProperty(Head(toHost))
       \/ requestConnectEndpoints(Head(toHost))
       \/ openSubcircuit(Head(toHost))
       \/ closeSubcircuitEditor(Head(toHost))
    /\ toHost' = Tail(toHost)
    /\ UNCHANGED <<viewVars, panel, actions>>

\* What awaited the Core goes on, in any order.
Continue ==
    \E i \in DOMAIN awaiting :
        /\ awaiting' = RemoveAt(awaiting, i)
        /\ stack' = IF awaiting[i] = "open" /\ stack # <<>>
                    THEN [stack EXCEPT ![Len(stack)].init.comps = host.comps] ELSE stack
        /\ syncSchematicPanel(host)
        /\ UNCHANGED <<viewVars, panel, toHost, crossed, tangled, actions>>

\* Another panel (the inspector, the tuning of a controller) changes a property.
OtherPanelEdit(v) ==
    /\ Acting
    /\ v # host.comps.v
    /\ syncSchematicPanel([host EXCEPT !.comps.v = v])
    /\ crossed' = (crossed \/ SnapshotUnderWay)
    /\ UNCHANGED <<stack, awaiting, viewVars, panel, toHost, tangled>>

\* The panel is closed: what was on its way is lost.
ClosePanel ==
    /\ panel
    /\ Acting
    /\ panel' = FALSE
    /\ last' = <<>>
    /\ toHost' = <<>> /\ toView' = <<>>
    /\ UNCHANGED <<host, stack, awaiting, viewVars, crossed, tangled>>

\* openSchematicEditor: a new webview begins with the whole document.
OpenPanel ==
    /\ ~panel
    /\ panel' = TRUE
    /\ last' = <<host>>
    /\ view' = host
    /\ history' = resetUndoHistory(host)
    /\ outer' = <<>>
    /\ crossed' = FALSE
    /\ UNCHANGED <<host, stack, awaiting, toHost, toView, tangled, actions>>

\* One that is open is sent the whole document.
RevealPanel ==
    /\ panel
    /\ Acting
    /\ last' = <<host>>
    /\ toView' = Append(toView, [type |-> "syncState", project |-> host])
    /\ crossed' = (crossed \/ SnapshotUnderWay)
    /\ tangled' = (tangled \/ Navigating)
    /\ UNCHANGED <<host, stack, awaiting, viewVars, panel, toHost>>

-----------------------------------------------------------------------------
Next ==
    \/ \E s \in Edits : LocalEdit(s)
    \/ undo \/ redo
    \/ Request
    \/ Receive
    \/ handleWebviewMessage
    \/ Continue
    \/ \E v \in Values : OtherPanelEdit(v)
    \/ ClosePanel \/ OpenPanel \/ RevealPanel

Spec == Init /\ [][Next]_vars

-----------------------------------------------------------------------------
(* Properties *)

Quiet == toHost = <<>> /\ toView = <<>> /\ awaiting = <<>>

\* Once nothing is on its way the screen shows the host's document, its level and its
\* revision: patches of single fields, snapshots and revisions sent alone add up.  Only
\* a snapshot that met a change of the host breaks it, which the next undisturbed snapshot
\* or a new panel repairs.
ReplicasAgree == Quiet /\ panel /\ ~crossed => view = host

\* A wire is only connected to the circuit the user saw when drawing it: the revision
\* the gesture carries is enough to tell (the check of requestConnectEndpoints), although
\* the webview learns of revisions by patches, by snapshots and alone.
ConnectsWhatWasShown ==
    [][\A m \in {Head(toHost) : i \in 1..Len(toHost)} :
          m.type = "connect" /\ awaiting' = Append(awaiting, "connect") /\ ~crossed
              => m.shown = Content(host)]_vars

Differ(seq) == \A i \in 1..Len(seq) - 1 : seq[i] # seq[i + 1]

\* The history is a line of versions through the one on the screen, each different from
\* its neighbours: an undo or a redo always shows, and leads back.
HistoryIsLinear ==
    /\ history.base = snapshotOf(view)
    /\ Differ(Append(history.undo, history.base) \o Reverse(history.redo))

InCircuit(h, c) ==
    \A x \in ToSet(h.undo) \cup ToSet(h.redo) \cup {h.base} : x.comps.of = c /\ x.wires.of = c

\* Levels do not mix: an undo never brings one circuit into the editor of another, and a
\* definition or a level that waits outside keeps its own circuit, unless an opening, a
\* closing, a snapshot or a refused gesture was served before the webview knew of the
\* level the host had gone to.
LevelsApart ==
    ~tangled =>
        /\ InCircuit(history, view.at.src)
        /\ \A k \in Definitions : host.subs[k].comps.of = k /\ host.subs[k].topo.wires.of = k
        /\ \A i \in DOMAIN stack : stack[i].outer.comps.of = stack[i].outer.at.src

=============================================================================
