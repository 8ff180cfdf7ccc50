---------------------------- MODULE WireTopology ----------------------------
(***************************************************************************)
(* The wires of the schematic and what the Core is told about them          *)
(* (extension/src/ui/webview/wireTopology.ts and the wire handlers of       *)
(* extension/src/extension.ts).  The document is a graph of ports and       *)
(* topology nodes; the Core only knows edges between ports, the star that   *)
(* electricalEdgesForProject makes of every net, and receives differences   *)
(* between two stars.                                                       *)
(*                                                                         *)
(* Geometry is left out: a point on a wire is "a fresh place", an existing  *)
(* node that happens to lie there, or an end of the wire, whichever the     *)
(* gesture hits; every node has a position of its own, so the merge of      *)
(* coincident nodes has nothing to do.  Order is kept: the star's root is   *)
(* the first port the traversal pops, and that depends on it.  The Core is  *)
(* stopped and answers at once (CoreSync has the delays and the refusals).  *)
(***************************************************************************)
EXTENDS Integers, FiniteSets, SequencesExt, BagsExt

CONSTANTS
    Ports,          \* every <<"port", component, pin>>
    Documents,      \* the projects that can be loaded: [comps, nodes, wires]
    Classes,        \* line classes a wire can be given
    NoClass,        \* lineClass = undefined
    MaxNodes,       \* bound: topology nodes of a document
    MaxWires,       \* bound: wires of a document
    MaxEdits        \* bound: edits after the load

ASSUME ClassesAssumption == NoClass \in Classes
ASSUME BoundsAssumption == MaxNodes \in Nat /\ MaxWires \in Nat /\ MaxEdits \in Nat

VARIABLES
    doc,            \* state.schematicState: components, topology.nodes, topology.conductors
    core,           \* the Netlist's wires, a bag of pairs of ports
    meant,          \* history: the nets that the gestures made, whatever the clean-up did
    drifted,        \* history: an edit the Core was told too little or too much about
    edits           \* edits so far

vars == <<doc, core, meant, drifted, edits>>

-----------------------------------------------------------------------------
(* Documents *)

PortsOf(comps) == {p \in Ports : p[2] \in comps}
NodeEndpoint(n) == <<"node", n>>
IsNode(e) == e[1] = "node"
Touches(w, e) == w.from = e \/ w.to = e
Touching(wires, e) == SelectSeq(wires, LAMBDA w : Touches(w, e))
Without(wires, ids) == SelectSeq(wires, LAMBDA w : w.id \notin ids)
WireIds(wires) == {wires[i].id : i \in DOMAIN wires}
WireOf(wires, id) == wires[SelectInSeq(wires, LAMBDA w : w.id = id)]
Endpoints(wires) == {wires[i].from : i \in DOMAIN wires} \cup {wires[i].to : i \in DOMAIN wires}
Fresh(used) == CHOOSE i \in 1..(Cardinality(used) + 1) : i \notin used

NodeIds(d) == ToSet(d.nodes) \cup {e[2] : e \in {x \in Endpoints(d.wires) : IsNode(x)}}

Live(d) == PortsOf(d.comps) \cup {NodeEndpoint(d.nodes[i]) : i \in DOMAIN d.nodes}

\* Distinct ids, no endpoint that is gone, no conductor from an endpoint to itself.
assertTopologyInvariants(d) ==
    /\ IsInjective(d.nodes)
    /\ \A i, j \in DOMAIN d.wires : d.wires[i].id = d.wires[j].id => i = j
    /\ Endpoints(d.wires) \subseteq Live(d)
    /\ \A i \in DOMAIN d.wires : d.wires[i].from # d.wires[i].to

-----------------------------------------------------------------------------
(* normalizeWireGeometry *)

\* Degree 2 and one line class: the two wires become one, which takes the first
\* one's id and the first place.
Merge(d, n, a, b) ==
    LET e == NodeEndpoint(n)
        merged == [id   |-> a.id,
                   from |-> IF a.to = e THEN a.from ELSE a.to,
                   to   |-> IF b.to = e THEN b.from ELSE b.to,
                   cls  |-> a.cls]
    IN [d EXCEPT !.nodes = Remove(@, n),
                 !.wires = <<merged>> \o Without(@, {a.id, b.id})]

\* A node of degree 1 goes without its wire.
MutKeepStub(d, n) ==
    LET touching == Touching(d.wires, NodeEndpoint(n))
    IN CASE Len(touching) <= 1 -> [d EXCEPT !.nodes = Remove(@, n)]
         [] Len(touching) = 2 /\ touching[1].cls = touching[2].cls ->
                Merge(d, n, touching[1], touching[2])
         [] OTHER -> d

\* A node that removed every wire, whatever its degree.
MutVisitNode(d, n) ==
    LET touching == Touching(d.wires, NodeEndpoint(n))
    IN IF Len(touching) <= 2
       THEN [d EXCEPT !.nodes = Remove(@, n), !.wires = Without(@, WireIds(touching))]
       ELSE d

\* What one pass does at node n.
VisitNode(d, n) ==
    LET touching == Touching(d.wires, NodeEndpoint(n))
    IN CASE Len(touching) <= 1 ->
                [d EXCEPT !.nodes = Remove(@, n), !.wires = Without(@, WireIds(touching))]
         [] Len(touching) = 2 /\ touching[1].cls = touching[2].cls ->
                Merge(d, n, touching[1], touching[2])
         [] OTHER -> d

\* The bound of the loop, nodes.length + 1, shrinks while nodes are removed.
removeOrphanNodes(d) ==
    LET pass(acc, guard) ==
            LET next == FoldLeft(VisitNode, acc.d, acc.d.nodes)
            IN IF acc.done \/ guard >= Len(acc.d.nodes) + 1 THEN [acc EXCEPT !.done = TRUE]
               ELSE [d |-> next, done |-> next = acc.d]
    IN FoldLeft(pass, [d |-> d, done |-> FALSE], [i \in 1..(Len(d.nodes) + 1) |-> i - 1]).d

normalizeWireGeometry(d) ==
    removeOrphanNodes([d EXCEPT !.wires = SelectSeq(@, LAMBDA w :
        w.from \in Live(d) /\ w.to \in Live(d) /\ w.from # w.to)])

-----------------------------------------------------------------------------
(* electricalEdgesForProject *)

\* Keys in the order a Map first saw them.
Distinct(s) ==
    LET firsts == {i \in DOMAIN s : \A j \in 1..(i - 1) : s[j] # s[i]}
    IN [k \in 1..Cardinality(firsts) |->
           s[CHOOSE i \in firsts : Cardinality({j \in firsts : j <= i}) = k]]

Neighbours(wires, v) ==
    LET touching == Touching(wires, v)
    IN Distinct([i \in DOMAIN touching |->
           IF touching[i].from = v THEN touching[i].to ELSE touching[i].from])

\* From start: the vertices reached, and the ports in the order the stack pops them.
Traverse(wires, start) ==
    LET pop(acc, k) ==
            LET v == Last(acc.stack)
                next == SelectSeq(Neighbours(wires, v), LAMBDA x : x \notin acc.seen)
            IN IF acc.stack = <<>> THEN acc
               ELSE [seen  |-> acc.seen \cup ToSet(next),
                     stack |-> Front(acc.stack) \o next,
                     ports |-> IF IsNode(v) THEN acc.ports ELSE Append(acc.ports, v)]
    IN FoldLeft(pop, [seen |-> {start}, stack |-> <<start>>, ports |-> <<>>],
                [k \in 1..Cardinality(Endpoints(wires)) |-> k])

\* A star that forgets the last port of its net.
MutStar(ports) == {{ports[1], ports[i]} : i \in 2..(Len(ports) - 1)}

\* Each net as a star around its first port.
Star(ports) == {{ports[1], ports[i]} : i \in 2..Len(ports)}

electricalEdgesForProject(wires) ==
    LET vertices == Distinct(FlattenSeq([i \in DOMAIN wires |-> <<wires[i].from, wires[i].to>>]))
        visit(acc, start) ==
            LET net == Traverse(wires, start)
            IN IF start \in acc.seen THEN acc
               ELSE [seen |-> acc.seen \cup net.seen, edges |-> acc.edges \cup Star(net.ports)]
    IN FoldLeft(visit, [seen |-> {}, edges |-> {}], vertices).edges

\* Only what appears is sent.
MutElectricalOperationsDiff(before, after) ==
    LET b == electricalEdgesForProject(before)
        a == electricalEdgesForProject(after)
    IN [disconnect |-> {}, connect |-> a \ b]

\* What the transaction asks of the Core, by pair of ports.
electricalOperationsDiff(before, after) ==
    LET b == electricalEdgesForProject(before)
        a == electricalEdgesForProject(after)
    IN [disconnect |-> b \ a, connect |-> a \ b]

NoOperations(ops) == ops.disconnect = {} /\ ops.connect = {}

-----------------------------------------------------------------------------
(* The Core: Netlist::connectWire appends, disconnectWire removes one match.  *)

ApplyTransaction(wires, ops) ==
    FoldSet(LAMBDA e, bag : BagAdd(bag, e),
            FoldSet(LAMBDA e, bag : BagRemove(bag, e), wires, ops.disconnect),
            ops.connect)

\* Every component removed and added again, the star of the document connected.
Rebuilt(d) == SetToBag(electricalEdgesForProject(d.wires))

\* The wires that remain when the Core drops a component.
RemoveInstance(wires, c) ==
    LET kept == {e \in DOMAIN wires : \A p \in e : p[2] # c}
    IN [e \in kept |-> wires[e]]

-----------------------------------------------------------------------------
(* Connecting two endpoints *)

\* Where a gesture can begin or end: at a pin, a node or the end of a wire, or inside a
\* wire, at a fresh place (0) or at a node that lies there.
Gestures(d) ==
    [kind : {"at"}, end : Live(d)]
    \cup [kind : {"wire"}, wire : WireIds(d.wires), node : {0} \cup ToSet(d.nodes)]

\* splitSegmentAtPoint: wire w becomes two halves that meet at node n.
Split(d, w, n) ==
    LET first == Fresh(WireIds(d.wires))
        second == Fresh(WireIds(d.wires) \cup {first})
        old == WireOf(d.wires, w)
    IN [d EXCEPT !.wires = Without(@, {w}) \o
                     <<[id |-> first, from |-> old.from, to |-> NodeEndpoint(n), cls |-> old.cls],
                       [id |-> second, from |-> NodeEndpoint(n), to |-> old.to, cls |-> old.cls]>>,
                 !.nodes = IF n \in ToSet(@) THEN @ ELSE Append(@, n)]

\* resolveEndpoint: the document after the split, if any, and the endpoint to use.  A
\* node that ends the wire already is taken as it is.
resolveEndpoint(d, g, w) ==
    LET n == IF g.node = 0 THEN Fresh(NodeIds(d)) ELSE g.node
    IN CASE g.kind = "at" -> [d |-> d, end |-> g.end]
         [] g.kind = "wire" /\ Touches(WireOf(d.wires, w), NodeEndpoint(n)) ->
                [d |-> d, end |-> NodeEndpoint(n)]
         [] OTHER -> [d |-> Split(d, w, n), end |-> NodeEndpoint(n)]

\* The wire a gesture means now: the one it named or, once that one is split, the
\* half that passes there (findWireAtPoint).
Targets(d, g, halves) ==
    CASE g.kind = "at" -> {0}
      [] g.kind = "wire" /\ g.wire \in WireIds(d.wires) -> {g.wire}
      [] OTHER -> halves

\* The documents connectEndpointToNode can make of a gesture.
connectEndpointToNode(d, from, to) ==
    LET first == resolveEndpoint(d, from, from.wire)
    IN {LET second == resolveEndpoint(first.d, to, v)
        IN [second.d EXCEPT !.wires = Append(@,
               [id   |-> Fresh(WireIds(@)), from |-> first.end,
                to   |-> second.end,        cls  |-> NoClass])]
        : v \in Targets(first.d, to, WireIds(first.d.wires) \ WireIds(d.wires))}

-----------------------------------------------------------------------------
(* Nets, the reference: ports are connected when a path of wires joins them.  *)

\* The ports of a document by net: what a set of pairs of endpoints connects.
Join(nets, a, b) ==
    LET joined == {n \in nets : a \in n \/ b \in n}
    IN (nets \ joined) \cup {UNION joined}

Nets(d, pairs) ==
    LET all == FoldSet(LAMBDA e, nets : Join(nets, e[1], e[2]),
                       {{v} : v \in Live(d) \cup Endpoints(d.wires)}, pairs)
    IN {n \cap Ports : n \in all} \ {{}}

WirePairs(wires) == {<<wires[i].from, wires[i].to>> : i \in DOMAIN wires}
DocumentNets(d) == Nets(d, WirePairs(d.wires))
EdgeNets(d, edges) == Nets(d, {pq \in Ports \X Ports : pq[1] # pq[2] /\ {pq[1], pq[2]} \in edges})


\* What a gesture lays its end on.
Attached(d, g) ==
    IF g.kind = "at" THEN {g.end}
    ELSE {WireOf(d.wires, g.wire).from}
             \cup (IF g.node = 0 THEN {} ELSE {NodeEndpoint(g.node)})

-----------------------------------------------------------------------------
(* The handlers *)

Init ==
    /\ doc \in {normalizeWireGeometry(d) : d \in Documents}
    /\ core = Rebuilt(doc)
    /\ meant = DocumentNets(doc)
    /\ drifted = FALSE
    /\ edits = 0

Edited == edits < MaxEdits /\ edits' = edits + 1

Commit(next) ==
    /\ doc' = next
    /\ LET ops == electricalOperationsDiff(doc.wires, next.wires)
       IN core' = ApplyTransaction(core, ops)

\* applyLocalConnection in the webview, whose snapshot the host then compares with the
\* last one (syncProjectSnapshotToCore); requestConnectEndpoints does the same on the
\* host.  An invalid result is refused.
ConnectEndpoints(from, to) ==
    /\ Edited
    /\ \E next \in connectEndpointToNode(doc, from, to) :
           /\ assertTopologyInvariants(next)
           /\ Len(next.nodes) <= MaxNodes /\ Len(next.wires) <= MaxWires
           /\ Commit(next)
    /\ meant' = Nets(doc, WirePairs(doc.wires) \cup (Attached(doc, from) \X Attached(doc, to)))
    /\ UNCHANGED drifted

\* The selected wires go at once in the webview; an unchanged star sends nothing.
removeWiresLocally(ids) ==
    LET removed == [doc EXCEPT !.wires = Without(@, ids)]
    IN /\ Edited
       /\ ids # {}
       /\ meant' = DocumentNets(removed)
       /\ Commit(normalizeWireGeometry(removed))
       /\ UNCHANGED drifted

\* requestRemoveWire, the verb of the protocol for one wire (the webview of this version
\* removes wires itself).  When the stars are the same, pushRemoveWireToCore disconnects
\* the wire's own pair of ports; a wire that ends at a node makes it rebuild instead.
RemoveWire(id) ==
    LET old == WireOf(doc.wires, id)
        next == normalizeWireGeometry([doc EXCEPT !.wires = Without(@, {id})])
        pair == {old.from, old.to}
    IN /\ Edited
       /\ id \in WireIds(doc.wires)
       /\ meant' = DocumentNets([doc EXCEPT !.wires = Without(@, {id})])
       /\ \/ /\ ~NoOperations(electricalOperationsDiff(doc.wires, next.wires))
             /\ Commit(next)
             /\ UNCHANGED drifted
          \/ /\ NoOperations(electricalOperationsDiff(doc.wires, next.wires))
             /\ pair \subseteq Ports
             /\ doc' = next
             /\ core' = BagRemove(core, pair)
             /\ drifted' = (drifted \/ BagIn(pair, core))
          \/ /\ NoOperations(electricalOperationsDiff(doc.wires, next.wires))
             /\ ~(pair \subseteq Ports)
             /\ doc' = next
             /\ core' = Rebuilt(next)
             /\ drifted' = FALSE

\* requestRemoveComponent: the Core drops the instance with its wires, and is then sent
\* the difference the clean-up makes, not the one the removal made.
RemoveComponent(c) ==
    LET removed == [doc EXCEPT !.comps = @ \ {c},
                               !.wires = SelectSeq(@, LAMBDA w : w.from \notin PortsOf({c})
                                                              /\ w.to \notin PortsOf({c}))]
        next == normalizeWireGeometry(removed)
    IN /\ Edited
       /\ c \in doc.comps
       /\ doc' = next
       /\ meant' = DocumentNets(removed)
       /\ core' = ApplyTransaction(RemoveInstance(core, c),
                                   electricalOperationsDiff(removed.wires, next.wires))
       /\ drifted' = (drifted \/ \E net \in DocumentNets(doc) :
                          net \cap PortsOf({c}) # {} /\ Cardinality(net \ PortsOf({c})) >= 2)

\* The line class of a wire, from the context menu (a project change without
\* electrical effect).
SetLineClass(id, cls) ==
    /\ Edited
    /\ id \in WireIds(doc.wires)
    /\ doc' = [doc EXCEPT !.wires = [i \in DOMAIN @ |->
                   IF @[i].id = id THEN [@[i] EXCEPT !.cls = cls] ELSE @[i]]]
    /\ UNCHANGED <<core, meant, drifted>>

\* requestAddComponent: no wire yet.
AddComponent(c) ==
    /\ Edited
    /\ c \notin doc.comps
    /\ doc' = [doc EXCEPT !.comps = @ \cup {c}]
    /\ meant' = meant \cup {{p} : p \in PortsOf({c})}
    /\ UNCHANGED <<core, drifted>>

Components == {p[2] : p \in Ports}

Next ==
    \/ \E from, to \in Gestures(doc) : ConnectEndpoints(from, to)
    \/ \E ids \in SUBSET WireIds(doc.wires) : removeWiresLocally(ids)
    \/ \E id \in WireIds(doc.wires) : RemoveWire(id)
    \/ \E id \in WireIds(doc.wires), cls \in Classes : SetLineClass(id, cls)
    \/ \E c \in Components : RemoveComponent(c) \/ AddComponent(c)

Spec == Init /\ [][Next]_vars

-----------------------------------------------------------------------------
(* Properties *)

\* The star the Core is sent connects exactly the ports the wires connect, through
\* nodes and other ports, and with no edge to spare: one less than ports in each net
\* (the comment on electricalEdgesForProject).
StarRealisesNets ==
    LET edges == electricalEdgesForProject(doc.wires)
    IN /\ EdgeNets(doc, edges) = DocumentNets(doc)
       /\ Cardinality(edges) + Cardinality(DocumentNets(doc)) = Cardinality(PortsOf(doc.comps))

\* An edit changes which ports are connected only by the wire or the component it is
\* about: splitting a wire, collapsing a node and clearing what dangles never join or
\* part two ports.
EditsKeepNets == DocumentNets(doc) = meant

\* As long as the drawing is a forest, a removal leaves a document that passes
\* assertTopologyInvariants (which the removal handlers only report).  If it also has
\* one line class, nothing is left to normalise ("Idempotente", wireTopology.ts:518);
\* with several the clean-up may stop early, its bound shrinking with the nodes.
Forest(d) ==
    LET all == FoldSet(LAMBDA e, nets : Join(nets, e[1], e[2]),
                       {{v} : v \in Live(d)}, WirePairs(d.wires))
    IN Len(d.wires) + Cardinality(all) = Cardinality(Live(d))

OneClass(d) == \A i, j \in DOMAIN d.wires : d.wires[i].cls = d.wires[j].cls

RemovalsSettle ==
    [][Forest(doc) /\ assertTopologyInvariants(doc) /\ Len(doc'.wires) < Len(doc.wires) =>
       /\ assertTopologyInvariants(doc')
       /\ OneClass(doc) => normalizeWireGeometry(doc') = doc']_vars

\* The Core has exactly the star of the document, every edge once, as long as no
\* component was removed from the middle of a net and no redundant wire was
\* disconnected by name.
CoreFollowsDocument == ~drifted => core = Rebuilt(doc)

\* "nunca deixa o Core divergir silenciosamente do que a tela mostra"
\* (coreLifecycle.ts:273): the ports connected in the Core are those connected on the
\* screen.  The code does not keep this when a component in the middle of a net goes.
CoreShowsTheScreen == EdgeNets(doc, BagToSet(core)) = DocumentNets(doc)

=============================================================================
