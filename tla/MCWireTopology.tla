--------------------------- MODULE MCWireTopology ---------------------------
(***************************************************************************)
(* WireTopology for TLC: four components of one pin, and projects that have *)
(* the shapes on which the clean-up of nodes decides something.             *)
(***************************************************************************)
EXTENDS WireTopology

CONSTANTS compa, compb, compc, compe, isa

MCPorts == {<<"port", x, 1>> : x \in {compa, compb, compc, compe}}

P(x) == <<"port", x, 1>>
W(id, from, to, cls) == [id |-> id, from |-> from, to |-> to, cls |-> cls]
D(nodes, wires) == [comps |-> {compa, compb, compc}, nodes |-> nodes, wires |-> wires]

MCDocuments ==
    { \* nothing drawn yet
      D(<<>>, <<>>),
      \* a daisy chain from pin to pin
      D(<<>>, <<W(1, P(compa), P(compb), NoClass), W(2, P(compb), P(compc), NoClass)>>),
      \* a T
      D(<<1>>, <<W(1, P(compa), NodeEndpoint(1), NoClass), W(2, NodeEndpoint(1), P(compb), NoClass),
                 W(3, P(compc), NodeEndpoint(1), NoClass)>>),
      \* a loop between two nodes
      D(<<1, 2>>, <<W(1, P(compa), NodeEndpoint(1), NoClass), W(2, NodeEndpoint(1), NodeEndpoint(2), NoClass),
                    W(3, NodeEndpoint(2), P(compb), NoClass), W(4, NodeEndpoint(1), NodeEndpoint(2), NoClass)>>),
      \* two line classes that meet
      D(<<1, 2>>, <<W(1, P(compa), NodeEndpoint(1), NoClass), W(2, NodeEndpoint(1), NodeEndpoint(2), isa),
                    W(3, NodeEndpoint(2), P(compb), NoClass)>>),
      D(<<1, 2, 3>>, <<W(1, P(compa), NodeEndpoint(1), NoClass), W(2, NodeEndpoint(1), NodeEndpoint(2), isa),
                       W(3, NodeEndpoint(2), NodeEndpoint(3), NoClass), W(4, NodeEndpoint(3), P(compb), isa)>>) }
=============================================================================
