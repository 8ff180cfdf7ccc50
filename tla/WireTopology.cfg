SPECIFICATION Spec
CONSTANTS
    compa = compa
    compb = compb
    compc = compc
    compe = compe
    isa = isa
    NoClass = NoClass
    Ports <- MCPorts
    Documents <- MCDocuments
    Classes = {NoClass, isa}
    MaxNodes = 3
    MaxWires = 5
    MaxEdits = 3
INVARIANTS
    StarRealisesNets
    CoreFollowsDocument
    EditsKeepNets
PROPERTIES
    RemovalsSettle
CHECK_DEADLOCK FALSE
