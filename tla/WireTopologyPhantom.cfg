SPECIFICATION Spec
CONSTANTS
    compa = compa
    compb = compb
    compc = compc
    compe = compe
    isa = isa
    NoClass = NoClass
    Ports <- MCPorts
    Documents <- MCDocuments
    Classes = {NoClass, isa}
    MaxNodes = 3
    MaxWires = 5
    MaxEdits = 1
INVARIANT
    CoreShowsTheScreen
CHECK_DEADLOCK FALSE
