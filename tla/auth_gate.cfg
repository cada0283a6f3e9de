SPECIFICATION Spec
CONSTANTS
    Tuis = {tui}
    Mcps = {}
    NoProc = NoProc
    Handlers = {h1}
    MaxFlows = 2
    MaxSends = 1
    MaxAuthFaults = 1
PROPERTY GateArmed
CHECK_DEADLOCK FALSE
