SPECIFICATION FairSpec
CONSTANTS
    Items = {dosa}
    MaxQty = 2
    Cap = 3
    Resolves <- Found
    MaxEdits = 2
    MaxYes = 1
    MaxFaults = 1
    MaxWire = 1
INVARIANTS TypeOK SingleFlight Converged OneOrderPerYes
PROPERTIES OrderedAsApproved Released
CHECK_DEADLOCK FALSE
