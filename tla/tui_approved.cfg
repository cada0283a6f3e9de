SPECIFICATION Spec
CONSTANTS
    Items = {dosa}
    MaxQty = 2
    Cap = 3
    Resolves <- Found
    MaxEdits = 2
    MaxYes = 1
    MaxFaults = 0
    MaxWire = 1
PROPERTY ApprovedOnly
CHECK_DEADLOCK FALSE
