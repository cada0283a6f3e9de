SPECIFICATION OrdersSpec
CONSTANTS
    Calls = {c1, c2}
    Other = Other
    MaxForeign = 1
    LiveOrders = TRUE
    MaxFaults = 1
    Products = {milk}
    MaxQty = 2
    Floor = 1
    Cap = 2
    MaxChase = 1
    MaxEdits = 2
    MaxYes = 1
    MaxReads = 1
    thin = thin
    pan = pan
    st = st
    sp = sp
    lp = lp
    r1 = r1
    r2 = r2
    o1 = o1
    x1 = x1
    VarGroups <- SomeVariants
    Required <- SomeRequired
    Optional <- SomeOptional
    NameOf <- SomeNames
    Hints <- SomeHints
    Clash <- SomeClashes
    Gone = {x1}
    MaxTaps = 2
    MaxToggles = 1
    MaxWire = 2
    MaxKeys = 2
    MaxErrors = 1
    MaxMatches = 2
INVARIANTS OrdersTypeOK OneOrderPerCall SuccessIsReal NothingOverlooked IMCartIsTrue WizardEnds CommandIsTrue
PROPERTIES AddedAsConfirmed IMOrderedAsApproved
CHECK_DEADLOCK FALSE
