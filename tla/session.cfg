SPECIFICATION SessionSpec
CONSTANTS
    Clients = {food, im}
    Calls = {c1, c2}
    Interval = 2
    Burst = 1
    Refill = 3
    MaxRetries = 1
    RetryBase = 1
    Cap = 2
    MaxRetryAfter = 1
    MaxSessions = 3
    MaxTime = 2
    NoOne = NoOne
    Procs = {p1}
    Gets = {g1, g2, g3}
    MaxFaults = 1
    MaxFlips = 1
    MaxOuts = 1
    KeyringUp = FALSE
    Tuis = {tui}
    Mcps = {agent}
    NoProc = NoProc
    Handlers = {h1, h2}
    MaxFlows = 2
    MaxSends = 2
    MaxAuthFaults = 1
INVARIANTS SessionTypeOK WriteBudget SlotsSpaced RevokedNotReused RefreshIsSafe SignInIsTrue
PROPERTIES TheCallReturns TheTokenReturns SignInWorks
CHECK_DEADLOCK FALSE
