SPECIFICATION Spec
CONSTANTS
    Focuses = {"update", "shows", "registers", "leaves", "signs", "stores"}
    Launches = {l1, l2}
    Channels = {stable, beta}
    MaxVersion = 2
    MaxUpdFaults = 1
    Procs = {p1, p2}
    Agents = {a1, a2}
    Bundles = {b1, b2}
    MaxExe = 2
    MaxStarts = 2
    Callers = {k1, k2}
    Items = {i1, i2}
    Groups = {g1}
    Flavours = {c1, c2}
    Rests = {r1}
    Addrs = {d1, d2}
    Policies = {q1}
    Words = {w1}
    MaxEntries = 1
    Threshold = 2
    TTL = 0
    MaxPerName = 2
    MaxOrders = 1
    MaxCalls = 2
    MaxAlone = 5
    MaxStops = 1
    MaxTime = 1
SYMMETRY Alike
INVARIANTS MachineTypeOK AlwaysLaunchable MarksTruthful StoresAreTrue
PROPERTY InstalledAsNamed
CHECK_DEADLOCK FALSE
