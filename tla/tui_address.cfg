SPECIFICATION BothSpec
CONSTANTS
    home = home
    work = work
    p1 = p1
    p2 = p2
    a1 = a1
    a2 = a2
    a3 = a3
    a4 = a4
    b1 = b1
    AddrLists <- SomeAddrs
    Chips <- OneChip
    Words = {}
    MaxCalls = 2
    MaxLost = 1
    NoAddr = NoAddr
    NoQuery = NoQuery
    Places = {p1}
    Served <- SomeMenus
    CategoryOf <- SomeCategories
    VegDishes <- SomeVeg
    Hits <- SomeHits
    SoldOut = {}
    Rows = 3
    NoDish = NoDish
    MaxGen = 2
    Food = {f}
    Instamart = {i}
    Located = {TRUE, FALSE}
    NoOrder = NoOrder
    MaxFaults = 1
    MaxWire = 2
    MaxLaunches = 1
    Homes = {home}
    MaxLoads = 1
PROPERTY AddressIsPicked
CHECK_DEADLOCK FALSE
