SPECIFICATION Safety
CONSTANTS
    c1 = c1
    c2 = c2
    c3 = c3
    p1 = p1
    p2 = p2
    a = a
    b = b
    Conns = {c1, c2}
    Requests <- TwoOwnersOrList
    Suspended = {}
    Events = {"interrupt", "clientCrash", "daemonCrash", "acceptError", "readError"}
    Ports = {p1, p2}
    Slugs = {a, b}
    GeneratedSlugs = {a}
    MaxSession = 2
    ChannelCapacity = 2
    PromptHandlers = FALSE
    NoRoute = NoRoute
    NoSlug = NoSlug
    NoConn = NoConn
SYMMETRY PortSymmetry
INVARIANTS
    OwnersAreServed
    ForwardsAreReal
CHECK_DEADLOCK FALSE
