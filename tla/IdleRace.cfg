SPECIFICATION Safety
CONSTANTS
    c1 = c1
    c2 = c2
    c3 = c3
    p1 = p1
    p2 = p2
    a = a
    b = b
    Conns = {c1, c2}
    Requests <- TwoOwners
    Suspended = {}
    Events = {"interrupt"}
    Ports = {p1}
    Slugs = {a}
    GeneratedSlugs = {a}
    MaxSession = 2
    ChannelCapacity = 2
    PromptHandlers = TRUE
    NoRoute = NoRoute
    NoSlug = NoSlug
    NoConn = NoConn
INVARIANT IdleClockStops
CHECK_DEADLOCK FALSE
