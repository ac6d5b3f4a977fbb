SPECIFICATION Spec
CONSTANTS
    c1 = c1
    c2 = c2
    c3 = c3
    p1 = p1
    p2 = p2
    a = a
    b = b
    Conns = {c1, c2}
    Requests <- OwnerStop
    Suspended = {}
    Events = {"interrupt", "clientCrash"}
    Ports = {p1}
    Slugs = {a}
    GeneratedSlugs = {a}
    MaxSession = 1
    ChannelCapacity = 2
    PromptHandlers = TRUE
    NoRoute = NoRoute
    NoSlug = NoSlug
    NoConn = NoConn
INVARIANT RoutesAreKept
PROPERTIES
    RequestsAreAnswered
    DaemonFollowsItsClients
CHECK_DEADLOCK FALSE
