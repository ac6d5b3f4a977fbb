SPECIFICATION Safety
CONSTANTS
    c1 = c1
    c2 = c2
    c3 = c3
    p1 = p1
    p2 = p2
    a = a
    b = b
    Conns = {c1, c2, c3}
    Requests <- OwnersStopKill
    Suspended = {}
    Events = {}
    Ports = {p1, p2}
    Slugs = {a, b}
    GeneratedSlugs = {b}
    MaxSession = 2
    ChannelCapacity = 2
    PromptHandlers = FALSE
    NoRoute = NoRoute
    NoSlug = NoSlug
    NoConn = NoConn
INVARIANTS
    SystemTypeOK
    RegistryConsistent
    RoutesAreKept
    AnswersAreTrue
    OwnersAreServed
    AcksHaveWaiters
    SessionsArePrivate
PROPERTY ForwardsAreImplemented
CHECK_DEADLOCK FALSE
