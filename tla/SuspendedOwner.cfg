SPECIFICATION Spec
CONSTANTS
    c1 = c1
    c2 = c2
    c3 = c3
    p1 = p1
    p2 = p2
    a = a
    b = b
    Conns = {c1, c2}
    Requests <- OwnerKill
    Suspended = {c1}
    Events = {"stats"}
    Ports = {p1}
    Slugs = {a}
    GeneratedSlugs = {a}
    MaxSession = 1
    ChannelCapacity = 1
    PromptHandlers = FALSE
    NoRoute = NoRoute
    NoSlug = NoSlug
    NoConn = NoConn
PROPERTY KillEndsDaemon
CHECK_DEADLOCK FALSE
