SPECIFICATION PartsSpec
CONSTANTS
    i1 = i1
    i2 = i2
    l1 = l1
    l2 = l2
    a = a
    p1 = p1
    p2 = p2
    r1 = r1
    Parts = {"frames"}
    MaxRules = 3
    Installers = {i1, i2}
    Pids = {11, 12, 13}
    MaxSequence = 2
    MaxAttempts = 2
    MaxInstallFaults = 2
    MaxForks = 2
    ReadChunk = 2
    PrefixBytes = 1
    MaxOutputBytes = 8
    MaxOutputLines = 3
    MaxReads = 2
    HeaderBase = 10
    MaxPayload = 20
    PayloadLengths = {0, 1, 3, 21}
    MaxFrames = 3
    Ports = {p1, p2}
    Slugs = {a}
    GeneratedSlugs = {a}
    MaxSession = 2
    NoRoute = NoRoute
    NoSlug = NoSlug
    Requests = {r1}
    MaxCount = 1
    MaxCarried = 2
    MaxWord = 4
    MaxSlugBytes = 3
    MaxPort = 700
    Candidates <- Combinations
    Attempts = 2
    Launchers = {l1, l2}
    MaxFiles = 3
    MaxSetupKills = 1
    MaxSetups = 3
    HorizontalMargin = 4
    MinPanelWidth = 6
    MaxWidth = 7
INVARIANT AcknowledgementIsUnderstood
CHECK_DEADLOCK FALSE
