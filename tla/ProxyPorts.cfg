SPECIFICATION StartupSafety
CONSTANTS
    s1 = s1
    s2 = s2
    Starters = {s1}
    NoOne = NoOne
    NoPort = NoPort
    Platforms = {"unix", "windows"}
    ProxyPorts = {1, 2}
    TakenSets <- FreeOrTaken
    MaxFaults = 0
INVARIANT FullPortRangeIsNamed
CHECK_DEADLOCK FALSE
