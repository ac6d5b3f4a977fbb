SPECIFICATION StartupSpec
CONSTANTS
    s1 = s1
    s2 = s2
    Starters = {s1, s2}
    NoOne = NoOne
    NoPort = NoPort
    Platforms = {"unix", "windows"}
    ProxyPorts = {1, 2}
    TakenSets <- FreeOrTaken
    MaxFaults = 1
INVARIANTS StartupTypeOK TunnelsReadTheirPort
PROPERTIES OneDaemonServes RefusedOnlyByLeavers StartsEnd
CHECK_DEADLOCK FALSE
