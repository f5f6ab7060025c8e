CONSTANTS
    Callers = {c1, c2}
    NoCaller = NoCaller
    Configs = {cfg1}
    NoConfig = NoConfig
    Ops = {"initialize", "transition"}
    ChildCaps <- LiveOnly
    MaxRequests = 2
    MaxBacklog = 1
SPECIFICATION FairSpec
PROPERTIES DeadChildReleases CloseReleasesStreams
CHECK_DEADLOCK FALSE
