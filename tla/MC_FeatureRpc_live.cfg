CONSTANTS
    Callers = {c1, c2}
    NoCaller = NoCaller
    Configs = {cfg1}
    NoConfig = NoConfig
    Ops = {"health", "call"}
    ChildCaps <- PrepareOnly
    MaxRequests = 3
    MaxBacklog = 0
    PipeSize = 1
    SelfCancelling = {"call"}
SPECIFICATION FairRpcSpec
PROPERTIES HealthAnswered
CHECK_DEADLOCK FALSE
