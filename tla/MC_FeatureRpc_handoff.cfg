CONSTANTS
    Callers = {c1, c2}
    NoCaller = NoCaller
    Configs = {cfg1, cfg2}
    NoConfig = NoConfig
    Ops = {"initialize", "transition", "health", "shutdown"}
    ChildCaps <- LiveWithIngress
    MaxRequests = 3
    MaxBacklog = 0
    PipeSize = 1
    SelfCancelling = {"transition"}
SPECIFICATION RpcSpec
SYMMETRY Symmetry
INVARIANTS TransitionSafe NoRequestLost
PROPERTIES ImplementsHandoff
CHECK_DEADLOCK FALSE
