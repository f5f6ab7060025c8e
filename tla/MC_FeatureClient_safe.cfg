CONSTANTS
    Callers = {c1, c2}
    NoCaller = NoCaller
    Configs = {cfg1, cfg2}
    NoConfig = NoConfig
    Ops = {"initialize", "health", "call", "ingress", "transition", "shutdown"}
    ChildCaps <- LiveOrPrepare
    MaxRequests = 3
    MaxBacklog = 1
SPECIFICATION Spec
SYMMETRY Symmetry
VIEW WithoutFrames
INVARIANTS PendingSound FencedNotReady LifecycleOrder
PROPERTIES FenceIsFinal
CHECK_DEADLOCK FALSE
