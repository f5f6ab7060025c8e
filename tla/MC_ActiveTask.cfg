CONSTANTS
    Senders = {s1}
    Watchers = {w1}
    NoClient = NoClient
    AgentStates = {"completed"}
    ReplicaStates = {"working", "completed"}
    MaxEvents = 1
    MaxOthers = 2
    SinkSize = 2
SPECIFICATION ActiveFairSpec
INVARIANTS CleanedUnused
PROPERTIES StatusFinal CancelReturns
CHECK_DEADLOCK FALSE
