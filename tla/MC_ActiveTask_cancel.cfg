CONSTANTS
    Senders = {s1, s2}
    Watchers = {}
    NoClient = NoClient
    AgentStates = {}
    ReplicaStates = {}
    MaxEvents = 1
    MaxOthers = 1
    SinkSize = 2
SPECIFICATION ActiveFairSpec
PROPERTY RequestReturns
CHECK_DEADLOCK FALSE
