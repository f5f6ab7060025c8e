CONSTANTS
    Senders = {s1, s2}
    MaxFrames = 5
    MaxCalls = 4
    MaxLines = 3
    Procs = {p1, p2}
    Salts = {k1, k2}
    Legacy = Legacy
    NoSalt = NoSalt
    Threads = {t1, t2, t3}
    Contexts = {c1, c2}
    None = None
    MaxResults = 3
    Operations = {o1, o2}
    Preps = {b1, b2}
    NoPrep = NoPrep
    LeaseIds = {l1, l2}
    Resources = {r1, r2}
    NoResource = NoResource
    Expiry = 1
    MaxSequence = 5
    RunContexts <- MCContexts
    RunLaunches <- MCLaunches
    RunControls <- MCControls
    MaxContextLifetime = 2
    AnySequence = AnySequence
    MaxRunTime = 1
    MaxRunSequence = 2
    ControlIds = {"c1", "c2"}
    Consumers = {"u", "v"}
    Clicks = {0, 1}
    FrameWidth = 1
    FrameAges = {2}
    SessionExpiry = 3
    LeaseExpiries = {3}
    MaxEpoch = 2
    MaxControlTime = 3
SPECIFICATION PartsSpec
INVARIANTS FramesConserved LinesInOrder SaltSafe DeliverySafe CreateOnce NoOracle RunsOnce InputBounded
PROPERTIES DrainSettles CloseReleases CustodyKept
CHECK_DEADLOCK FALSE
