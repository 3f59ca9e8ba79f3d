SPECIFICATION FairSpec
CONSTANTS
    probe = probe
    preflight = preflight
    b1 = b1
    b2 = b2
    Readers = {probe}
    Inject = inject
    Start = start
    Tick = tick
    Stop = stop
    Bridges = {b1, b2}
    NoBridge = NoBridge
    MaxReads = 1
    MaxDrops = 0
CHECK_DEADLOCK FALSE
PROPERTIES EveryoneServed InjectEnds
