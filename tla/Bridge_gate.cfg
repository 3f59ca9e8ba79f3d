SPECIFICATION Spec
CONSTANTS
    probe = probe
    preflight = preflight
    b1 = b1
    b2 = b2
    Readers = {probe, preflight}
    Inject = inject
    Start = start
    Tick = tick
    Stop = stop
    Bridges = {b1, b2}
    NoBridge = NoBridge
    MaxReads = 1
    MaxDrops = 1
SYMMETRY Symmetry
CHECK_DEADLOCK FALSE
INVARIANTS TypeOK ShortClientsAlone StoppedStaysStopped RunningTicks
