SPECIFICATION Spec
CONSTANTS
    pa = pa
    pb = pb
    la = la
    ra1 = ra1
    ra2 = ra2
    rb1 = rb1
    NoRun = NoRun
    h1 = h1
    h2 = h2
    Projects = {pa, pb}
    Lanes = {la}
    DefaultLane = la
    LaneOf <- OneLane
    Runs = {ra1, ra2, rb1}
    ProjectOf <- RunOwner
    Handlers = {h1, h2}
    Signals <- SuccessOrFailure
    Disturbances = {}
    MaxCrashes = 1
PROPERTIES
    TerminalSuccessFinal
CHECK_DEADLOCK FALSE
