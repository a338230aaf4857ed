SPECIFICATION Spec
CONSTANTS
    pa = pa
    pb = pb
    la = la
    ra1 = ra1
    ra2 = ra2
    rb1 = rb1
    NoRun = NoRun
    h1 = h1
    h2 = h2
    Projects = {pa, pb}
    Lanes = {la}
    DefaultLane = la
    LaneOf <- OneLane
    Runs = {ra1, rb1}
    ProjectOf <- RunOwner
    Handlers = {h1}
    Signals <- SuccessOrFailure
    Disturbances = {"early_callback", "lost_response", "late_arrival", "mark_paused", "hold"}
    MaxCrashes = 1
INVARIANTS
    DispatchingExclusive
    CompletedBacked
    SettledReleasesRow
CHECK_DEADLOCK FALSE
