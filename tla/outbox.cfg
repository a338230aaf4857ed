SPECIFICATION OutboxFairSpec
CONSTANTS
    runner = runner
    gate = gate
    operator = operator
    NoFile = NoFile
    RunnerProcess = runner
    Replayers = {gate, operator}
    MaxAttempts = 3
    Overlaps = {TRUE, FALSE}
    MaxCrashes = 1
INVARIANTS
    GivesUpLast
PROPERTIES
    CallbackDurable
    EventuallySettled
CHECK_DEADLOCK FALSE
