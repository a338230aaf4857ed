SPECIFICATION FairSpec
CONSTANTS
    gpu = gpu
    cpu = cpu
    Lanes = {gpu, cpu}
    DefaultLane = gpu
    Timer = timer
    Operator = operator
    Setups <- MCSetups
INVARIANTS NoFalseAlarm PagedOnce
PROPERTIES ProblemsPaged PumpProgress
CHECK_DEADLOCK FALSE
