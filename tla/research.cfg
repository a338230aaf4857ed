SPECIFICATION Spec
CONSTANTS
    Lanes = {gpu, cpu}
    Candidates = {c1, c2, c3}
    LaneOf <- MCLaneOf
    Cycles = {1, 2}
    MinDepth = 1
    MaxPromotions = 2
    MaxDispatches = 2
    MaxDepth = 1
    MaxClaim = 1
    MaxBatch = 1
    Setups <- MCSetups
    None = none
    c1 = c1
    c2 = c2
    c3 = c3
    gpu = gpu
    cpu = cpu
INVARIANTS ChainsEnd QueueStaysShallow PromotedOnce
PROPERTY NoRevival
CHECK_DEADLOCK FALSE
