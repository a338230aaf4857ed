SPECIFICATION Spec
CONSTANTS
    pa = pa
    pb = pb
    gpu = gpu
    cpu = cpu
    i1 = i1
    i2 = i2
    d1 = d1
    d2 = d2
    Projects = {pa, pb}
    Lanes = {gpu, cpu}
    Dispatchers = {d1, d2}
    Importers = {i1, i2}
    NoRun = NoRun
    Setups <- MCSetups
SYMMETRY Symmetry
INVARIANTS LiveRunKept WorkerExclusive
CHECK_DEADLOCK FALSE
