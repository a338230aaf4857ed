SPECIFICATION Spec
CONSTANTS
    research = research
    draft = draft
    t1 = t1
    t2 = t2
    gpu = gpu
    cpu = cpu
    Units = {research, draft}
    StopList = {research, draft}
    ResumeList = {research}
    OptionalList = {draft}
    Dispatching = {research}
    Threads = {t1, t2}
    Hosts = {gpu, cpu}
    HostOf <- MCHostOf
    WatchedHost = gpu
    Regimes <- MCRegimes
INVARIANTS StopIsQuiet ResumeIsArmed
PROPERTY HoldLetsRestart
