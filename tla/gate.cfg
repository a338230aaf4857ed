SPECIFICATION FairSpec
CONSTANTS
    Window = 2
    MaxStamp = 2
    MaxInterrupts = 2
    Regimes = {{"outage", "visitor", "slow_reap", "expiry", "early_end", "restart"},
               {"outage", "lost_response", "visitor", "expiry", "stalled"},
               {"outage", "lost_response", "expiry", "early_end", "restart"},
               {"outage", "visitor", "expiry"}}
INVARIANTS
    OneVoice
    NoSuccessForFailedRun
PROPERTIES
    FullQuietWindow
    RunReported
    ReadyConfirmed
CHECK_DEADLOCK FALSE
