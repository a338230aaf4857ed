SPECIFICATION FairSpec
CONSTANTS
    Papers = {p1, p2, p3}
    Corpus = corpus
    Surfaces = {docs, profile}
    Limit = 2
    Settings = {{"commit", "push", "sync"}, {"commit", "sync"}, {"sync"}, {"preflight_only"}}
    Defects = {{}, {p3}}
    Regimes = {{}, {"push_fails"}, {"push_fails", "crash", "transient"},
               {"push_fails", "crash", "repair"}}
INVARIANTS ReleaseChecked LedgerCommitted SurfacesAgree
PROPERTIES LedgerKept PapersRecorded
CHECK_DEADLOCK FALSE
