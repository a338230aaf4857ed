SPECIFICATION Spec
CONSTANTS
    drain = drain
    batch = batch
    package = package
    claim = claim
    answer = answer
    reject = reject
    finish = finish
    Threads = {t1, t2}
    NoCall = NoCall
    Calls <- AllCalls
    KindOf <- Kind
    Target <- Asked
    Regimes = {{}, {"failure"}, {"failure", "crash"}, {"overlap"}}
INVARIANTS PackageBacked AnswersKept ArtifactsAccounted
PROPERTY TerminalFinal
CHECK_DEADLOCK FALSE
