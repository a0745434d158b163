SPECIFICATION FairRepoSpec
CONSTANTS
    a1 = a1
    a2 = a2
    a3 = a3
    bad = bad
    c1 = c1
    c2 = c2
    q1 = q1
    Adds <- MCAdds
    Valid <- MCValid
    Closers <- MCOneCloser
    Queries <- MCQueries
    CfgBatchSize = 2
    CfgBufferSize = 1
    CfgBatchTimeout = 1
INVARIANTS
    RepoTypeOK
    Accounted
    TimerCoversBatch
    Released
PROPERTIES
    HandsOver
    WrittenBeforeReturn
    AddsReturn
    CloseReturns
    AcceptedIsWritten
