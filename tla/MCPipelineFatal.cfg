SPECIFICATION Spec
CONSTANTS
    p1 = p1
    p2 = p2
    p3 = p3
    p4 = p4
    w1 = w1
    w2 = w2
    q1 = q1
    None = None
    Adds <- MCTwoPackets
    Valid <- MCTwoPackets
    Closers <- MCClosers
    Workers <- MCWorkers
    Staffs <- MCStaffs
    CfgPacketBuffer = 1
    Queries <- MCQueries
    CfgBatchSize = 2
    CfgBufferSize = 1
    CfgBatchTimeout = 1
INVARIANT
    ExitStores
