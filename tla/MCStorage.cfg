SPECIFICATION StorageSpec
CONSTANTS
    me = me
    other = other
    c1 = c1
    Adds <- MCAdds
    Valid <- MCAdds
    Closers <- MCClosers
    Queries = {}
    CfgBatchSize = 2
    CfgBufferSize = 1
    CfgBatchTimeout = 0
    Writers <- MCWriters
    Items <- MCItems
    MaxPurges = 1
    Me = me
INVARIANTS
    StoreTypeOK
    StoredIsCovered
    SourceOwnsValue
    StorageTypeOK
    Settled
PROPERTIES
    NeverLower
    KeepsMaximum
    DurableAtClose
