SPECIFICATION RunnerSpec
CONSTANTS
    c1 = c1
    c2 = c2
    c3 = c3
    c4 = c4
    k1 = k1
    k2 = k2
    main = main
    other = other
    NoDb = NoDb
    Calls <- MCCalls
    Closers <- MCClosers
    DSNs <- MCDSNs
    dsn <- MCdsn
INVARIANTS
    RunnerTypeOK
    NoLeak
    StoppedByClose
PROPERTIES
    ReleasedAtReturn
    SharesDatabases
