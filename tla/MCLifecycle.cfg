SPECIFICATION FairLifeSpec
CONSTANTS
    h1 = h1
    h2 = h2
    g1 = g1
    Requests <- MCRequests
    kind <- MCkind
    NFiles = 2
    MaxAttempts = 2
    MaxStarts = 2
INVARIANTS
    LifeTypeOK
    SchemaInOrder
    ServesOnSchema
    RepositoryOutlivesRequests
PROPERTY
    ProcessEnds
