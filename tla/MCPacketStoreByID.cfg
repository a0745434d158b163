SPECIFICATION StoreSpec
CONSTANTS
    u1 = u1
    u2 = u2
    Writers <- MCWriters
    Items <- MCItems
    MaxPurges = 1
INVARIANT
    ReturnsMaximum
