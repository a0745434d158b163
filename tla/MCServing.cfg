SPECIFICATION Spec
CONSTANTS
    r1 = r1
    r2 = r2
    writer = writer
    Requests <- MCRequests
    Writers <- MCWriters
    Packets <- MCPackets
    Times <- MCTimes
    Items <- MCItems
    Batches <- MCBatches
    Traffic <- MCTraffic
    MaxPurges = 0
    NBuckets = 2
    RequestTimes = {1}
    FlushTimes = {3}
SYMMETRY MCSymmetry
INVARIANTS
    ServingTypeOK
    AnswersAreCurrent
    CountedOnce
    PageAddsUp
    PageShowsServed
