----------------------------- MODULE MCServing -----------------------------
(* Two requests, a batch of two packets, and one scrape. *)
EXTENDS Serving, TLC

CONSTANTS r1, r2, writer

MCRequests == {r1, r2}
MCWriters  == {writer}
MCPackets  == {"p", "q"}
MCTimes    == {1, 2}

Maximum(p, t) == [packet |-> p, source |-> "s", value |-> 1, ts |-> t]
MCItems == {Maximum("p", 1), Maximum("q", 2)}
MCBatches == {MCItems}

Get(path, get, id, from, to) ==
    [path |-> path, get |-> get, id |-> id, from |-> from, to |-> to]

MCTraffic ==
    {Get("max", TRUE, Good("p"), Absent, Absent),
     Get("max", TRUE, Good("p"), Good(1), Absent),
     Get("max", TRUE, Absent, Good(1), Good(2)),
     Get("max", TRUE, Absent, Good(2), Good(1)),
     Get("max", FALSE, Good("p"), Absent, Absent),
     Get("health", TRUE, Absent, Absent, Absent),
     [method |-> "GetMaxByID", id |-> Malformed],
     [method |-> "GetMaxByTimeRange", from |-> Good(2), to |-> Good(2)]}

MCSymmetry == Permutations(MCRequests)
=============================================================================
