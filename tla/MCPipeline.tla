----------------------------- MODULE MCPipeline -----------------------------
(* Pipeline with a few packets and a lookup, with two workers or with none. *)
EXTENDS Pipeline, TLC

CONSTANTS p1, p2, p3, p4, w1, w2, q1

MCPackets    == {p1, p2, p3, p4}
MCTwoPackets == {p1, p2}
MCClosers    == {"main"}
MCQueries    == {q1}
MCWorkers    == {w1, w2}
MCStaffs     == {{}, MCWorkers}

(* Packets, and workers, are interchangeable: nothing orders them. *)
MCSymmetry == Permutations(MCPackets) \cup Permutations(MCWorkers)
=============================================================================
