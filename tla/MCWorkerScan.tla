---------------------------- MODULE MCWorkerScan ----------------------------
(* Every packet of up to MaxMeasurements measurements over two values and  *)
(* two timestamps, each measurement from a source of its own: all the ties *)
(* of value, and of value and timestamp, occur.                            *)
EXTENDS WorkerScan

CONSTANT MaxMeasurements

SourceId == <<"s1", "s2", "s3", "s4">>

MCSources == {SourceId[i] : i \in 1 .. MaxMeasurements}

MCPackets ==
    UNION {{[i \in 1 .. n |-> [source |-> SourceId[i], value |-> d[i][1], ts |-> d[i][2]]] :
              d \in [1 .. n -> (0 .. 1) \X (0 .. 1)]} : n \in 0 .. MaxMeasurements}
=============================================================================
