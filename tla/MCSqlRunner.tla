---------------------------- MODULE MCSqlRunner ----------------------------
(* Three calls of Exec on one data source, one on another, two of Close.    *)
EXTENDS SqlRunner, TLC

CONSTANTS c1, c2, c3, c4, k1, k2, main, other

MCCalls   == {c1, c2, c3, c4}
MCClosers == {k1, k2}
MCDSNs    == {main, other}
MCdsn     == [c \in MCCalls |-> IF c = c4 THEN other ELSE main]
=============================================================================
