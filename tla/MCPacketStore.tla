--------------------------- MODULE MCPacketStore ---------------------------
(* Two instances write four maxima of one packet, from three sources, with  *)
(* rising, falling and equal values, and one maximum of another packet.     *)
EXTENDS PacketStore

CONSTANTS u1, u2

MCWriters == {u1, u2}

Maximum(p, s, v, t) == [packet |-> p, source |-> s, value |-> v, ts |-> t]

MCItems == {Maximum("p", "s1", 2, 1), Maximum("p", "s1", 1, 2), Maximum("p", "s2", 2, 3),
            Maximum("p", "s3", 3, 1), Maximum("q", "s1", 1, 1)}
=============================================================================
