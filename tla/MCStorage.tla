----------------------------- MODULE MCStorage -----------------------------
(* Two calls of Add for a packet, and another instance that writes three     *)
(* maxima of it, from the sources of the calls and from a third, all lower.  *)
EXTENDS Storage

CONSTANTS me, other, c1

MCWriters == {me, other}
MCClosers == {c1}

Maximum(p, s, v, t) == [packet |-> p, source |-> s, value |-> v, ts |-> t]

MCAdds  == {Maximum("p", "s1", 3, 1), Maximum("p", "s2", 4, 1)}
MCItems == MCAdds \cup {Maximum("p", "s1", 2, 2), Maximum("p", "s2", 2, 3),
                        Maximum("p", "s3", 1, 1)}
=============================================================================
