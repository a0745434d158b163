---------------------------- MODULE MCRepository ----------------------------
(* Repository with calls of Add that outnumber its limits, one of them with *)
(* an argument that is refused, and a lookup.                             *)
EXTENDS Repository

CONSTANTS a1, a2, a3, bad, c1, c2, q1

MCAdds       == {a1, a2, a3, bad}
MCValid      == {a1, a2, a3}
MCOneCloser  == {c1}
MCQueries    == {q1}
MCTwoClosers == {c1, c2}
=============================================================================
