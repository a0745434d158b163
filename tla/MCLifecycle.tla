---------------------------- MODULE MCLifecycle ----------------------------
(* Two migration files, two attempts, two starts; a request of each server  *)
(* and a second one of HTTP.                                                *)
EXTENDS Lifecycle

CONSTANTS h1, h2, g1

MCRequests == {h1, h2, g1}
MCkind     == [r \in MCRequests |-> IF r = g1 THEN "grpc" ELSE "http"]
=============================================================================
