-------------------------------- MODULE Api --------------------------------
(***************************************************************************)
(* What the two APIs make of a request before they ask the service, and of *)
(* the service's answer.  HTTP: the router of api/chi, then handleGetMax   *)
(* and its two branches in api/http.  gRPC: the two methods of api/grpc.   *)
(* A parameter is absent, malformed (not a UUID, not a time), or good.     *)
(***************************************************************************)
EXTENDS Integers

CONSTANTS
    Packets,    \* packet identifiers
    Times       \* instants

ASSUME TimesAssumption == Times \subseteq Int

Absent    == [form |-> "absent"]
Malformed == [form |-> "malformed"]
Good(v)   == [form |-> "good", is |-> v]

Params(S) == {Absent, Malformed} \cup {Good(v) : v \in S}
Given(p)  == p.form /= "absent"
Parses(p) == p.form = "good"

(* The routes that differ in their answer: /max, /health and /healthz, and  *)
(* others; GET and other methods.                                           *)
Urls ==
    [path : {"max", "health", "other"}, get : BOOLEAN,
     id : Params(Packets), from : Params(Times), to : Params(Times)]

Calls ==
    [method : {"GetMaxByID"}, id : Params(Packets)] \cup
    [method : {"GetMaxByTimeRange"}, from : Params(Times), to : Params(Times)]

(* What is asked of the service, or why it is not asked. *)
ById(p)        == [ask |-> "id", id |-> p]
InTime(f, t)   == [ask |-> "range", from |-> f, to |-> t]
Refused(why)   == [ask |-> "nothing", why |-> why]

Questions ==
    {ById(p) : p \in Packets} \cup {InTime(f, t) : f, t \in Times} \cup
    {Refused(why) : why \in {"healthy", "invalid", "unknown path", "method"}}

Asks(q) == q.ask /= "nothing"

-----------------------------------------------------------------------------
(* HTTP *)

HandleMaxByID(u) == IF Parses(u.id) THEN ById(u.id.is) ELSE Refused("invalid")

HandleMaxByRange(u) ==
    IF Parses(u.from) /\ Parses(u.to) /\ u.from.is <= u.to.is
      THEN InTime(u.from.is, u.to.is)
      ELSE Refused("invalid")

HandleGetMax(u) ==
    CASE Given(u.id) /\ (Given(u.from) \/ Given(u.to)) -> Refused("invalid")
      [] Given(u.id) /\ ~(Given(u.from) \/ Given(u.to)) -> HandleMaxByID(u)
      [] ~Given(u.id) /\ (Given(u.from) \/ Given(u.to)) -> HandleMaxByRange(u)
      [] OTHER -> Refused("invalid")

(* Mux.ServeHTTP: the route of method and path, else 405 when the path has a *)
(* route of another method, else 404.                                        *)
HttpQuestion(u) ==
    CASE u.path = "other" -> Refused("unknown path")
      [] u.path /= "other" /\ ~u.get -> Refused("method")
      [] u.path = "health" /\ u.get -> Refused("healthy")
      [] OTHER -> HandleGetMax(u)

HttpStatus(answer) ==
    CASE answer \in {"found", "healthy"} -> 200
      [] answer = "invalid" -> 400
      [] answer \in {"missing", "unknown path"} -> 404
      [] answer = "method" -> 405
      [] answer = "failed" -> 500

(* Mutant: a bad request passes for a success. *)
HttpErrorAbove400(answer) == HttpStatus(answer) > 400

(* What the middleware counts as an error. *)
HttpError(answer) == HttpStatus(answer) >= 400

-----------------------------------------------------------------------------
(* gRPC *)

GrpcQuestion(c) ==
    CASE c.method = "GetMaxByID" /\ Parses(c.id) -> ById(c.id.is)
      [] c.method = "GetMaxByTimeRange" /\ Parses(c.from) /\ Parses(c.to)
           /\ c.from.is <= c.to.is -> InTime(c.from.is, c.to.is)
      [] OTHER -> Refused("invalid")

GrpcCode(answer) ==
    CASE answer = "found" -> "OK"
      [] answer = "invalid" -> "InvalidArgument"
      [] answer = "missing" -> "NotFound"
      [] answer = "failed" -> "Internal"

(* Mutant: only failures of the service count. *)
GrpcErrorInternal(answer) == GrpcCode(answer) = "Internal"

(* What the interceptor counts as an error. *)
GrpcError(answer) == GrpcCode(answer) /= "OK"
=============================================================================
