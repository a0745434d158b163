------------------------------ MODULE Serving ------------------------------
(***************************************************************************)
(* The service as its clients see it: requests of both APIs read the table *)
(* while the writer of the repository flushes batches into it, and both    *)
(* update the metrics that a scrape of /metrics reads.  The table and what *)
(* a write does to it are module PacketStore, whose variables and actions  *)
(* this module shares; what a request asks is module Api.                  *)
(***************************************************************************)
EXTENDS PacketStore, Api, Metrics

CONSTANTS
    Requests,       \* each is served once
    Batches,        \* the batches that the repository may flush
    RequestTimes,   \* how long a request may take
    FlushTimes,     \* how long a flush, and the wait before it, may take
    Traffic         \* the requests that clients make: Urls and Calls

(* One process, so one writer; and each packet has one maximum, since the    *)
(* generator never repeats an identifier.                                    *)
ASSUME OneProcessAssumption ==
    /\ \A v, w \in Writers : v = w
    /\ MaxPurges = 0
    /\ \A i, j \in Items : i.packet = j.packet => i = j
ASSUME BatchesAssumption ==
    \A B \in Batches : B \subseteq Items /\ IsFiniteSet(B)
ASSUME RequestsAssumption == IsFiniteSet(Requests)
ASSUME TrafficAssumption == Traffic \subseteq Urls \cup Calls
ASSUME TakesAssumption ==
    RequestTimes \subseteq Durations /\ FlushTimes \subseteq Durations

VARIABLES
    stage,      \* where each request is
    request,    \* what it is
    answer,     \* what it is answered: [kind, rows]
    flush,      \* where the writer is in its flush
    batch,      \* the items it has still to write
    storedThen, \* history: what had been stored when the request arrived
    servedThen  \* history: requests served, and with an error, at GatherBegin

requestVars == <<stage, request, answer, storedThen>>
flushVars   == <<flush, batch>>
vars == <<storeVars, metricVars, requestVars, flushVars, servedThen>>

NoRequest == [method |-> "none"]
Pending   == [kind |-> "pending", rows |-> {}]
Without(kind) == [kind |-> kind, rows |-> {}]

Init ==
    /\ StoreInit
    /\ MetricsInit
    /\ stage = [r \in Requests |-> "new"]
    /\ request = [r \in Requests |-> NoRequest]
    /\ answer = [r \in Requests |-> Pending]
    /\ storedThen = [r \in Requests |-> {}]
    /\ flush = "none"
    /\ batch = {}
    /\ servedThen = [all |-> {}, bad |-> {}]

OverHttp(q) == q \in Urls
Question(q) == IF OverHttp(q) THEN HttpQuestion(q) ELSE GrpcQuestion(q)
IsError(q, kind) == IF OverHttp(q) THEN HttpError(kind) ELSE GrpcError(kind)

-----------------------------------------------------------------------------
(* A request *)

ByRequest == UNCHANGED <<storeVars, flushVars, servedThen>>

GoOn(r, from, to) ==
    /\ stage[r] = from
    /\ stage' = [stage EXCEPT ![r] = to]
    /\ ByRequest

Answer(r, a) == answer' = [answer EXCEPT ![r] = a]

(* The router and the checks of the handler: the service is asked, or the    *)
(* answer is already known.                                                  *)
Arrive(r, q) ==
    LET asked == Question(q) IN
    /\ GoOn(r, "new", IF Asks(asked) THEN "asking" ELSE "answered")
    /\ request' = [request EXCEPT ![r] = q]
    /\ storedThen' = [storedThen EXCEPT ![r] = stored]
    /\ IF Asks(asked) THEN UNCHANGED answer ELSE Answer(r, Without(asked.why))
    /\ UNCHANGED metricVars

(* The rows that the SELECT of the question may return. *)
Select(q) ==
    IF q.ask = "id"
      THEN IF ByID(q.id) = {} THEN {{}} ELSE {{r} : r \in ByID(q.id)}
      ELSE {InRange(q.from, q.to)}

(* Aggregator, PacketMaxByID and PacketMaxInRange: one statement.  No row is *)
(* ErrNotFound; an error of the runner or of the parser is another error.    *)
Read(r) ==
    /\ GoOn(r, "asking", "answered")
    /\ \/ \E rows \in Select(Question(request[r])) :
            Answer(r, [kind |-> IF rows = {} THEN "missing" ELSE "found", rows |-> rows])
       \/ Answer(r, Without("failed"))
    /\ UNCHANGED <<request, storedThen, metricVars>>

(* What a client sees of an answer in the end: whether it got what it asked. *)
Outcome(kind) == IF kind \in {"found", "healthy"} THEN "good" ELSE "bad"

(* The deferred function of HTTPMiddleware and of GRPCUnaryInterceptor: the  *)
(* duration, the request and, by the status, the error.  The rest of the     *)
(* answer has left the handler.                                              *)
ObserveDuration(r, d) ==
    /\ GoOn(r, "answered",
            IF IsError(request[r], answer[r].kind) THEN "observed error" ELSE "observed")
    /\ Observe("processing", d)
    /\ Answer(r, Without(Outcome(answer[r].kind)))
    /\ request' = [request EXCEPT ![r] = NoRequest]
    /\ storedThen' = [storedThen EXCEPT ![r] = {}]

CountRequest(r) ==
    /\ GoOn(r, "observed", "served") \/ GoOn(r, "observed error", "counted")
    /\ Inc("requests")
    /\ UNCHANGED <<request, answer, storedThen>>

CountError(r) ==
    /\ GoOn(r, "counted", "served")
    /\ Inc("errors")
    /\ UNCHANGED <<request, answer, storedThen>>

RequestStep(r) ==
    \/ \E q \in Traffic : Arrive(r, q)
    \/ Read(r)
    \/ \E d \in RequestTimes : ObserveDuration(r, d)
    \/ CountRequest(r)
    \/ CountError(r)

-----------------------------------------------------------------------------
(* A flush of the repository's writer *)

FlushTo(from, to) ==
    /\ flush = from
    /\ flush' = to
    /\ UNCHANGED <<requestVars, servedThen>>

FlushBegin(B, d) ==
    /\ FlushTo("none", "waited")
    /\ B /= {} /\ B \cap started = {}
    /\ batch' = B
    /\ Observe("batch_wait", d)
    /\ UNCHANGED storeVars

FlushSize ==
    /\ FlushTo("waited", "writing")
    /\ Set("batch_size", Cardinality(batch))
    /\ UNCHANGED <<storeVars, batch>>

(* Mutant: the batch is not emptied. *)
FlushItemKeeps(w, i) ==
    /\ flush = "writing"
    /\ i \in batch
    /\ BeginWrite(w, i)
    /\ UNCHANGED <<flush, batch, requestVars, metricVars, servedThen>>

(* processBatch *)
FlushItem(w, i) ==
    /\ flush = "writing"
    /\ i \in batch
    /\ BeginWrite(w, i)
    /\ batch' = batch \ {i}
    /\ UNCHANGED <<flush, requestVars, metricVars, servedThen>>

FlushStatement(w) ==
    /\ Insert(w) \/ UpdatePair(w) \/ UpdatePacket(w) \/ StatementFails(w)
    /\ UNCHANGED <<flushVars, requestVars, metricVars, servedThen>>

(* RecordDBBatchFlush *)
FlushCount ==
    /\ FlushTo("writing", "counted")
    /\ batch = {} /\ \A w \in Writers : at[w] = "idle"
    /\ Inc("flushes")
    /\ UNCHANGED <<storeVars, batch>>

FlushObserve(d) ==
    /\ FlushTo("counted", "none")
    /\ Observe("flush_time", d)
    /\ UNCHANGED <<storeVars, batch>>

FlushStep ==
    \/ \E B \in Batches, d \in FlushTimes : FlushBegin(B, d)
    \/ FlushSize
    \/ \E w \in Writers : (\E i \in Items : FlushItem(w, i)) \/ FlushStatement(w)
    \/ FlushCount
    \/ \E d \in FlushTimes : FlushObserve(d)

-----------------------------------------------------------------------------
(* A scrape *)

ServedSet == {r \in Requests : stage[r] = "served"}
BadSet    == {r \in ServedSet : answer[r].kind = "bad"}

ScrapeBegin ==
    /\ GatherBegin
    /\ servedThen' = [all |-> ServedSet, bad |-> BadSet]
    /\ UNCHANGED <<storeVars, requestVars, flushVars>>

ScrapeNext ==
    /\ GatherNext
    /\ UNCHANGED <<storeVars, requestVars, flushVars, servedThen>>

Quiet ==
    /\ started = Items /\ flush = "none" /\ PageComplete /\ ServedSet = Requests
    /\ UNCHANGED vars

Next ==
    \/ \E r \in Requests : RequestStep(r)
    \/ FlushStep
    \/ ScrapeBegin
    \/ ScrapeNext
    \/ Quiet

Spec == Init /\ [][Next]_vars

-----------------------------------------------------------------------------
(* Properties *)

Stages == {"new", "asking", "answered", "observed", "observed error", "counted", "served"}

ServingTypeOK ==
    /\ StoreTypeOK
    /\ MetricsTypeOK
    /\ stage \in [Requests -> Stages]
    /\ request \in [Requests -> Traffic \cup {NoRequest}]
    /\ flush \in {"none", "waited", "writing", "counted"}
    /\ batch \in SUBSET (Items \ started)
    /\ \A r \in Requests : storedThen[r] \subseteq stored

(* What the clients are promised (openapi.yaml): exactly one of packet_id,   *)
(* or both from and to, the interval inclusive.                              *)
Matches(q, i) ==
    IF q.ask = "id" THEN i.packet = q.id ELSE q.from <= i.ts /\ i.ts <= q.to

(* An answer is about what was asked, names only maxima that were reported,  *)
(* and is no older than the request: whatever had been stored when the       *)
(* request arrived is in it, and nothing is missing when something matched.  *)
AnswersAreCurrent ==
    \A r \in Requests : stage[r] = "answered" =>
        LET q == Question(request[r])
            a == answer[r]
        IN Asks(q) /\ a.kind /= "failed" =>
             /\ a.rows \subseteq {i \in started : Matches(q, i)}
             /\ {i \in storedThen[r] : Matches(q, i)} \subseteq a.rows
             /\ a.kind = "missing" <=> a.rows = {}

(* A request is counted once, whichever API it came by, and as an error if   *)
(* and only if its client did not get what it asked for: the counters agree  *)
(* with the requests at every moment, not only when nothing is in flight.    *)
CountedOnce ==
    LET past(places) == Cardinality({r \in Requests : stage[r] \in places}) IN
    /\ metric["processing"][0] = past({"observed", "observed error", "counted", "served"})
    /\ metric["requests"][0] = past({"counted", "served"})
    /\ metric["errors"][0] = Cardinality(BadSet)

PageAddsUp == PageComplete => AddsUp(page)

(* A scrape that begins after a client has its answer shows that request,    *)
(* and its error.                                                            *)
PageShowsServed ==
    PageComplete =>
        /\ Cardinality(servedThen.all) <= page["requests"][0]
        /\ Cardinality(servedThen.all) <= page["processing"][0]
        /\ Cardinality(servedThen.bad) <= page["errors"][0]
=============================================================================
