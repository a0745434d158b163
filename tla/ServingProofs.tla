--------------------------- MODULE ServingProofs ---------------------------
(***************************************************************************)
(* For every set of requests, batches and items and every number of        *)
(* buckets: answers are current, requests are counted once, and a page of  *)
(* metrics adds up although its lines were read at different moments.      *)
(***************************************************************************)
EXTENDS Serving, FiniteSetTheorems, TLAPS

(* The metrics and the order in which a scrape writes them. *)
LEMMA NamesAre ==
    /\ Names = {"flush_time", "flushes", "batch_size", "batch_wait", "processing",
                "errors", "requests"}
    /\ Len(GatherOrder) = 7
    /\ GatherOrder[1] = "flush_time" /\ GatherOrder[2] = "flushes"
    /\ GatherOrder[3] = "batch_size" /\ GatherOrder[4] = "batch_wait"
    /\ GatherOrder[5] = "processing" /\ GatherOrder[6] = "errors"
    /\ GatherOrder[7] = "requests"
<1>1. DOMAIN GatherOrder = 1 .. 7 /\ Len(GatherOrder) = 7
  BY DEF GatherOrder
<1>2. /\ GatherOrder[1] = "flush_time" /\ GatherOrder[2] = "flushes"
      /\ GatherOrder[3] = "batch_size" /\ GatherOrder[4] = "batch_wait"
      /\ GatherOrder[5] = "processing" /\ GatherOrder[6] = "errors"
      /\ GatherOrder[7] = "requests"
  BY DEF GatherOrder
<1>3. \A i \in 1 .. 7 : i = 1 \/ i = 2 \/ i = 3 \/ i = 4 \/ i = 5 \/ i = 6 \/ i = 7
  OBVIOUS
<1>4. /\ 1 \in DOMAIN GatherOrder /\ 2 \in DOMAIN GatherOrder /\ 3 \in DOMAIN GatherOrder
      /\ 4 \in DOMAIN GatherOrder /\ 5 \in DOMAIN GatherOrder /\ 6 \in DOMAIN GatherOrder
      /\ 7 \in DOMAIN GatherOrder
  BY <1>1
<1>5. QED
  BY <1>1, <1>2, <1>3, <1>4 DEF Names

LEMMA LevelsAre == 0 \in Levels /\ Levels \subseteq Nat
BY BucketsAssumption DEF Levels

-----------------------------------------------------------------------------
(* Updates of a metric *)

Numbers == metric \in [Names -> [Levels -> Nat]]

Cumulative(h) == \A b, c \in Levels : 0 < b /\ b <= c => h[b] <= h[c] /\ h[c] <= h[0]

(* Metric n has counted one more, and nothing else has changed. *)
Bump(n) ==
    /\ metric' \in [Names -> [Levels -> Nat]]
    /\ \A m \in Names \ {n} : metric'[m] = metric[m]
    /\ metric'[n][0] = metric[n][0] + 1
    /\ \A b \in Levels : metric[n][b] <= metric'[n][b]
    /\ UNCHANGED <<page, gathered>>

LEMMA IncBumps ==
    ASSUME Numbers, NEW n \in Names, Inc(n)
    PROVE  Bump(n)
<1> DEFINE new == [b \in Levels |-> metric[n][b] + IF b = 0 THEN 1 ELSE 0]
<1>1. metric[n] \in [Levels -> Nat]
  BY DEF Numbers
<1>2. new \in [Levels -> Nat] /\ new[0] = metric[n][0] + 1
      /\ \A b \in Levels : metric[n][b] <= new[b]
  BY <1>1, LevelsAre
<1>3. metric' = [m \in Names |-> IF m = n THEN new ELSE metric[m]]
      /\ UNCHANGED <<page, gathered>>
  BY DEF Inc, Update
<1> HIDE DEF new
<1>4. metric'[n] = new /\ \A m \in Names \ {n} : metric'[m] = metric[m]
  BY <1>3
<1>5. metric' \in [Names -> [Levels -> Nat]]
  BY <1>2, <1>3 DEF Numbers
<1>6. QED
  BY <1>2, <1>3, <1>4, <1>5 DEF Bump

LEMMA ObserveBumps ==
    ASSUME Numbers, NEW n \in Names, NEW d \in Durations, Observe(n, d)
    PROVE  Bump(n) /\ (Cumulative(metric[n]) => Cumulative(metric'[n]))
<1> DEFINE new == [b \in Levels |-> metric[n][b] + IF b = 0 \/ d <= b THEN 1 ELSE 0]
<1>1. metric[n] \in [Levels -> Nat] /\ d \in Int /\ Levels \subseteq Int
  BY BucketsAssumption DEF Numbers, Durations, Levels
<1>2. new \in [Levels -> Nat] /\ new[0] = metric[n][0] + 1
      /\ \A b \in Levels : metric[n][b] <= new[b]
  <2>1. ASSUME NEW b \in Levels
        PROVE  new[b] \in Nat /\ metric[n][b] <= new[b]
    <3>1. metric[n][b] \in Nat
      BY <1>1
    <3>2. CASE b = 0 \/ d <= b
      BY <3>1, <3>2
    <3>3. CASE ~(b = 0 \/ d <= b)
      BY <3>1, <3>3
    <3>4. QED
      BY <3>2, <3>3
  <2>2. new[0] = metric[n][0] + 1
    BY LevelsAre
  <2>3. new = [b \in Levels |-> new[b]]
    OBVIOUS
  <2> HIDE DEF new
  <2>4. QED
    BY <2>1, <2>2, <2>3
<1>3. metric' = [m \in Names |-> IF m = n THEN new ELSE metric[m]]
      /\ UNCHANGED <<page, gathered>>
  BY DEF Observe, Update
<1>4. ASSUME Cumulative(metric[n])
      PROVE  Cumulative(new)
  <2> SUFFICES ASSUME NEW b \in Levels, NEW c \in Levels, 0 < b, b <= c
               PROVE  new[b] <= new[c] /\ new[c] <= new[0]
    BY DEF Cumulative
  <2>1. metric[n][b] <= metric[n][c] /\ metric[n][c] <= metric[n][0]
    BY <1>4 DEF Cumulative
  <2>2. metric[n][b] \in Nat /\ metric[n][c] \in Nat /\ metric[n][0] \in Nat
    BY <1>1, LevelsAre
  <2>3. b \in Int /\ c \in Int
    BY <1>1
  <2>4. d <= b => d <= c
    BY <1>1, <2>3
  <2>5. QED
    BY <2>1, <2>2, <2>3, <2>4, LevelsAre
<1> HIDE DEF new
<1>5. metric'[n] = new /\ \A m \in Names \ {n} : metric'[m] = metric[m]
  BY <1>3
<1>6. metric' \in [Names -> [Levels -> Nat]]
  BY <1>2, <1>3 DEF Numbers
<1>7. QED
  BY <1>2, <1>3, <1>4, <1>5, <1>6 DEF Bump

LEMMA SetFacts ==
    ASSUME Numbers, NEW n \in Names, NEW v \in Nat, Set(n, v)
    PROVE  /\ metric' \in [Names -> [Levels -> Nat]]
           /\ \A m \in Names \ {n} : metric'[m] = metric[m]
           /\ UNCHANGED <<page, gathered>>
<1> DEFINE new == [b \in Levels |-> IF b = 0 THEN v ELSE 0]
<1>1. new \in [Levels -> Nat]
  OBVIOUS
<1>2. metric' = [m \in Names |-> IF m = n THEN new ELSE metric[m]]
      /\ UNCHANGED <<page, gathered>>
  BY DEF Set, Update
<1> HIDE DEF new
<1>3. QED
  BY <1>1, <1>2 DEF Numbers

-----------------------------------------------------------------------------
(* Requests *)

Answered(q, kind) ==
    IF Asks(Question(q))
      THEN kind \in {"found", "missing", "failed"}
      ELSE kind = Question(q).why

(* What is known of a request by its stage. *)
RequestInv ==
    /\ stage \in [Requests -> Stages]
    /\ request = [r \in Requests |-> request[r]]
    /\ answer = [r \in Requests |-> answer[r]]
    /\ storedThen = [r \in Requests |-> storedThen[r]]
    /\ \A r \in Requests :
          /\ stage[r] \in {"asking", "answered"} => request[r] \in Traffic
          /\ stage[r] = "asking" => Asks(Question(request[r]))
          /\ stage[r] = "answered" => Answered(request[r], answer[r].kind)
          /\ stage[r] = "observed" => answer[r].kind = "good"
          /\ stage[r] \in {"observed error", "counted"} => answer[r].kind = "bad"

LEMMA HttpErrors ==
    /\ ~HttpError("found") /\ ~HttpError("healthy")
    /\ HttpError("missing") /\ HttpError("failed") /\ HttpError("invalid")
    /\ HttpError("unknown path") /\ HttpError("method")
<1>1. ~HttpError("found")
  BY DEF HttpError, HttpStatus
<1>2. ~HttpError("healthy")
  BY DEF HttpError, HttpStatus
<1>3. HttpError("missing")
  BY DEF HttpError, HttpStatus
<1>4. HttpError("failed")
  BY DEF HttpError, HttpStatus
<1>5. HttpError("invalid")
  BY DEF HttpError, HttpStatus
<1>6. HttpError("unknown path")
  BY DEF HttpError, HttpStatus
<1>7. HttpError("method")
  BY DEF HttpError, HttpStatus
<1>8. QED
  BY <1>1, <1>2, <1>3, <1>4, <1>5, <1>6, <1>7

(* The status of an answer is that of an error exactly when the client does *)
(* not get what it asked for, over either API.                              *)
LEMMA ErrorsAreBad ==
    ASSUME NEW q \in Traffic, NEW kind, Answered(q, kind)
    PROVE  IsError(q, kind) <=> Outcome(kind) = "bad"
<1>1. ASSUME OverHttp(q)
      PROVE  kind \in {"found", "missing", "failed", "healthy", "invalid",
                       "unknown path", "method"}
  <2>1. Asks(HttpQuestion(q)) \/ HttpQuestion(q).why \in {"healthy", "invalid",
                                                         "unknown path", "method"}
    <3>1. q.path \in {"max", "health", "other"} /\ q.get \in BOOLEAN
      BY <1>1 DEF OverHttp, Urls
    <3>2. CASE q.path = "max" /\ q.get
      <4>1. HttpQuestion(q) = HandleGetMax(q)
        BY <3>2 DEF HttpQuestion
      <4>2. Asks(HandleGetMax(q)) \/ HandleGetMax(q) = Refused("invalid")
        BY DEF HandleGetMax, HandleMaxByID, HandleMaxByRange, Asks, ById, InTime
      <4>3. Refused("invalid").why = "invalid"
        BY DEF Refused
      <4>4. QED
        BY <4>1, <4>2, <4>3
    <3>3. CASE ~(q.path = "max" /\ q.get)
      BY <3>1, <3>3 DEF HttpQuestion, Refused
    <3>4. QED
      BY <3>2, <3>3
  <2>2. QED
    BY <1>1, <2>1 DEF Answered, Question
<1>2. CASE OverHttp(q)
  <2>1. HttpError(kind) <=> kind \notin {"found", "healthy"}
    BY <1>1, <1>2, HttpErrors
  <2>2. QED
    BY <1>2, <2>1 DEF IsError, Outcome
<1>3. CASE ~OverHttp(q)
  <2>1. q \in Calls
    BY <1>3, TrafficAssumption DEF OverHttp
  <2>2. Asks(GrpcQuestion(q)) \/ GrpcQuestion(q) = Refused("invalid")
    BY DEF GrpcQuestion, Asks, ById, InTime
  <2>3. kind \in {"found", "missing", "failed", "invalid"}
    BY <1>3, <2>2 DEF Answered, Question, Refused
  <2>4. QED
    BY <1>3, <2>3 DEF IsError, GrpcError, GrpcCode, Outcome
<1>4. QED
  BY <1>2, <1>3

(* A step that is not a request's leaves the requests alone. *)
LEMMA OtherStepsKeepRequests ==
    ASSUME FlushStep \/ ScrapeBegin \/ ScrapeNext \/ Quiet \/ UNCHANGED vars
    PROVE  UNCHANGED requestVars
BY DEF FlushStep, FlushBegin, FlushSize, FlushItem, FlushStatement, FlushCount, FlushObserve,
       FlushTo, ScrapeBegin, ScrapeNext, Quiet, vars, flushVars, requestVars

LEMMA RequestInvNext ==
    ASSUME RequestInv, [Next]_vars
    PROVE  RequestInv'
<1>1. ASSUME NEW r \in Requests, NEW q \in Traffic, Arrive(r, q)
      PROVE  RequestInv'
  <2> DEFINE asked == Question(q)
  <2>1. /\ stage' = [stage EXCEPT ![r] = IF Asks(asked) THEN "asking" ELSE "answered"]
        /\ request' = [request EXCEPT ![r] = q]
        /\ storedThen' = [storedThen EXCEPT ![r] = stored]
        /\ IF Asks(asked) THEN answer' = answer
                          ELSE answer' = [answer EXCEPT ![r] = Without(asked.why)]
    BY <1>1 DEF Arrive, GoOn, Answer
  <2>2. stage' \in [Requests -> Stages]
    BY <2>1 DEF RequestInv, Stages
  <2>3. /\ request' = [p \in Requests |-> request'[p]]
        /\ answer' = [p \in Requests |-> answer'[p]]
        /\ storedThen' = [p \in Requests |-> storedThen'[p]]
    BY <2>1 DEF RequestInv
  <2>4. request'[r] = q
    BY <2>1 DEF RequestInv
  <2>5. \A p \in Requests \ {r} :
           stage'[p] = stage[p] /\ request'[p] = request[p] /\ answer'[p] = answer[p]
    BY <2>1 DEF RequestInv
  <2>6. CASE Asks(asked)
    <3>1. stage'[r] = "asking"
      BY <2>1, <2>6 DEF RequestInv
    <3>2. QED
      BY <2>2, <2>3, <2>4, <2>5, <2>6, <3>1 DEF RequestInv
  <2>7. CASE ~Asks(asked)
    <3>1. stage'[r] = "answered" /\ answer'[r].kind = asked.why
      <4>1. Without(asked.why).kind = asked.why
        BY DEF Without
      <4> HIDE DEF asked
      <4>2. stage'[r] = "answered" /\ answer'[r] = Without(asked.why)
        BY <2>1, <2>7 DEF RequestInv
      <4>3. QED
        BY <4>1, <4>2
    <3>2. Answered(q, answer'[r].kind)
      BY <2>7, <3>1 DEF Answered
    <3>3. QED
      BY <2>2, <2>3, <2>4, <2>5, <3>1, <3>2 DEF RequestInv
  <2>8. QED
    BY <2>6, <2>7
<1>2. ASSUME NEW r \in Requests, Read(r)
      PROVE  RequestInv'
  <2>1. PICK a : answer' = [answer EXCEPT ![r] = a] /\ a.kind \in {"found", "missing", "failed"}
    <3>1. CASE Answer(r, Without("failed"))
      <4>1. Without("failed").kind = "failed"
        BY DEF Without
      <4>2. QED
        BY <3>1, <4>1 DEF Answer
    <3>2. ASSUME NEW rows, Answer(r, [kind |-> IF rows = {} THEN "missing" ELSE "found",
                                      rows |-> rows])
          PROVE  \E a : /\ answer' = [answer EXCEPT ![r] = a]
                        /\ a.kind \in {"found", "missing", "failed"}
      <4> DEFINE a == [kind |-> IF rows = {} THEN "missing" ELSE "found", rows |-> rows]
      <4>1. a.kind \in {"found", "missing", "failed"}
        OBVIOUS
      <4>2. answer' = [answer EXCEPT ![r] = a]
        BY <3>2 DEF Answer
      <4> HIDE DEF a
      <4>3. QED
        BY <4>1, <4>2
    <3>3. QED
      BY <1>2, <3>1, <3>2 DEF Read
  <2>2. /\ stage[r] = "asking"
        /\ stage' = [stage EXCEPT ![r] = "answered"]
        /\ request' = request /\ storedThen' = storedThen
    BY <1>2 DEF Read, GoOn
  <2>3. answer'[r] = a /\ stage'[r] = "answered"
    BY <2>1, <2>2 DEF RequestInv
  <2>4. Answered(request[r], a.kind) /\ request[r] \in Traffic
    BY <2>1, <2>2 DEF RequestInv, Answered
  <2>5. stage' \in [Requests -> Stages] /\ answer' = [p \in Requests |-> answer'[p]]
    BY <2>1, <2>2 DEF RequestInv, Stages
  <2>6. \A p \in Requests \ {r} : stage'[p] = stage[p] /\ answer'[p] = answer[p]
    BY <2>1, <2>2 DEF RequestInv
  <2>7. QED
    BY <2>2, <2>3, <2>4, <2>5, <2>6 DEF RequestInv
<1>3. ASSUME NEW r \in Requests, NEW d \in RequestTimes, ObserveDuration(r, d)
      PROVE  RequestInv'
  <2> DEFINE error == IsError(request[r], answer[r].kind)
             a     == Without(Outcome(answer[r].kind))
  <2>1. /\ stage[r] = "answered"
        /\ stage' = [stage EXCEPT ![r] = IF error THEN "observed error" ELSE "observed"]
        /\ answer' = [answer EXCEPT ![r] = a]
        /\ request' = [request EXCEPT ![r] = NoRequest]
        /\ storedThen' = [storedThen EXCEPT ![r] = {}]
    BY <1>3 DEF ObserveDuration, GoOn, Answer
  <2>2. error <=> Outcome(answer[r].kind) = "bad"
    BY <2>1, ErrorsAreBad DEF RequestInv
  <2>3. a.kind = IF error THEN "bad" ELSE "good"
    BY <2>2 DEF Without, Outcome
  <2> HIDE DEF error, a
  <2>4. /\ stage' \in [Requests -> Stages]
        /\ request' = [p \in Requests |-> request'[p]]
        /\ answer' = [p \in Requests |-> answer'[p]]
        /\ storedThen' = [p \in Requests |-> storedThen'[p]]
    BY <2>1 DEF RequestInv, Stages
  <2>5. /\ stage'[r] = IF error THEN "observed error" ELSE "observed"
        /\ answer'[r] = a
    BY <2>1 DEF RequestInv
  <2>6. \A p \in Requests \ {r} :
           stage'[p] = stage[p] /\ answer'[p] = answer[p] /\ request'[p] = request[p]
    BY <2>1 DEF RequestInv
  <2>7. QED
    BY <2>3, <2>4, <2>5, <2>6 DEF RequestInv
<1>4. ASSUME NEW r \in Requests, CountRequest(r) \/ CountError(r)
      PROVE  RequestInv'
  <2>1. /\ \/ stage[r] = "observed error" /\ stage' = [stage EXCEPT ![r] = "counted"]
           \/ stage' = [stage EXCEPT ![r] = "served"]
        /\ UNCHANGED <<request, answer, storedThen>>
    BY <1>4 DEF CountRequest, CountError, GoOn
  <2>2. QED
    BY <2>1 DEF RequestInv, Stages
<1>5. CASE UNCHANGED requestVars
  BY <1>5 DEF requestVars, RequestInv
<1>6. QED
  BY <1>1, <1>2, <1>3, <1>4, <1>5, OtherStepsKeepRequests DEF Next, RequestStep

-----------------------------------------------------------------------------
(* Requests and their counters *)

Past(places) == {r \in Requests : stage[r] \in places}

Observed == {"observed", "observed error", "counted", "served"}
Counted  == {"counted", "served"}

(* How many requests the metrics have to show. *)
Counters ==
    /\ metric["processing"][0] = Cardinality(Past(Observed))
    /\ metric["requests"][0] = Cardinality(Past(Counted))
    /\ metric["errors"][0] = Cardinality(BadSet)

LEMMA CountersAre == CountedOnce <=> Counters
BY DEF CountedOnce, Counters, Past, Observed, Counted

LEMMA OneMore ==
    ASSUME NEW S, NEW x, S \subseteq Requests, x \notin S
    PROVE  Cardinality(S \cup {x}) = Cardinality(S) + 1
BY RequestsAssumption, FS_Subset, FS_AddElement

(* A step that is not a request's leaves the counters of requests alone. *)
LEMMA OtherStepsKeepCounters ==
    ASSUME Numbers, IsFiniteSet(batch),
           FlushStep \/ ScrapeBegin \/ ScrapeNext \/ Quiet \/ UNCHANGED vars
    PROVE  /\ \A n \in {"processing", "requests", "errors"} : metric'[n] = metric[n]
           /\ Numbers'
<1>1. ASSUME NEW B \in Batches, NEW d \in FlushTimes, FlushBegin(B, d)
      PROVE  Bump("batch_wait")
  BY <1>1, ObserveBumps, NamesAre, TakesAssumption DEF FlushBegin
<1>2. ASSUME NEW d \in FlushTimes, FlushObserve(d)
      PROVE  Bump("flush_time")
  BY <1>2, ObserveBumps, NamesAre, TakesAssumption DEF FlushObserve
<1>3. CASE FlushCount
  <2>1. Bump("flushes")
    BY <1>3, IncBumps, NamesAre DEF FlushCount
  <2>2. QED
    BY <2>1, NamesAre DEF Bump, Numbers
<1>4. CASE FlushSize
  <2>1. Cardinality(batch) \in Nat
    BY FS_CardinalityType
  <2>2. QED
    BY <1>4, <2>1, SetFacts, NamesAre DEF FlushSize, Numbers
<1>5. CASE UNCHANGED metric
  BY <1>5 DEF Numbers
<1>6. QED
  BY <1>1, <1>2, <1>3, <1>4, <1>5, NamesAre
     DEF FlushStep, FlushItem, FlushStatement, ScrapeBegin, ScrapeNext, GatherBegin,
         GatherNext, Quiet, vars, metricVars, Bump, Numbers

LEMMA CountersNext ==
    ASSUME RequestInv, Numbers, IsFiniteSet(batch), Counters, [Next]_vars
    PROVE  Counters' /\ Numbers'
<1>1. ASSUME NEW r \in Requests, (\E q \in Traffic : Arrive(r, q)) \/ Read(r)
      PROVE  Counters' /\ Numbers'
  <2>1. UNCHANGED metric
    BY <1>1 DEF Arrive, Read, metricVars
  <2>2. /\ stage[r] \in {"new", "asking"} /\ stage'[r] \in {"asking", "answered"}
        /\ \A p \in Requests \ {r} : stage'[p] = stage[p] /\ answer'[p] = answer[p]
    BY <1>1 DEF Arrive, Read, GoOn, Answer, RequestInv
  <2>3. Past(Observed)' = Past(Observed) /\ Past(Counted)' = Past(Counted)
    BY <2>2 DEF Past, Observed, Counted
  <2>4. BadSet' = BadSet
    BY <2>2 DEF BadSet, ServedSet
  <2>5. QED
    BY <2>1, <2>3, <2>4 DEF Counters, Numbers
<1>2. ASSUME NEW r \in Requests, NEW d \in RequestTimes, ObserveDuration(r, d)
      PROVE  Counters' /\ Numbers'
  <2>1. Bump("processing")
    BY <1>2, ObserveBumps, NamesAre, TakesAssumption DEF ObserveDuration
  <2>2. /\ stage[r] = "answered" /\ stage'[r] \in {"observed", "observed error"}
        /\ \A p \in Requests \ {r} : stage'[p] = stage[p] /\ answer'[p] = answer[p]
    BY <1>2 DEF ObserveDuration, GoOn, Answer, RequestInv
  <2>3. Past(Observed)' = Past(Observed) \cup {r} /\ r \notin Past(Observed)
    BY <2>2 DEF Past, Observed
  <2>4. Past(Counted)' = Past(Counted)
    BY <2>2 DEF Past, Counted
  <2>5. BadSet' = BadSet
    BY <2>2 DEF BadSet, ServedSet
  <2>6. Cardinality(Past(Observed)') = Cardinality(Past(Observed)) + 1
    BY <2>3, OneMore DEF Past
  <2>7. QED
    BY <2>1, <2>4, <2>5, <2>6, NamesAre DEF Bump, Counters, Numbers
<1>3. ASSUME NEW r \in Requests, CountRequest(r)
      PROVE  Counters' /\ Numbers'
  <2>1. Bump("requests")
    BY <1>3, IncBumps, NamesAre DEF CountRequest
  <2>2. /\ \/ stage[r] = "observed" /\ stage'[r] = "served"
           \/ stage[r] = "observed error" /\ stage'[r] = "counted"
        /\ answer' = answer
        /\ \A p \in Requests \ {r} : stage'[p] = stage[p]
    BY <1>3 DEF CountRequest, GoOn, RequestInv
  <2>3. Past(Observed)' = Past(Observed)
    BY <2>2 DEF Past, Observed
  <2>4. Past(Counted)' = Past(Counted) \cup {r} /\ r \notin Past(Counted)
    BY <2>2 DEF Past, Counted
  <2>5. BadSet' = BadSet
    BY <2>2 DEF BadSet, ServedSet, RequestInv
  <2>6. Cardinality(Past(Counted)') = Cardinality(Past(Counted)) + 1
    BY <2>4, OneMore DEF Past
  <2>7. QED
    BY <2>1, <2>3, <2>5, <2>6, NamesAre DEF Bump, Counters, Numbers
<1>4. ASSUME NEW r \in Requests, CountError(r)
      PROVE  Counters' /\ Numbers'
  <2>1. Bump("errors")
    BY <1>4, IncBumps, NamesAre DEF CountError
  <2>2. /\ stage[r] = "counted" /\ stage'[r] = "served" /\ answer' = answer
        /\ answer[r].kind = "bad"
        /\ \A p \in Requests \ {r} : stage'[p] = stage[p]
    BY <1>4 DEF CountError, GoOn, RequestInv
  <2>3. Past(Observed)' = Past(Observed) /\ Past(Counted)' = Past(Counted)
    BY <2>2 DEF Past, Observed, Counted
  <2>4. BadSet' = BadSet \cup {r} /\ r \notin BadSet /\ BadSet \subseteq Requests
    BY <2>2 DEF BadSet, ServedSet
  <2>5. Cardinality(BadSet') = Cardinality(BadSet) + 1
    BY <2>4, OneMore
  <2>6. QED
    BY <2>1, <2>3, <2>5, NamesAre DEF Bump, Counters, Numbers
<1>5. CASE FlushStep \/ ScrapeBegin \/ ScrapeNext \/ Quiet \/ UNCHANGED vars
  <2>1. stage' = stage /\ answer' = answer
    BY <1>5, OtherStepsKeepRequests DEF requestVars
  <2>2. Past(Observed)' = Past(Observed) /\ Past(Counted)' = Past(Counted) /\ BadSet' = BadSet
    BY <2>1 DEF Past, BadSet, ServedSet
  <2>3. QED
    BY <1>5, <2>2, OtherStepsKeepCounters DEF Counters
<1>6. QED
  BY <1>1, <1>2, <1>3, <1>4, <1>5 DEF Next, RequestStep

-----------------------------------------------------------------------------
(* Flushes and their metrics *)

(* How far the metrics of a flush are, by the place of the writer. *)
FlushInv ==
    LET waits  == metric["batch_wait"][0]
        counts == metric["flushes"][0]
        times  == metric["flush_time"][0]
    IN /\ IsFiniteSet(batch)
       /\ \/ flush = "none" /\ waits = counts /\ counts = times
          \/ flush \in {"waited", "writing"} /\ waits = counts + 1 /\ counts = times
          \/ flush = "counted" /\ waits = counts /\ counts = times + 1

LEMMA RequestsKeepFlush ==
    ASSUME Numbers, NEW r \in Requests, RequestStep(r)
    PROVE  /\ UNCHANGED flushVars
           /\ \A n \in {"batch_wait", "flushes", "flush_time"} : metric'[n] = metric[n]
<1>1. ASSUME NEW d \in RequestTimes, ObserveDuration(r, d)
      PROVE  Bump("processing") /\ UNCHANGED flushVars
  BY <1>1, ObserveBumps, NamesAre, TakesAssumption DEF ObserveDuration, GoOn, ByRequest
<1>2. CASE CountRequest(r)
  <2>1. Bump("requests") /\ UNCHANGED flushVars
    BY <1>2, IncBumps, NamesAre DEF CountRequest, GoOn, ByRequest
  <2>2. QED
    BY <2>1, NamesAre DEF Bump
<1>3. CASE CountError(r)
  <2>1. Bump("errors") /\ UNCHANGED flushVars
    BY <1>3, IncBumps, NamesAre DEF CountError, GoOn, ByRequest
  <2>2. QED
    BY <2>1, NamesAre DEF Bump
<1>4. CASE (\E q \in Traffic : Arrive(r, q)) \/ Read(r)
  BY <1>4 DEF Arrive, Read, GoOn, ByRequest, metricVars
<1>5. QED
  BY <1>1, <1>2, <1>3, <1>4, NamesAre DEF RequestStep, Bump

LEMMA FlushInvNext ==
    ASSUME Numbers, FlushInv, [Next]_vars
    PROVE  FlushInv'
<1>1. ASSUME NEW B \in Batches, NEW d \in FlushTimes, FlushBegin(B, d)
      PROVE  FlushInv'
  <2>1. Bump("batch_wait")
    BY <1>1, ObserveBumps, NamesAre, TakesAssumption DEF FlushBegin
  <2>2. flush = "none" /\ flush' = "waited" /\ IsFiniteSet(batch')
    BY <1>1, BatchesAssumption DEF FlushBegin, FlushTo
  <2>3. QED
    BY <2>1, <2>2, NamesAre DEF Bump, FlushInv
<1>2. CASE FlushSize
  <2>1. Cardinality(batch) \in Nat
    BY FS_CardinalityType DEF FlushInv
  <2>2. \A n \in Names \ {"batch_size"} : metric'[n] = metric[n]
    BY <1>2, <2>1, SetFacts, NamesAre DEF FlushSize
  <2>3. flush = "waited" /\ flush' = "writing" /\ batch' = batch
    BY <1>2 DEF FlushSize, FlushTo
  <2>4. QED
    BY <2>2, <2>3, NamesAre DEF FlushInv
<1>3. ASSUME NEW w \in Writers, NEW i \in Items, FlushItem(w, i)
      PROVE  FlushInv'
  <2>1. IsFiniteSet(batch')
    BY <1>3, FS_RemoveElement DEF FlushItem, FlushInv
  <2>2. QED
    BY <1>3, <2>1 DEF FlushItem, FlushInv, metricVars
<1>4. ASSUME NEW w \in Writers, FlushStatement(w)
      PROVE  FlushInv'
  BY <1>4 DEF FlushStatement, FlushInv, flushVars, metricVars
<1>5. CASE FlushCount
  <2>1. Bump("flushes")
    BY <1>5, IncBumps, NamesAre DEF FlushCount
  <2>2. flush = "writing" /\ flush' = "counted" /\ batch' = batch
    BY <1>5 DEF FlushCount, FlushTo
  <2>3. QED
    BY <2>1, <2>2, NamesAre DEF Bump, FlushInv
<1>6. ASSUME NEW d \in FlushTimes, FlushObserve(d)
      PROVE  FlushInv'
  <2>1. Bump("flush_time")
    BY <1>6, ObserveBumps, NamesAre, TakesAssumption DEF FlushObserve
  <2>2. flush = "counted" /\ flush' = "none" /\ batch' = batch
    BY <1>6 DEF FlushObserve, FlushTo
  <2>3. QED
    BY <2>1, <2>2, NamesAre DEF Bump, FlushInv
<1>7. ASSUME NEW r \in Requests, RequestStep(r)
      PROVE  FlushInv'
  BY <1>7, RequestsKeepFlush DEF FlushInv, flushVars
<1>8. CASE ScrapeBegin \/ ScrapeNext \/ Quiet \/ UNCHANGED vars
  BY <1>8 DEF ScrapeBegin, ScrapeNext, GatherBegin, GatherNext, Quiet, vars, flushVars,
              metricVars, FlushInv
<1>9. QED
  BY <1>1, <1>2, <1>3, <1>4, <1>5, <1>6, <1>7, <1>8 DEF Next, FlushStep

-----------------------------------------------------------------------------
(* Scrapes *)

Timed == {"processing", "flush_time", "batch_wait"}

(* The three kinds of steps: one metric counts one more, the size of a batch *)
(* is set, or the scrape goes on.                                            *)
Grows ==
    \E n \in Names : /\ Bump(n)
                     /\ n \in Timed /\ Cumulative(metric[n]) => Cumulative(metric'[n])

Sets ==
    /\ metric' \in [Names -> [Levels -> Nat]]
    /\ \A n \in Names \ {"batch_size"} : metric'[n] = metric[n]
    /\ UNCHANGED <<page, gathered>>

LEMMA MetricSteps ==
    ASSUME Numbers, IsFiniteSet(batch), [Next]_vars
    PROVE  Grows \/ Sets \/ GatherBegin \/ GatherNext \/ UNCHANGED metricVars
<1>1. ASSUME NEW r \in Requests, NEW d \in RequestTimes, ObserveDuration(r, d)
      PROVE  Grows
  BY <1>1, ObserveBumps, NamesAre, TakesAssumption DEF ObserveDuration, Grows
<1>2. ASSUME NEW r \in Requests, CountRequest(r)
      PROVE  Grows
  BY <1>2, IncBumps, NamesAre DEF CountRequest, Grows, Timed
<1>3. ASSUME NEW r \in Requests, CountError(r)
      PROVE  Grows
  BY <1>3, IncBumps, NamesAre DEF CountError, Grows, Timed
<1>4. ASSUME NEW B \in Batches, NEW d \in FlushTimes, FlushBegin(B, d)
      PROVE  Grows
  BY <1>4, ObserveBumps, NamesAre, TakesAssumption DEF FlushBegin, Grows
<1>5. CASE FlushSize
  <2>1. Cardinality(batch) \in Nat
    BY FS_CardinalityType
  <2>2. Sets
    BY <1>5, <2>1, SetFacts, NamesAre DEF FlushSize, Sets
  <2>3. QED
    BY <2>2
<1>6. CASE FlushCount
  BY <1>6, IncBumps, NamesAre DEF FlushCount, Grows, Timed
<1>7. ASSUME NEW d \in FlushTimes, FlushObserve(d)
      PROVE  Grows
  BY <1>7, ObserveBumps, NamesAre, TakesAssumption DEF FlushObserve, Grows
<1>8. QED
  BY <1>1, <1>2, <1>3, <1>4, <1>5, <1>6, <1>7
     DEF Next, RequestStep, FlushStep, Arrive, Read, FlushItem, FlushStatement, ScrapeBegin,
         ScrapeNext, Quiet, vars

(* Every histogram is cumulative. *)
CumulativeInv == \A n \in Timed : Cumulative(metric[n])

LEMMA CumulativeNext ==
    ASSUME Numbers, IsFiniteSet(batch), CumulativeInv, [Next]_vars
    PROVE  CumulativeInv'
<1>1. ASSUME NEW n \in Timed, NEW m \in Names, Bump(m),
             m \in Timed /\ Cumulative(metric[m]) => Cumulative(metric'[m])
      PROVE  Cumulative(metric'[n])
  <2>1. n \in Names
    BY NamesAre DEF Timed
  <2>2. QED
    BY <1>1, <2>1 DEF Bump, CumulativeInv
<1>2. ASSUME NEW n \in Timed, Sets
      PROVE  Cumulative(metric'[n])
  <2>1. n \in Names \ {"batch_size"}
    BY NamesAre DEF Timed
  <2>2. QED
    BY <1>2, <2>1 DEF Sets, CumulativeInv
<1>3. ASSUME NEW n \in Timed, UNCHANGED metric
      PROVE  Cumulative(metric'[n])
  BY <1>3 DEF CumulativeInv
<1>4. \A n \in Timed : Cumulative(metric'[n])
  BY <1>1, <1>2, <1>3, MetricSteps DEF Grows, GatherBegin, GatherNext, metricVars
<1>5. QED
  BY <1>4 DEF CumulativeInv, Cumulative

(* What the page would show if the scrape ended now. *)
Shown(n) == IF Written(n) THEN page[n] ELSE metric[n]

PageTypes ==
    /\ page \in [Names -> [Levels -> Nat]]
    /\ gathered \in -1 .. 7
    /\ \A n \in Timed : Cumulative(page[n])

LEMMA WrittenIs ==
    ASSUME gathered \in -1 .. 7
    PROVE  /\ Written("flush_time") <=> gathered >= 1
           /\ Written("flushes") <=> gathered >= 2
           /\ Written("batch_wait") <=> gathered >= 4
           /\ Written("processing") <=> gathered >= 5
           /\ Written("errors") <=> gathered >= 6
           /\ Written("requests") <=> gathered >= 7
<1>1. \A i \in 1 .. gathered : i \in 1 .. 7
  OBVIOUS
<1>2. \A i \in 1 .. 7 : i = 1 \/ i = 2 \/ i = 3 \/ i = 4 \/ i = 5 \/ i = 6 \/ i = 7
  OBVIOUS
<1>3. \A i \in 1 .. 7 : i \in 1 .. gathered <=> gathered >= i
  OBVIOUS
<1>4. QED
  BY <1>1, <1>2, <1>3, NamesAre DEF Written

LEMMA PageTypesNext ==
    ASSUME Numbers, IsFiniteSet(batch), CumulativeInv, PageTypes, [Next]_vars
    PROVE  PageTypes'
<1>1. CASE GatherNext
  <2> DEFINE n == GatherOrder[gathered + 1]
  <2>1. gathered \in 0 .. 6 /\ gathered' = gathered + 1
    BY <1>1, NamesAre DEF GatherNext
  <2>2. page' = [m \in Names |-> IF m = n THEN metric[n] ELSE page[m]]
    BY <1>1 DEF GatherNext
  <2>3. n \in Names
    BY <2>1, NamesAre
  <2> HIDE DEF n
  <2>4. page' \in [Names -> [Levels -> Nat]]
    BY <2>2, <2>3 DEF Numbers, PageTypes
  <2>5. ASSUME NEW m \in Timed
        PROVE  Cumulative(page'[m])
    <3>1. m \in Names
      BY NamesAre DEF Timed
    <3>2. page'[m] = metric[m] \/ page'[m] = page[m]
      BY <2>2, <3>1
    <3>3. QED
      BY <3>2 DEF CumulativeInv, PageTypes
  <2>6. QED
    BY <2>1, <2>4, <2>5 DEF PageTypes, Cumulative
<1>2. CASE GatherBegin
  BY <1>2 DEF GatherBegin, PageTypes, Cumulative
<1>3. CASE UNCHANGED <<page, gathered>>
  BY <1>3 DEF PageTypes, Cumulative
<1>4. QED
  BY <1>1, <1>2, <1>3, MetricSteps DEF Grows, Bump, Sets, metricVars

(* What a page shows or will show of a metric never falls; and a step either *)
(* leaves what is written alone or writes what it finds.                     *)
LEMMA ShownSteps ==
    ASSUME Numbers, IsFiniteSet(batch), PageTypes, [Next]_vars
    PROVE  /\ \A n \in Names \ {"batch_size"} : Shown(n)[0] <= Shown(n)'[0]
           /\ \/ \A n \in Names : Shown(n)' = Shown(n)
              \/ \A n \in Names : /\ Written(n)' = Written(n)
                                  /\ Written(n) => Shown(n)' = Shown(n)
                                  /\ ~Written(n) => Shown(n)' = metric'[n]
<1>1. \A n \in Names : Shown(n)[0] \in Nat /\ metric[n][0] \in Nat
  BY LevelsAre DEF Shown, Numbers, PageTypes
<1>2. CASE UNCHANGED <<page, gathered>> /\ \A n \in Names \ {"batch_size"} :
                                              metric[n][0] <= metric'[n][0]
  <2>1. \A n \in Names : Written(n)' = Written(n)
    BY <1>2 DEF Written
  <2>2. \A n \in Names : /\ Written(n) => Shown(n)' = Shown(n)
                         /\ ~Written(n) => Shown(n)' = metric'[n] /\ Shown(n) = metric[n]
    BY <1>2, <2>1 DEF Shown
  <2>3. ASSUME NEW n \in Names \ {"batch_size"}
        PROVE  Shown(n)[0] <= Shown(n)'[0]
    <3>1. CASE Written(n)
      BY <1>1, <2>2, <3>1
    <3>2. CASE ~Written(n)
      BY <1>2, <2>2, <3>2
    <3>3. QED
      BY <3>1, <3>2
  <2>4. QED
    BY <2>1, <2>2, <2>3
<1>3. CASE GatherBegin \/ GatherNext
  <2>1. ASSUME NEW n \in Names
        PROVE  Shown(n)' = Shown(n)
    <3>1. CASE GatherBegin
      <4>1. ~Written(n) /\ ~Written(n)' /\ UNCHANGED metric
        BY <3>1 DEF GatherBegin, Written
      <4>2. QED
        BY <4>1 DEF Shown
    <3>2. CASE GatherNext
      <4> DEFINE next == GatherOrder[gathered + 1]
      <4>1. /\ gathered \in 0 .. 6 /\ gathered' = gathered + 1
            /\ page' = [m \in Names |-> IF m = next THEN metric[next] ELSE page[m]]
            /\ UNCHANGED metric
        BY <3>2, NamesAre DEF GatherNext
      <4>2. 1 .. gathered' = 1 .. gathered \cup {gathered + 1}
        BY <4>1
      <4>3. Written(n)' <=> Written(n) \/ n = next
        BY <4>2 DEF Written
      <4>4. n = next => ~Written(n)
        <5>1. \A i \in 1 .. gathered : GatherOrder[i] /= next
          <6>1. \A i, j \in 1 .. 7 : GatherOrder[i] = GatherOrder[j] => i = j
            <7>1. \A i \in 1 .. 7 : i = 1 \/ i = 2 \/ i = 3 \/ i = 4 \/ i = 5 \/ i = 6 \/ i = 7
              OBVIOUS
            <7>2. QED
              BY <7>1, NamesAre
          <6>2. \A i \in 1 .. gathered : i \in 1 .. 7 /\ i /= gathered + 1
            BY <4>1
          <6>3. gathered + 1 \in 1 .. 7
            BY <4>1
          <6>4. QED
            BY <6>1, <6>2, <6>3
        <5>2. QED
          BY <5>1 DEF Written
      <4>5. page'[n] = IF n = next THEN metric[n] ELSE page[n]
        BY <4>1
      <4> HIDE DEF next
      <4>6. QED
        BY <4>1, <4>3, <4>4, <4>5 DEF Shown
    <3>3. QED
      BY <1>3, <3>1, <3>2
  <2>2. QED
    BY <1>1, <2>1
<1>4. Grows => \A n \in Names : metric[n][0] <= metric'[n][0]
  <2> SUFFICES ASSUME NEW m \in Names, Bump(m), NEW n \in Names
               PROVE  metric[n][0] <= metric'[n][0]
    BY DEF Grows
  <2>1. CASE n = m
    BY <2>1, LevelsAre DEF Bump
  <2>2. CASE n /= m
    BY <1>1, <2>2 DEF Bump
  <2>3. QED
    BY <2>1, <2>2
<1>5. QED
  BY <1>1, <1>2, <1>3, <1>4, MetricSteps DEF Grows, Bump, Sets, metricVars

(* The inequalities of a page, of the metrics themselves ... *)
MetricPairs ==
    /\ metric["errors"][0] <= metric["requests"][0]
    /\ metric["flush_time"][0] <= metric["flushes"][0]
    /\ metric["flushes"][0] <= metric["batch_wait"][0]

(* ... and of what the page shows or will show. *)
ShownPairs ==
    /\ Shown("errors")[0] <= Shown("requests")[0]
    /\ Shown("flush_time")[0] <= Shown("flushes")[0]
    /\ Shown("flushes")[0] <= Shown("batch_wait")[0]

LEMMA PairsOfMetrics ==
    ASSUME Numbers, RequestInv, Counters, FlushInv
    PROVE  MetricPairs
<1>1. BadSet \subseteq Past(Counted) /\ Past(Counted) \subseteq Requests
  BY DEF BadSet, ServedSet, Past, Counted
<1>2. Cardinality(BadSet) <= Cardinality(Past(Counted))
  BY <1>1, RequestsAssumption, FS_Subset
<1>3. metric["flush_time"][0] \in Nat /\ metric["flushes"][0] \in Nat
      /\ metric["batch_wait"][0] \in Nat
  BY NamesAre, LevelsAre DEF Numbers
<1>4. QED
  BY <1>2, <1>3 DEF Counters, FlushInv, MetricPairs

(* The line that may be the smaller one is written first. *)
LEMMA PairStays ==
    ASSUME Numbers, Numbers', IsFiniteSet(batch), PageTypes, PageTypes', [Next]_vars,
           NEW a \in Names \ {"batch_size"}, NEW b \in Names \ {"batch_size"},
           Written(b) => Written(a),
           metric'[a][0] <= metric'[b][0],
           Shown(a)[0] <= Shown(b)[0]
    PROVE  Shown(a)'[0] <= Shown(b)'[0]
<1>1. /\ Shown(a)[0] \in Nat /\ Shown(b)[0] \in Nat
      /\ Shown(a)'[0] \in Nat /\ Shown(b)'[0] \in Nat
  BY LevelsAre DEF Shown, Numbers, PageTypes
<1>2. Shown(b)[0] <= Shown(b)'[0]
  BY ShownSteps
<1>3. CASE Shown(a)' = Shown(a)
  BY <1>1, <1>2, <1>3
<1>4. CASE ~Written(a) /\ Shown(a)' = metric'[a] /\ Shown(b)' = metric'[b]
  BY <1>4
<1>5. QED
  BY <1>3, <1>4, ShownSteps

LEMMA PairsNext ==
    ASSUME Numbers, Numbers', IsFiniteSet(batch), PageTypes, PageTypes', MetricPairs',
           ShownPairs, [Next]_vars
    PROVE  ShownPairs'
<1>1. /\ Written("requests") => Written("errors")
      /\ Written("flushes") => Written("flush_time")
      /\ Written("batch_wait") => Written("flushes")
  BY WrittenIs DEF PageTypes
<1>2. {"errors", "requests", "flush_time", "flushes", "batch_wait"}
         \subseteq Names \ {"batch_size"}
  BY NamesAre
<1>3. Shown("errors")'[0] <= Shown("requests")'[0]
  BY <1>1, <1>2, PairStays DEF MetricPairs, ShownPairs
<1>4. Shown("flush_time")'[0] <= Shown("flushes")'[0]
  BY <1>1, <1>2, PairStays DEF MetricPairs, ShownPairs
<1>5. Shown("flushes")'[0] <= Shown("batch_wait")'[0]
  BY <1>1, <1>2, PairStays DEF MetricPairs, ShownPairs
<1>6. QED
  BY <1>3, <1>4, <1>5 DEF ShownPairs

(* What was served when the scrape began is or will be on the page. *)
ShownServed ==
    /\ Cardinality(servedThen.all) \in Nat /\ Cardinality(servedThen.bad) \in Nat
    /\ gathered >= 0 =>
          /\ Cardinality(servedThen.all) <= Shown("requests")[0]
          /\ Cardinality(servedThen.all) <= Shown("processing")[0]
          /\ Cardinality(servedThen.bad) <= Shown("errors")[0]

LEMMA ServedNext ==
    ASSUME Numbers, Numbers', IsFiniteSet(batch), Counters, PageTypes, PageTypes', ShownServed,
           [Next]_vars
    PROVE  ShownServed'
<1>1. {"requests", "processing", "errors"} \subseteq Names \ {"batch_size"}
  BY NamesAre
<1>2. \A n \in {"requests", "processing", "errors"} :
         Shown(n)[0] \in Nat /\ Shown(n)'[0] \in Nat /\ Shown(n)[0] <= Shown(n)'[0]
  BY <1>1, LevelsAre, ShownSteps DEF Shown, Numbers, PageTypes
<1>3. CASE ScrapeBegin
  <2>1. /\ servedThen'.all = ServedSet /\ servedThen'.bad = BadSet /\ gathered = -1
    BY <1>3 DEF ScrapeBegin, GatherBegin
  <2>2. \A n \in {"requests", "processing", "errors"} : Shown(n) = metric[n]
    BY <2>1, <1>1 DEF Shown, Written
  <2>3. /\ ServedSet \subseteq Past(Counted) /\ ServedSet \subseteq Past(Observed)
        /\ Past(Counted) \subseteq Requests /\ Past(Observed) \subseteq Requests
        /\ BadSet \subseteq Requests /\ ServedSet \subseteq Requests
    BY DEF ServedSet, BadSet, Past, Counted, Observed
  <2>4. IsFiniteSet(Past(Counted)) /\ IsFiniteSet(Past(Observed)) /\ IsFiniteSet(BadSet)
        /\ IsFiniteSet(ServedSet)
    BY <2>3, RequestsAssumption, FS_Subset
  <2>5. /\ Cardinality(ServedSet) <= Cardinality(Past(Counted))
        /\ Cardinality(ServedSet) <= Cardinality(Past(Observed))
        /\ Cardinality(ServedSet) \in Nat /\ Cardinality(BadSet) \in Nat
    BY <2>3, <2>4, FS_Subset, FS_CardinalityType
  <2>6. /\ Cardinality(ServedSet) <= Shown("requests")[0]
        /\ Cardinality(ServedSet) <= Shown("processing")[0]
        /\ Cardinality(BadSet) <= Shown("errors")[0]
    BY <1>2, <2>2, <2>5 DEF Counters
  <2>7. /\ Cardinality(ServedSet) <= Shown("requests")'[0]
        /\ Cardinality(ServedSet) <= Shown("processing")'[0]
        /\ Cardinality(BadSet) <= Shown("errors")'[0]
    BY <1>2, <2>5, <2>6
  <2>8. QED
    BY <2>1, <2>5, <2>7 DEF ShownServed
<1>4. CASE ~ScrapeBegin
  <2>1. servedThen' = servedThen
    BY <1>4 DEF Next, RequestStep, FlushStep, Arrive, Read, ObserveDuration, CountRequest,
                CountError, GoOn, ByRequest, FlushBegin, FlushSize, FlushItem, FlushStatement,
                FlushCount, FlushObserve, FlushTo, ScrapeNext, Quiet, vars
  <2>2. gathered' >= 0 => gathered >= 0
    <3>1. \A n, d : Inc(n) \/ Observe(n, d) \/ Set(n, d) => gathered' = gathered
      BY DEF Inc, Observe, Set, Update
    <3>2. ASSUME NEW r \in Requests, RequestStep(r)
          PROVE  gathered' = gathered
      BY <3>1, <3>2 DEF RequestStep, Arrive, Read, ObserveDuration, CountRequest, CountError,
                        metricVars
    <3>3. FlushStep => gathered' = gathered
      BY <3>1 DEF FlushStep, FlushBegin, FlushSize, FlushItem, FlushStatement, FlushCount,
                  FlushObserve, metricVars
    <3>4. ScrapeNext => gathered >= 0
      BY DEF ScrapeNext, GatherNext
    <3>5. Quiet \/ UNCHANGED vars => gathered' = gathered
      BY DEF Quiet, vars, metricVars
    <3>6. QED
      BY <1>4, <3>2, <3>3, <3>4, <3>5 DEF Next
  <2>3. QED
    BY <1>2, <2>1, <2>2 DEF ShownServed
<1>5. QED
  BY <1>3, <1>4

-----------------------------------------------------------------------------
(* The inductive invariant of requests, flushes and scrapes *)

ServInv ==
    /\ Numbers
    /\ RequestInv
    /\ Counters
    /\ FlushInv
    /\ CumulativeInv
    /\ PageTypes
    /\ ShownPairs
    /\ ShownServed

LEMMA ServInvInit == Init => ServInv
<1> SUFFICES ASSUME Init
             PROVE  ServInv
  OBVIOUS
<1>1. /\ \A n \in Names : metric[n] = Zero /\ page[n] = Zero
      /\ Zero \in [Levels -> Nat] /\ Zero[0] = 0 /\ gathered = -1
      /\ metric = [n \in Names |-> Zero] /\ page = [n \in Names |-> Zero]
  BY LevelsAre DEF Init, MetricsInit, Zero
<1>2. Cumulative(Zero)
  BY LevelsAre DEF Cumulative, Zero
<1>3. Numbers /\ PageTypes /\ CumulativeInv
  BY <1>1, <1>2, NamesAre DEF Numbers, PageTypes, CumulativeInv, Timed
<1>4. RequestInv
  BY DEF Init, RequestInv, Stages
<1>5. Past(Observed) = {} /\ Past(Counted) = {} /\ BadSet = {}
  BY DEF Init, Past, Observed, Counted, BadSet, ServedSet
<1>6. Counters
  BY <1>1, <1>5, NamesAre, FS_EmptySet DEF Counters
<1>7. FlushInv
  BY <1>1, NamesAre, FS_EmptySet DEF Init, FlushInv
<1>8. \A n \in Names : Shown(n) = Zero
  BY <1>1 DEF Shown
<1>9. ShownPairs
  BY <1>1, <1>8, NamesAre DEF ShownPairs
<1>10. ShownServed
  <2>1. servedThen.all = {} /\ servedThen.bad = {}
    BY DEF Init
  <2>2. QED
    BY <1>1, <2>1, FS_EmptySet DEF ShownServed
<1>11. QED
  BY <1>3, <1>4, <1>6, <1>7, <1>9, <1>10 DEF ServInv

LEMMA ServInvNext ==
    ASSUME ServInv, [Next]_vars
    PROVE  ServInv'
<1>1. IsFiniteSet(batch)
  BY DEF ServInv, FlushInv
<1>2. RequestInv' /\ Counters' /\ Numbers' /\ FlushInv'
  BY <1>1, RequestInvNext, CountersNext, FlushInvNext DEF ServInv
<1>3. CumulativeInv' /\ PageTypes'
  BY <1>1, CumulativeNext, PageTypesNext DEF ServInv
<1>4. MetricPairs'
  <2>1. (Numbers /\ RequestInv /\ Counters /\ FlushInv => MetricPairs)'
    BY PairsOfMetrics, PTL
  <2>2. QED
    BY <1>2, <2>1
<1>5. ShownPairs' /\ ShownServed'
  BY <1>1, <1>2, <1>3, <1>4, PairsNext, ServedNext DEF ServInv
<1>6. QED
  BY <1>2, <1>3, <1>5 DEF ServInv

LEMMA ServInvAlways == Spec => []ServInv
BY ServInvInit, ServInvNext, PTL DEF Spec

(* At every moment the counters are the numbers of requests, and of requests *)
(* that failed, that have passed the middleware.                             *)
THEOREM RequestsCountedOnce == Spec => []CountedOnce
<1>1. ServInv => CountedOnce
  BY CountersAre DEF ServInv
<1>2. QED
  BY <1>1, ServInvAlways, PTL

LEMMA CompleteShows ==
    ASSUME PageTypes, PageComplete
    PROVE  \A n \in Names : Shown(n) = page[n]
<1>1. gathered = 7
  BY NamesAre DEF PageComplete
<1>2. Written("batch_size")
  <2>1. 3 \in 1 .. gathered
    BY <1>1
  <2>2. QED
    BY <2>1, NamesAre DEF Written
<1>3. \A n \in Names : Written(n)
  BY <1>1, <1>2, NamesAre, WrittenIs DEF PageTypes
<1>4. QED
  BY <1>3 DEF Shown

(* A page adds up, for any number of requests, flushes and buckets. *)
THEOREM EveryPageAddsUp == Spec => []PageAddsUp
<1>1. ASSUME ServInv, PageComplete
      PROVE  AddsUp(page)
  <2>1. \A n \in Names : Shown(n) = page[n]
    BY <1>1, CompleteShows DEF ServInv
  <2>2. /\ page["errors"][0] <= page["requests"][0]
        /\ page["flush_time"][0] <= page["flushes"][0]
        /\ page["flushes"][0] <= page["batch_wait"][0]
    BY <1>1, <2>1, NamesAre DEF ServInv, ShownPairs
  <2>3. \A n \in Timed : Cumulative(page[n])
    BY <1>1 DEF ServInv, PageTypes
  <2>4. QED
    BY <2>2, <2>3 DEF AddsUp, Cumulative, Timed
<1>2. ServInv => PageAddsUp
  BY <1>1 DEF PageAddsUp
<1>3. QED
  BY <1>2, ServInvAlways, PTL

(* A page shows every request, and every error, whose client had its answer  *)
(* when the scrape began.                                                    *)
THEOREM EveryPageShowsServed == Spec => []PageShowsServed
<1>1. ASSUME ServInv, PageComplete
      PROVE  /\ Cardinality(servedThen.all) <= page["requests"][0]
             /\ Cardinality(servedThen.all) <= page["processing"][0]
             /\ Cardinality(servedThen.bad) <= page["errors"][0]
  <2>1. \A n \in Names : Shown(n) = page[n]
    BY <1>1, CompleteShows DEF ServInv
  <2>2. gathered >= 0
    BY <1>1, NamesAre DEF PageComplete
  <2>3. QED
    BY <1>1, <2>1, <2>2, NamesAre DEF ServInv, ShownServed
<1>2. ServInv => PageShowsServed
  BY <1>1 DEF PageShowsServed
<1>3. QED
  BY <1>2, ServInvAlways, PTL

-----------------------------------------------------------------------------
(* Requests, flushes and scrapes do to the table what PacketStore allows, so *)
(* all that is proved of its specification holds of the service.             *)
THEOREM ServingUsesTable == Spec => StoreSpec
<1>1. Init => StoreInit
  BY DEF Init
<1>2. [Next]_vars => [StoreNext]_storeVars
  <2>1. ASSUME NEW r \in Requests, RequestStep(r)
        PROVE  UNCHANGED storeVars
    BY <2>1 DEF RequestStep, Arrive, Read, ObserveDuration, CountRequest, CountError,
                GoOn, ByRequest
  <2>2. ASSUME FlushStep
        PROVE  StoreNext \/ UNCHANGED storeVars
    <3>1. ASSUME NEW w \in Writers, NEW i \in Items, FlushItem(w, i)
          PROVE  StoreNext
      BY <3>1 DEF FlushItem, StoreNext
    <3>2. ASSUME NEW w \in Writers, FlushStatement(w)
          PROVE  StoreNext
      BY <3>2 DEF FlushStatement, StoreNext
    <3>3. ASSUME NEW B \in Batches, NEW d \in FlushTimes, FlushBegin(B, d)
          PROVE  UNCHANGED storeVars
      BY <3>3 DEF FlushBegin
    <3>4. FlushSize \/ FlushCount \/ (\E d \in FlushTimes : FlushObserve(d))
            => UNCHANGED storeVars
      BY DEF FlushSize, FlushCount, FlushObserve
    <3>5. QED
      BY <2>2, <3>1, <3>2, <3>3, <3>4 DEF FlushStep
  <2>3. ScrapeBegin \/ ScrapeNext \/ Quiet \/ UNCHANGED vars => UNCHANGED storeVars
    BY DEF ScrapeBegin, ScrapeNext, Quiet, vars
  <2>4. QED
    BY <2>1, <2>2, <2>3 DEF Next
<1>3. QED
  BY <1>1, <1>2, PTL DEF Spec, StoreSpec

-----------------------------------------------------------------------------
(* The table of one process: every write is an insertion of a new key, so   *)
(* what has been stored stays as it was reported.                           *)
TableInv ==
    /\ started \subseteq Items
    /\ table \subseteq started
    /\ stored \subseteq table
    /\ item \in [Writers -> Items \cup {NoItem}]
    /\ at \in [Writers -> {"idle", "insert"}]
    /\ \A w \in Writers : at[w] = "insert" => item[w] \in started \ table
    /\ purges = 0

LEMMA TableInvNext ==
    ASSUME TableInv, [Next]_vars
    PROVE  TableInv' /\ started \subseteq started' /\ stored \subseteq stored'
<1>1. ASSUME NEW w \in Writers, NEW i \in Items, FlushItem(w, i)
      PROVE  TableInv' /\ started \subseteq started' /\ stored \subseteq stored'
  BY <1>1 DEF FlushItem, BeginWrite, TableInv
<1>2. ASSUME NEW w \in Writers, FlushStatement(w)
      PROVE  TableInv' /\ started \subseteq started' /\ stored \subseteq stored'
  <2>1. at[w] = "insert"
    BY <1>2 DEF FlushStatement, Insert, UpdatePair, UpdatePacket, StatementFails, TableInv
  <2>2. item[w] \in started /\ item[w] \notin table
    BY <2>1 DEF TableInv
  <2>3. OfKey(item[w]) = {}
    BY <2>2, OneProcessAssumption DEF OfKey, SameKey, TableInv
  <2>4. /\ at' = [at EXCEPT ![w] = "idle"]
        /\ UNCHANGED <<item, started, purges>>
        /\ \/ table' = table \cup {item[w]} /\ stored' = stored \cup {item[w]}
           \/ table' = table \cup {item[w]} /\ stored' = stored
           \/ table' = table /\ stored' = stored
    BY <1>2, <2>1, <2>3 DEF FlushStatement, Insert, UpdatePair, UpdatePacket, StatementFails,
                            Succeed, GiveUp, GoTo
  <2>5. \A u \in Writers : u = w
    BY OneProcessAssumption
  <2>6. at' \in [Writers -> {"idle", "insert"}] /\ at'[w] = "idle"
    BY <2>4 DEF TableInv
  <2>7. QED
    BY <2>2, <2>4, <2>5, <2>6 DEF TableInv
<1>3. ASSUME UNCHANGED storeVars
      PROVE  TableInv' /\ started \subseteq started' /\ stored \subseteq stored'
  BY <1>3 DEF storeVars, TableInv
<1>4. QED
  BY <1>1, <1>2, <1>3
     DEF Next, RequestStep, FlushStep, Arrive, Read, ObserveDuration, CountRequest, CountError,
         GoOn, ByRequest, FlushBegin, FlushSize, FlushCount, FlushObserve, ScrapeBegin,
         ScrapeNext, Quiet, vars

(* What a request remembers as stored is stored. *)
Remembered == \A r \in Requests : storedThen[r] \subseteq stored

LEMMA RememberedNext ==
    ASSUME RequestInv, TableInv, Remembered, [Next]_vars
    PROVE  Remembered'
<1>1. stored \subseteq stored'
  BY TableInvNext
<1>2. ASSUME NEW r \in Requests, NEW q \in Traffic, Arrive(r, q)
      PROVE  Remembered'
  BY <1>1, <1>2 DEF Arrive, RequestInv, Remembered
<1>3. ASSUME NEW r \in Requests, NEW d \in RequestTimes, ObserveDuration(r, d)
      PROVE  Remembered'
  BY <1>1, <1>3 DEF ObserveDuration, RequestInv, Remembered
<1>4. CASE UNCHANGED storedThen
  BY <1>1, <1>4 DEF Remembered
<1>5. QED
  BY <1>2, <1>3, <1>4, OtherStepsKeepRequests
     DEF Next, RequestStep, Read, CountRequest, CountError, requestVars

(* The statement returns what matched when the request arrived, and only     *)
(* rows that match.                                                          *)
LEMMA SelectIsCurrent ==
    ASSUME TableInv, NEW q, Asks(q), NEW rows \in Select(q), NEW S \in SUBSET stored
    PROVE  /\ rows \subseteq {i \in started : Matches(q, i)}
           /\ {i \in S : Matches(q, i)} \subseteq rows
<1>1. CASE q.ask = "id"
  <2>1. \A i : Matches(q, i) <=> i.packet = q.id
    BY <1>1 DEF Matches
  <2>2. \A i \in ByID(q.id) : i \in table /\ i.packet = q.id
    BY DEF ByID, OfPacket
  <2>3. CASE ByID(q.id) = {}
    <3>1. rows = {}
      BY <1>1, <2>3 DEF Select
    <3>2. \A i \in table : i.packet /= q.id
      BY <2>3 DEF ByID, OfPacket
    <3>3. QED
      BY <2>1, <3>1, <3>2 DEF TableInv
  <2>4. CASE ByID(q.id) /= {}
    <3>1. PICK i \in ByID(q.id) : rows = {i}
      BY <1>1, <2>4 DEF Select
    <3>2. \A j \in table : j.packet = q.id => j = i
      BY <2>2, <3>1, OneProcessAssumption DEF TableInv
    <3>3. QED
      BY <2>1, <2>2, <3>1, <3>2 DEF TableInv
  <2>5. QED
    BY <2>3, <2>4
<1>2. CASE q.ask /= "id"
  <2>1. rows = InRange(q.from, q.to)
    BY <1>2 DEF Select
  <2>2. QED
    BY <1>2, <2>1 DEF InRange, Matches, TableInv
<1>3. QED
  BY <1>1, <1>2

(* The answer to one request is current. *)
Current(r) ==
    LET q == Question(request[r])
        a == answer[r]
    IN Asks(q) /\ a.kind /= "failed" =>
         /\ a.rows \subseteq {i \in started : Matches(q, i)}
         /\ {i \in storedThen[r] : Matches(q, i)} \subseteq a.rows
         /\ a.kind = "missing" <=> a.rows = {}

LEMMA CurrentIs == AnswersAreCurrent <=> \A r \in Requests : stage[r] = "answered" => Current(r)
BY DEF AnswersAreCurrent, Current

LEMMA CurrentNext ==
    ASSUME RequestInv, RequestInv', TableInv, Remembered, AnswersAreCurrent, [Next]_vars
    PROVE  AnswersAreCurrent'
<1>1. started \subseteq started'
  BY TableInvNext
<1>2. ASSUME NEW r \in Requests, stage[r] = "answered",
             request'[r] = request[r], answer'[r] = answer[r], storedThen'[r] = storedThen[r]
      PROVE  Current(r)'
  <2>1. Current(r)
    BY <1>2, CurrentIs
  <2>2. QED
    BY <1>1, <1>2, <2>1 DEF Current
<1>3. ASSUME NEW r \in Requests, NEW q \in Traffic, Arrive(r, q),
             NEW p \in Requests, stage'[p] = "answered"
      PROVE  Current(p)'
  <2>1. CASE p = r
    <3>1. ~Asks(Question(q)) /\ request'[r] = q
      BY <1>3, <2>1 DEF Arrive, GoOn, RequestInv
    <3>2. QED
      BY <2>1, <3>1 DEF Current
  <2>2. CASE p /= r
    <3>1. /\ stage[p] = "answered" /\ request'[p] = request[p]
          /\ answer'[p] = answer[p] /\ storedThen'[p] = storedThen[p]
      BY <1>3, <2>2 DEF Arrive, GoOn, Answer, RequestInv
    <3>2. QED
      BY <1>2, <3>1
  <2>3. QED
    BY <2>1, <2>2
<1>4. ASSUME NEW r \in Requests, Read(r), NEW p \in Requests, stage'[p] = "answered"
      PROVE  Current(p)'
  <2>1. /\ UNCHANGED <<request, storedThen, started>>
        /\ stage[r] = "asking" /\ stage' = [stage EXCEPT ![r] = "answered"]
    BY <1>4 DEF Read, GoOn, ByRequest, storeVars
  <2>2. CASE p = r
    <3>1. ASSUME NEW rows \in Select(Question(request[r])),
                 Answer(r, [kind |-> IF rows = {} THEN "missing" ELSE "found",
                            rows |-> rows])
          PROVE  Current(r)'
      <4> DEFINE a == [kind |-> IF rows = {} THEN "missing" ELSE "found", rows |-> rows]
                 q == Question(request[r])
      <4>1. a.rows = rows /\ (a.kind = "missing" <=> rows = {})
        OBVIOUS
      <4>2. answer' = [answer EXCEPT ![r] = a]
        BY <3>1 DEF Answer
      <4> HIDE DEF a
      <4>3. answer'[r] = a
        BY <4>2 DEF RequestInv
      <4>4. storedThen[r] \in SUBSET stored /\ Asks(q)
        BY <2>1 DEF Remembered, RequestInv
      <4>5. /\ rows \subseteq {i \in started : Matches(q, i)}
            /\ {i \in storedThen[r] : Matches(q, i)} \subseteq rows
        <5> HIDE DEF q
        <5>1. rows \in Select(q)
          BY <3>1 DEF q
        <5>2. QED
          BY <4>4, <5>1, SelectIsCurrent
      <4>6. QED
        BY <2>1, <4>1, <4>3, <4>5 DEF Current
    <3>2. ASSUME Answer(r, Without("failed"))
          PROVE  Current(r)'
      <4>1. Without("failed").kind = "failed"
        BY DEF Without
      <4>2. answer'[r] = Without("failed")
        BY <3>2 DEF Answer, RequestInv
      <4>3. QED
        BY <4>1, <4>2 DEF Current
    <3>3. QED
      BY <1>4, <2>2, <3>1, <3>2 DEF Read
  <2>3. CASE p /= r
    <3>1. stage[p] = "answered" /\ answer'[p] = answer[p]
      BY <1>4, <2>1, <2>3 DEF Read, Answer, RequestInv
    <3>2. QED
      BY <1>2, <2>1, <3>1
  <2>4. QED
    BY <2>2, <2>3
<1>5. ASSUME NEW r \in Requests, NEW p \in Requests, stage'[p] = "answered",
             (\E d \in RequestTimes : ObserveDuration(r, d)) \/ CountRequest(r) \/ CountError(r)
      PROVE  Current(p)'
  <2>1. /\ p /= r
        /\ stage[p] = "answered" /\ request'[p] = request[p]
        /\ answer'[p] = answer[p] /\ storedThen'[p] = storedThen[p]
    BY <1>5 DEF ObserveDuration, CountRequest, CountError, GoOn, Answer, RequestInv
  <2>2. QED
    BY <1>2, <2>1
<1>6. ASSUME UNCHANGED requestVars, NEW p \in Requests, stage'[p] = "answered"
      PROVE  Current(p)'
  BY <1>2, <1>6 DEF requestVars
<1>7. \A p \in Requests : stage'[p] = "answered" => Current(p)'
  BY <1>3, <1>4, <1>5, <1>6, OtherStepsKeepRequests DEF Next, RequestStep
<1>8. QED
  BY <1>7 DEF AnswersAreCurrent, Current

(* An answer is about what was asked and is no older than its request. *)
THEOREM AnswersStayCurrent == Spec => []AnswersAreCurrent
<1>1. Init => TableInv /\ Remembered /\ AnswersAreCurrent
  BY DEF Init, StoreInit, TableInv, Remembered, AnswersAreCurrent
<1>2. ServInv => RequestInv
  BY DEF ServInv
<1>3. TableInv /\ [Next]_vars => TableInv'
  BY TableInvNext
<1>4. QED
  BY <1>1, <1>2, <1>3, RememberedNext, CurrentNext, ServInvAlways, PTL DEF Spec

-----------------------------------------------------------------------------
(* What the type invariant adds *)
RequestTypes == request \in [Requests -> Traffic \cup {NoRequest}]
BatchTypes   == batch \in SUBSET (Items \ started)

LEMMA TypesNext ==
    ASSUME TableInv, RequestTypes, BatchTypes, [Next]_vars
    PROVE  RequestTypes' /\ BatchTypes'
<1>1. ASSUME NEW r \in Requests, RequestStep(r)
      PROVE  RequestTypes' /\ BatchTypes'
  BY <1>1 DEF RequestStep, Arrive, Read, ObserveDuration, CountRequest, CountError, GoOn,
              ByRequest, storeVars, flushVars, RequestTypes, BatchTypes
<1>2. ASSUME NEW B \in Batches, NEW d \in FlushTimes, FlushBegin(B, d)
      PROVE  BatchTypes'
  BY <1>2, BatchesAssumption DEF FlushBegin, BatchTypes, storeVars
<1>3. ASSUME NEW w \in Writers, NEW i \in Items, FlushItem(w, i)
      PROVE  BatchTypes'
  BY <1>3 DEF FlushItem, BeginWrite, BatchTypes
<1>4. ASSUME NEW w \in Writers, FlushStatement(w)
      PROVE  BatchTypes'
  BY <1>4 DEF FlushStatement, Insert, UpdatePair, UpdatePacket, StatementFails, Succeed, GiveUp,
              GoTo, flushVars, BatchTypes
<1>5. ASSUME FlushSize \/ FlushCount \/ \E d \in FlushTimes : FlushObserve(d)
      PROVE  BatchTypes'
  BY <1>5 DEF FlushSize, FlushCount, FlushObserve, storeVars, BatchTypes
<1>6. CASE ScrapeBegin \/ ScrapeNext \/ Quiet \/ UNCHANGED vars
  BY <1>6 DEF ScrapeBegin, ScrapeNext, Quiet, vars, storeVars, flushVars, requestVars,
              RequestTypes, BatchTypes
<1>7. FlushStep => RequestTypes'
  BY OtherStepsKeepRequests DEF requestVars, RequestTypes
<1>8. QED
  BY <1>1, <1>2, <1>3, <1>4, <1>5, <1>6, <1>7 DEF Next, FlushStep

(* Types; and in one process no write meets the key of another. *)
THEOREM ServingTypeCorrect == Spec => []ServingTypeOK
<1>1. Init => TableInv /\ Remembered /\ RequestTypes /\ BatchTypes
  BY DEF Init, StoreInit, TableInv, Remembered, RequestTypes, BatchTypes
<1>2. ServInv => RequestInv
  BY DEF ServInv
<1>3. TableInv /\ [Next]_vars => TableInv'
  BY TableInvNext
<1>4. ASSUME ServInv, TableInv, Remembered, RequestTypes, BatchTypes
      PROVE  ServingTypeOK
  <2>1. StoreTypeOK
    BY <1>4, ItemsAssumption, OneProcessAssumption
       DEF TableInv, StoreTypeOK, SameKey
  <2>2. MetricsTypeOK
    BY <1>4, NamesAre DEF ServInv, Numbers, PageTypes, MetricsTypeOK
  <2>3. flush \in {"none", "waited", "writing", "counted"} /\ stage \in [Requests -> Stages]
    BY <1>4 DEF ServInv, FlushInv, RequestInv
  <2>4. QED
    BY <1>4, <2>1, <2>2, <2>3 DEF ServingTypeOK, Remembered, RequestTypes, BatchTypes
<1>5. QED
  BY <1>1, <1>2, <1>3, <1>4, RememberedNext, TypesNext, ServInvAlways, PTL DEF Spec
-----------------------------------------------------------------------------
(* What the requests ask.  The checks of the handlers are the contract of  *)
(* openapi.yaml, and both APIs ask the service the same, for every set of  *)
(* packets and instants.                                                   *)

(* The contract: GET /max with exactly one of packet_id, or both from and to *)
(* in order.                                                                 *)
ForPacket(u, p) ==
    /\ u.path = "max" /\ u.get
    /\ u.id = Good(p)
    /\ u.from = Absent /\ u.to = Absent

ForInterval(u, f, t) ==
    /\ u.path = "max" /\ u.get
    /\ u.id = Absent
    /\ u.from = Good(f) /\ u.to = Good(t)
    /\ f <= t

LEMMA ParamForms ==
    ASSUME NEW S, NEW p \in Params(S)
    PROVE  /\ Parses(p) => p.is \in S /\ p = Good(p.is)
           /\ Parses(p) <=> Given(p) /\ p /= Malformed
           /\ ~Given(p) <=> p = Absent
BY DEF Params, Parses, Given, Good, Absent, Malformed

LEMMA GoodForms ==
    ASSUME NEW v
    PROVE  /\ Parses(Good(v)) /\ Given(Good(v)) /\ Good(v).is = v
           /\ ~Parses(Absent) /\ ~Given(Absent)
BY DEF Parses, Given, Good, Absent

(* The service is asked for a packet, or for an interval, exactly when the   *)
(* contract says so, and for nothing else.                                   *)
THEOREM HttpUnderstands ==
    \A u \in Urls :
        /\ \A p \in Packets : HttpQuestion(u) = ById(p) <=> ForPacket(u, p)
        /\ \A f, t \in Times : HttpQuestion(u) = InTime(f, t) <=> ForInterval(u, f, t)
        /\ Asks(HttpQuestion(u)) => \/ \E p \in Packets : ForPacket(u, p)
                                    \/ \E f, t \in Times : ForInterval(u, f, t)
<1> SUFFICES ASSUME NEW u \in Urls
             PROVE  /\ \A p \in Packets : HttpQuestion(u) = ById(p) <=> ForPacket(u, p)
                    /\ \A f, t \in Times :
                           HttpQuestion(u) = InTime(f, t) <=> ForInterval(u, f, t)
                    /\ Asks(HttpQuestion(u)) =>
                           \/ \E p \in Packets : ForPacket(u, p)
                           \/ \E f, t \in Times : ForInterval(u, f, t)
  OBVIOUS
<1>1. /\ u.path \in {"max", "health", "other"} /\ u.get \in BOOLEAN
      /\ u.id \in Params(Packets) /\ u.from \in Params(Times) /\ u.to \in Params(Times)
  BY DEF Urls
<1>2. \A p, f, t, why : /\ ById(p) /= InTime(f, t) /\ Asks(ById(p)) /\ Asks(InTime(f, t))
                        /\ ById(p) /= Refused(why) /\ InTime(f, t) /= Refused(why)
                        /\ ~Asks(Refused(why))
  BY DEF ById, InTime, Refused, Asks
<1>3. CASE ~(u.path = "max" /\ u.get)
  <2>1. \E why : HttpQuestion(u) = Refused(why)
    BY <1>1, <1>3 DEF HttpQuestion
  <2>2. QED
    BY <1>2, <1>3, <2>1 DEF ForPacket, ForInterval
<1>4. CASE u.path = "max" /\ u.get
  <2>1. HttpQuestion(u) = HandleGetMax(u)
    BY <1>4 DEF HttpQuestion
  <2>2. CASE Given(u.id) /\ u.from = Absent /\ u.to = Absent
    <3>1. HandleGetMax(u) = HandleMaxByID(u)
      BY <2>2, GoodForms DEF HandleGetMax
    <3>2. CASE Parses(u.id)
      <4>1. HandleMaxByID(u) = ById(u.id.is) /\ u.id = Good(u.id.is) /\ u.id.is \in Packets
        BY <1>1, <3>2, ParamForms DEF HandleMaxByID
      <4>2. \A p : ById(u.id.is) = ById(p) <=> u.id.is = p
        BY DEF ById
      <4>3. \A p : u.id = Good(p) <=> u.id.is = p
        BY <4>1, GoodForms
      <4>4. u.id /= Absent
        BY <4>1, GoodForms
      <4>5. ForPacket(u, u.id.is)
        BY <1>4, <2>2, <4>1 DEF ForPacket
      <4>6. QED
        BY <1>2, <1>4, <2>1, <2>2, <3>1, <4>1, <4>2, <4>3, <4>4, <4>5 DEF ForPacket, ForInterval
    <3>3. CASE ~Parses(u.id)
      <4>1. HandleMaxByID(u) = Refused("invalid")
        BY <3>3 DEF HandleMaxByID
      <4>2. QED
        BY <1>2, <2>1, <2>2, <3>1, <3>3, <4>1, GoodForms DEF ForPacket, ForInterval
    <3>4. QED
      BY <3>2, <3>3
  <2>3. CASE u.id = Absent /\ (Given(u.from) \/ Given(u.to))
    <3>1. HandleGetMax(u) = HandleMaxByRange(u)
      BY <2>3, GoodForms DEF HandleGetMax
    <3>2. CASE Parses(u.from) /\ Parses(u.to) /\ u.from.is <= u.to.is
      <4>1. /\ HandleMaxByRange(u) = InTime(u.from.is, u.to.is)
            /\ u.from = Good(u.from.is) /\ u.to = Good(u.to.is)
            /\ u.from.is \in Times /\ u.to.is \in Times
        BY <1>1, <3>2, ParamForms DEF HandleMaxByRange
      <4>2. \A f, t : InTime(u.from.is, u.to.is) = InTime(f, t)
                        <=> u.from.is = f /\ u.to.is = t
        BY DEF InTime
      <4>3. \A f, t : u.from = Good(f) /\ u.to = Good(t) <=> u.from.is = f /\ u.to.is = t
        BY <4>1, GoodForms
      <4>4. ForInterval(u, u.from.is, u.to.is)
        BY <1>4, <2>3, <3>2, <4>1 DEF ForInterval
      <4>5. \A f, t : ForInterval(u, f, t) => u.from.is = f /\ u.to.is = t
        BY <4>3 DEF ForInterval
      <4>6. \A p : ~ForPacket(u, p)
        BY <2>3, GoodForms DEF ForPacket
      <4>7. QED
        BY <1>2, <2>1, <3>1, <4>1, <4>2, <4>4, <4>5, <4>6
    <3>3. CASE ~(Parses(u.from) /\ Parses(u.to) /\ u.from.is <= u.to.is)
      <4>1. HandleMaxByRange(u) = Refused("invalid")
        BY <3>3 DEF HandleMaxByRange
      <4>2. \A f, t : ~ForInterval(u, f, t)
        BY <3>3, GoodForms DEF ForInterval
      <4>3. \A p : ~ForPacket(u, p)
        BY <2>3, GoodForms DEF ForPacket
      <4>4. QED
        BY <1>2, <2>1, <3>1, <4>1, <4>2, <4>3
    <3>4. QED
      BY <3>2, <3>3
  <2>4. CASE Given(u.id) <=> Given(u.from) \/ Given(u.to)
    <3>1. HandleGetMax(u) = Refused("invalid")
      BY <2>4 DEF HandleGetMax
    <3>2. \A p, f, t : ~ForPacket(u, p) /\ ~ForInterval(u, f, t)
      BY <2>4, GoodForms DEF ForPacket, ForInterval
    <3>3. QED
      BY <1>2, <2>1, <3>1, <3>2
  <2>5. QED
    BY <1>1, <2>2, <2>3, <2>4, ParamForms
<1>5. QED
  BY <1>3, <1>4

-----------------------------------------------------------------------------
(* The same request, made over HTTP. *)
AsUrl(c) ==
    IF c.method = "GetMaxByID"
      THEN [path |-> "max", get |-> TRUE, id |-> c.id, from |-> Absent, to |-> Absent]
      ELSE [path |-> "max", get |-> TRUE, id |-> Absent, from |-> c.from, to |-> c.to]

(* The two APIs ask the service the same of the same request, and one counts *)
(* an answer as an error when the other does.                                *)
THEOREM ApisAgree ==
    /\ \A c \in Calls : GrpcQuestion(c) = HttpQuestion(AsUrl(c))
    /\ \A kind \in {"found", "invalid", "missing", "failed"} :
           GrpcError(kind) <=> HttpError(kind)
<1>1. ASSUME NEW c \in Calls, c.method = "GetMaxByID"
      PROVE  GrpcQuestion(c) = HttpQuestion(AsUrl(c))
  <2>1. c.id \in Params(Packets)
    BY <1>1 DEF Calls
  <2>2. HttpQuestion(AsUrl(c)) = HandleGetMax(AsUrl(c))
    BY <1>1 DEF HttpQuestion, AsUrl
  <2>3. /\ AsUrl(c).id = c.id /\ ~Given(AsUrl(c).from) /\ ~Given(AsUrl(c).to)
    BY <1>1, GoodForms DEF AsUrl
  <2>4. HandleGetMax(AsUrl(c)) = IF Parses(c.id) THEN ById(c.id.is) ELSE Refused("invalid")
    BY <2>1, <2>3, ParamForms DEF HandleGetMax, HandleMaxByID
  <2>5. GrpcQuestion(c) = IF Parses(c.id) THEN ById(c.id.is) ELSE Refused("invalid")
    BY <1>1 DEF GrpcQuestion
  <2>6. QED
    BY <2>2, <2>4, <2>5
<1>2. ASSUME NEW c \in Calls, c.method /= "GetMaxByID"
      PROVE  GrpcQuestion(c) = HttpQuestion(AsUrl(c))
  <2>1. c.method = "GetMaxByTimeRange" /\ c.from \in Params(Times) /\ c.to \in Params(Times)
    BY <1>2 DEF Calls
  <2>2. HttpQuestion(AsUrl(c)) = HandleGetMax(AsUrl(c))
    BY <1>2 DEF HttpQuestion, AsUrl
  <2>3. ~Given(AsUrl(c).id) /\ AsUrl(c).from = c.from /\ AsUrl(c).to = c.to
    BY <1>2, GoodForms DEF AsUrl
  <2> DEFINE Ordered == Parses(c.from) /\ Parses(c.to) /\ c.from.is <= c.to.is
  <2>4. HandleGetMax(AsUrl(c)) = IF Ordered THEN InTime(c.from.is, c.to.is)
                                            ELSE Refused("invalid")
    <3>1. CASE Given(c.from) \/ Given(c.to)
      BY <2>3, <3>1 DEF HandleGetMax, HandleMaxByRange
    <3>2. CASE ~(Given(c.from) \/ Given(c.to))
      BY <2>1, <2>3, <3>2, ParamForms DEF HandleGetMax
    <3>3. QED
      BY <3>1, <3>2
  <2>5. GrpcQuestion(c) = IF Ordered THEN InTime(c.from.is, c.to.is)
                                     ELSE Refused("invalid")
    BY <2>1 DEF GrpcQuestion
  <2>6. QED
    BY <2>2, <2>4, <2>5
<1>3. ASSUME NEW kind \in {"found", "invalid", "missing", "failed"}
      PROVE  GrpcError(kind) <=> HttpError(kind)
  <2>1. HttpStatus("found") = 200 /\ HttpStatus("invalid") = 400
        /\ HttpStatus("missing") = 404 /\ HttpStatus("failed") = 500
    BY DEF HttpStatus
  <2>2. HttpError(kind) <=> kind /= "found"
    BY <1>3, <2>1 DEF HttpError
  <2>3. GrpcError(kind) <=> kind /= "found"
    BY <1>3 DEF GrpcError, GrpcCode
  <2>4. QED
    BY <2>2, <2>3
<1>4. QED
  BY <1>1, <1>2, <1>3
=============================================================================
