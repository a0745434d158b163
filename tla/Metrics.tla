------------------------------ MODULE Metrics ------------------------------
(***************************************************************************)
(* The counters, gauges and histograms of infra/prometheus, those that     *)
(* infra/metrics.go registers for requests and for batch flushes, and one  *)
(* scrape of /metrics.  Every metric has a lock of its own: an update is   *)
(* one step, and so is the reading of one metric, but a scrape reads them  *)
(* one after the other while others go on updating.                        *)
(*                                                                         *)
(* A metric is a function on levels.  Level 0 is the value of a counter or *)
(* gauge, or the count of a histogram; level b is the histogram's b-th     *)
(* bucket.  A duration is the first bucket that it fits in.                *)
(***************************************************************************)
EXTENDS Integers, Sequences

CONSTANT NBuckets       \* buckets of a histogram, without the one for +Inf

ASSUME BucketsAssumption == NBuckets \in Nat

Levels    == 0 .. NBuckets
Durations == 1 .. NBuckets + 1

(* Mutant: in the order of registration. *)
GatherOrderAsRegistered ==
    <<"requests", "errors", "processing", "flushes", "flush_time", "batch_size",
      "batch_wait">>

(* Gather sorts the names: aggregator_db_batch_duration_seconds,             *)
(* ..._flush_total, ..._size, ..._wait_seconds,                              *)
(* aggregator_processing_duration_seconds, http_request_errors_total,        *)
(* http_requests_total.                                                      *)
GatherOrder ==
    <<"flush_time", "flushes", "batch_size", "batch_wait", "processing", "errors",
      "requests">>

Names == {GatherOrder[i] : i \in DOMAIN GatherOrder}

VARIABLES
    metric,     \* the registered metrics
    page,       \* what the scrape has written
    gathered    \* how many metrics it has written, -1 before it begins

metricVars == <<metric, page, gathered>>

Zero == [b \in Levels |-> 0]

(* MustRegister, at package initialisation. *)
MetricsInit ==
    /\ metric = [n \in Names |-> Zero]
    /\ page = [n \in Names |-> Zero]
    /\ gathered = -1

Update(n, new) ==
    /\ metric' = [m \in Names |-> IF m = n THEN new ELSE metric[m]]
    /\ UNCHANGED <<page, gathered>>

(* Counter.Add, Gauge.Set, Histogram.Observe *)
Inc(n)    == Update(n, [b \in Levels |-> metric[n][b] + IF b = 0 THEN 1 ELSE 0])
Set(n, v) == Update(n, [b \in Levels |-> IF b = 0 THEN v ELSE 0])

Observe(n, d) ==
    Update(n, [b \in Levels |-> metric[n][b] + IF b = 0 \/ d <= b THEN 1 ELSE 0])

(* promhttp.Handler and Gather: the names are taken, then each metric is     *)
(* written.                                                                  *)
GatherBegin ==
    /\ gathered = -1
    /\ gathered' = 0
    /\ UNCHANGED <<metric, page>>

GatherNext ==
    /\ gathered \in 0 .. Len(GatherOrder) - 1
    /\ LET n == GatherOrder[gathered + 1] IN
         page' = [m \in Names |-> IF m = n THEN metric[n] ELSE page[m]]
    /\ gathered' = gathered + 1
    /\ UNCHANGED metric

Written(n)   == \E i \in 1 .. gathered : GatherOrder[i] = n
PageComplete == gathered = Len(GatherOrder)

-----------------------------------------------------------------------------
MetricsTypeOK ==
    /\ metric \in [Names -> [Levels -> Nat]]
    /\ page \in [Names -> [Levels -> Nat]]
    /\ gathered \in -1 .. Len(GatherOrder)

(* A page adds up, although its lines were read at different moments: no more *)
(* errors than requests, no more timed flushes than flushes and no more       *)
(* flushes than waits, and every histogram is cumulative.                     *)
AddsUp(p) ==
    /\ p["errors"][0] <= p["requests"][0]
    /\ p["flush_time"][0] <= p["flushes"][0]
    /\ p["flushes"][0] <= p["batch_wait"][0]
    /\ \A n \in {"processing", "flush_time", "batch_wait"} : \A b, c \in Levels :
           0 < b /\ b <= c => p[n][b] <= p[n][c] /\ p[n][c] <= p[n][0]
=============================================================================
