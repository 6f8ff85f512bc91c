------------------------------- MODULE Scrape -------------------------------
(***************************************************************************)
(* A scrape of PrometheusEndpoint_t against the updates of the worker.     *)
(*                                                                         *)
(* Both sides go through ProcessDataBuffer_t, whose mutex makes each call  *)
(* one step.  The worker reads its groups and stores symbol by symbol; the *)
(* endpoint, which has one thread, builds its page line by line.  Of the   *)
(* worker only its calls are modelled here, in the order readGroup and     *)
(* setAllVariablesToInvalid make them; AdsProvider says which occur when.  *)
(*                                                                         *)
(* Times are those of the stores, counted from 1.  A value, and the        *)
(* durations stored with it, are represented by the time of their store;   *)
(* 0 stands for "NaN" and for the epoch.  The clock does not go back.      *)
(***************************************************************************)
EXTENDS Naturals, Sequences

CONSTANTS
  Symbols,   \* the configured symbols
  Groups,    \* sequence of the read groups, each a sequence of symbols
  Metrics,   \* _metrics, and _symbolNames: the symbols as configured
  Shown,     \* the kinds of additional data that are shown, in their order
  MaxTime    \* bound on the number of stores

Kinds == {"value", "current_last_time", "read_time", "last_try_status",
          "timestamp"}

ASSUME PageAssumption ==
  /\ Groups \in Seq(Seq(Symbols))
  /\ Metrics \in Seq(Symbols)
  /\ Shown \in Seq(Kinds \ {"value"})
  /\ MaxTime \in Nat

VARIABLES
  now,      \* the time of the last store
  values,   \* _symbolsValues: [value, ok, time]
  metrics,  \* _readGroupMetrics: [time, start] by group
  wpc,      \* where the worker is
  group,    \* the group that it reads
  next,     \* index into the names that it marks or stores
  start,    \* startReadTime of the read in progress
  epc,      \* where the endpoint is
  dump,     \* the copy of _readGroupMetrics that the page begins with
  item,     \* index into Metrics
  extra,    \* index into Shown
  data,     \* the local copy of the data of the symbol
  line,     \* the last line of the page: [kind, symbol, data, time]
  served    \* ghost: the last time stamp served for each symbol

workerVars == <<now, values, metrics, wpc, group, next, start>>
pageVars == <<epc, dump, item, extra, data, line, served>>
vars == <<workerVars, pageVars>>

Unread == [value |-> 0, ok |-> FALSE, time |-> 0]
NoMetric == [time |-> 0, start |-> 0]
NoLine == [kind |-> "none", symbol |-> CHOOSE s \in Symbols : TRUE,
           data |-> Unread, time |-> 0]

Init ==
  /\ now = 0
  /\ values = [s \in Symbols |-> Unread]
  /\ metrics = [g \in DOMAIN Groups |-> NoMetric]
  /\ wpc = "idle"
  /\ group = 1
  /\ next = 1
  /\ start = 0
  /\ epc = "idle"
  /\ dump = [g \in DOMAIN Groups |-> NoMetric]
  /\ item = 1
  /\ extra = 1
  /\ data = Unread
  /\ line = NoLine
  /\ served = [s \in Symbols |-> 0]

-----------------------------------------------------------------------------
(* The worker. *)

Names == Groups[group]

(* updateSymbolProcessDataBuffer: everything is new. *)
Publish(s) ==
  /\ now < MaxTime
  /\ now' = now + 1
  /\ values' = [values EXCEPT ![s] = [value |-> now + 1, ok |-> TRUE,
                                      time |-> now + 1]]

(* Mistake: the data that is there is not fetched first. *)
MarkFailedAnew(s) ==
  /\ values' = [values EXCEPT ![s] = Unread]
  /\ UNCHANGED now

(* Mistake: the time of the failure is stored. *)
MarkFailedNow(s) ==
  /\ now < MaxTime
  /\ now' = now + 1
  /\ values' = [values EXCEPT ![s].ok = FALSE, ![s].time = now + 1]

(* updateSymbolProcessDataBufferFailed: the rest of the data stays.  The   *)
(* worker is the only writer, so the two calls of the buffer act as one.   *)
MarkFailed(s) ==
  /\ values' = [values EXCEPT ![s].ok = FALSE]
  /\ UNCHANGED now

(* readGroup: the sum-up read has returned, or thrown. *)
StartRead(g) ==
  /\ wpc = "idle"
  /\ group' = g
  /\ next' = 1
  /\ start' = now
  /\ wpc' \in {"store", "mark"}
  /\ UNCHANGED <<now, values, metrics, pageVars>>

MarkName ==
  /\ wpc = "mark"
  /\ next \in DOMAIN Names
  /\ MarkFailed(Names[next])
  /\ next' = next + 1
  /\ UNCHANGED <<metrics, wpc, group, start, pageVars>>

EndMark ==
  /\ wpc = "mark"
  /\ next \notin DOMAIN Names
  /\ next' = 1
  /\ wpc' = "store"
  /\ UNCHANGED <<now, values, metrics, group, start, pageVars>>

(* A name without data is marked. *)
StoreName ==
  /\ wpc = "store"
  /\ next \in DOMAIN Names
  /\ Publish(Names[next]) \/ MarkFailed(Names[next])
  /\ next' = next + 1
  /\ UNCHANGED <<metrics, wpc, group, start, pageVars>>

(* Mistake: the metric is inserted before the symbols are stored. *)
InsertEarly ==
  /\ wpc = "store"
  /\ metrics' = [metrics EXCEPT ![group] = [time |-> now, start |-> start]]
  /\ wpc' = IF next \in DOMAIN Names THEN wpc ELSE "idle"
  /\ UNCHANGED <<now, values, group, next, start, pageVars>>

(* dataReadTime, and readTime, the distance to the start of the read. *)
InsertReadGroupMetric ==
  /\ wpc = "store"
  /\ next \notin DOMAIN Names
  /\ metrics' = [metrics EXCEPT ![group] = [time |-> now, start |-> start]]
  /\ wpc' = "idle"
  /\ UNCHANGED <<now, values, group, next, start, pageVars>>

(* setAllVariablesToInvalid, symbol by symbol. *)
StartInvalidate ==
  /\ wpc = "idle"
  /\ wpc' = "invalidate"
  /\ next' = 1
  /\ UNCHANGED <<now, values, metrics, group, start, pageVars>>

InvalidateName ==
  /\ wpc = "invalidate"
  /\ next \in DOMAIN Metrics
  /\ MarkFailed(Metrics[next])
  /\ next' = next + 1
  /\ UNCHANGED <<metrics, wpc, group, start, pageVars>>

EndInvalidate ==
  /\ wpc = "invalidate"
  /\ next \notin DOMAIN Metrics
  /\ wpc' = "idle"
  /\ UNCHANGED <<now, values, metrics, group, next, start, pageVars>>

-----------------------------------------------------------------------------
(* The endpoint: generateEndpointData and generateAdditionalData. *)

Serve(kind, copy, time) ==
  /\ line' = [kind |-> kind, symbol |-> Metrics[item], data |-> copy,
              time |-> time]
  /\ served' = [served EXCEPT ![Metrics[item]] = time]

(* The lines of the groups are written from one copy. *)
StartScrape ==
  /\ epc = "idle"
  /\ dump' = metrics
  /\ item' = 1
  /\ line' = NoLine
  /\ epc' = "symbol"
  /\ UNCHANGED <<workerVars, extra, data, served>>

(* The data is copied, and the line of the value is written from it. *)
ServeValue ==
  /\ epc = "symbol"
  /\ item \in DOMAIN Metrics
  /\ data' = values[Metrics[item]]
  /\ Serve("value", data', data'.time)
  /\ extra' = 1
  /\ epc' = "extra"
  /\ UNCHANGED <<workerVars, dump, item>>

(* The number comes from the copy, the time stamp from a second one. *)
ServeAdditionalData ==
  /\ epc = "extra"
  /\ extra \in DOMAIN Shown
  /\ Serve(Shown[extra], data, values[Metrics[item]].time)
  /\ extra' = extra + 1
  /\ UNCHANGED <<workerVars, epc, dump, item, data>>

(* Mistake: the data of the next symbol is not fetched. *)
NextMetricUnfetched ==
  /\ epc = "extra"
  /\ extra \notin DOMAIN Shown
  /\ item' = item + 1
  /\ extra' = 1
  /\ UNCHANGED <<workerVars, epc, dump, data, line, served>>

NextMetric ==
  /\ epc = "extra"
  /\ extra \notin DOMAIN Shown
  /\ item' = item + 1
  /\ epc' = "symbol"
  /\ UNCHANGED <<workerVars, dump, extra, data, line, served>>

EndScrape ==
  /\ epc = "symbol"
  /\ item \notin DOMAIN Metrics
  /\ epc' = "idle"
  /\ UNCHANGED <<workerVars, dump, item, extra, data, line, served>>

-----------------------------------------------------------------------------

Worker ==
  \/ \E g \in DOMAIN Groups : StartRead(g)
  \/ MarkName \/ EndMark \/ StoreName \/ InsertReadGroupMetric
  \/ StartInvalidate \/ InvalidateName \/ EndInvalidate

Endpoint ==
  \/ StartScrape \/ ServeValue \/ ServeAdditionalData
  \/ NextMetric \/ EndScrape

Next == Worker \/ Endpoint

Spec == Init /\ [][Next]_vars

-----------------------------------------------------------------------------

Data == [value : Nat, ok : BOOLEAN, time : Nat]
Metric == [time : Nat, start : Nat]
Line == [kind : Kinds, symbol : Symbols, data : Data, time : Nat]

(* Every variable holds a value of its type. *)
TypeOK ==
  /\ now \in Nat
  /\ values \in [Symbols -> Data]
  /\ metrics \in [DOMAIN Groups -> Metric]
  /\ wpc \in {"idle", "mark", "store", "invalidate"}
  /\ group \in Nat
  /\ wpc \in {"mark", "store"} => group \in DOMAIN Groups
  /\ next \in Nat
  /\ start \in Nat
  /\ epc \in {"idle", "symbol", "extra"}
  /\ dump \in [DOMAIN Groups -> Metric]
  /\ item \in Nat
  /\ epc = "extra" => item \in DOMAIN Metrics
  /\ extra \in Nat
  /\ data \in Data
  /\ line \in Line \cup {NoLine}
  /\ served \in [Symbols -> Nat]

(***************************************************************************)
(* The line of a value has the time stamp of the very read that gave the   *)
(* value, also after later reads have failed: a failed read leaves both.   *)
(***************************************************************************)
ValueHasItsTime == line.kind = "value" => line.data.value = line.time

(***************************************************************************)
(* The time stamps served for a symbol, in the lines of its value and of   *)
(* its additional data, over all scrapes, never go back: Prometheus would  *)
(* drop the samples.                                                       *)
(***************************************************************************)
TimesNeverGoBack == [][\A s \in Symbols : served[s] <= served'[s]]_vars

(***************************************************************************)
(* A page that shows a read of a group shows, for each symbol of the group *)
(* that was read successfully, the value of this read or of a later one:   *)
(* the worker stores the symbols before the metric of the group, and the   *)
(* endpoint copies the metrics before the symbols.                         *)
(***************************************************************************)
GroupIsNotAhead ==
  line.kind = "value" /\ line.data.ok =>
    \A g \in DOMAIN Groups :
      /\ \E i \in DOMAIN Groups[g] : Groups[g][i] = line.symbol
      /\ dump[g] # NoMetric
      => line.time > dump[g].start

(***************************************************************************)
(* The number and the time stamp of an additional line may come from two   *)
(* reads, as two copies of the data are made, but the time stamp is never  *)
(* that of the earlier one.                                                *)
(***************************************************************************)
NumberIsNotAhead == line.data.time <= line.time

=============================================================================
