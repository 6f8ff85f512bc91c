---------------------------- MODULE ScrapeProofs ----------------------------
(* What a page shows, for any number of symbols, groups and stores.        *)
EXTENDS Scrape, TLAPS

-----------------------------------------------------------------------------
(* Types. *)

(* The symbols of the configuration. *)
LEMMA PageTypes ==
  /\ \A g \in DOMAIN Groups :
       \A i \in DOMAIN Groups[g] : Groups[g][i] \in Symbols
  /\ \A i \in DOMAIN Metrics : Metrics[i] \in Symbols
  /\ \A i \in DOMAIN Shown : Shown[i] \in Kinds \ {"value"}
<1>1. ASSUME NEW g \in DOMAIN Groups PROVE Groups[g] \in Seq(Symbols)
  BY PageAssumption
<1> QED BY <1>1, PageAssumption

(* The starting values are of their types. *)
LEMMA InitTypeOK == Init => TypeOK
BY DEF Init, TypeOK, Unread, NoMetric, Data, Metric

(* A store changes one symbol. *)
LEMMA StoreType ==
  ASSUME TypeOK, NEW s \in Symbols, Publish(s) \/ MarkFailed(s)
  PROVE  values' \in [Symbols -> Data] /\ now' \in Nat
<1>0. values \in [Symbols -> Data] /\ now \in Nat
  BY DEF TypeOK
<1>1. CASE Publish(s)
  <2>1. [value |-> now + 1, ok |-> TRUE, time |-> now + 1] \in Data
    BY <1>0 DEF Data
  <2> QED BY <1>0, <1>1, <2>1 DEF Publish
<1>2. CASE MarkFailed(s)
  <2>1. [values[s] EXCEPT !.ok = FALSE] \in Data
    BY <1>0 DEF Data
  <2> QED BY <1>0, <1>2, <2>1 DEF MarkFailed
<1> QED BY <1>1, <1>2

(* A step of the worker keeps the types. *)
LEMMA WorkerTypeStep == TypeOK /\ Worker => TypeOK'
<1> SUFFICES ASSUME TypeOK, Worker PROVE TypeOK'
  OBVIOUS
<1> USE DEF pageVars
<1>1. ASSUME NEW g \in DOMAIN Groups, StartRead(g) PROVE TypeOK'
  <2>1. DOMAIN Groups \subseteq Nat
    BY PageAssumption
  <2> QED BY <1>1, <2>1 DEF StartRead, TypeOK
<1>2. CASE MarkName \/ StoreName
  <2>1. /\ wpc \in {"mark", "store"} /\ next \in DOMAIN Names
        /\ Publish(Names[next]) \/ MarkFailed(Names[next])
    BY <1>2 DEF MarkName, StoreName
  <2>2. Names[next] \in Symbols
    BY <2>1, PageTypes DEF TypeOK, Names
  <2>3. values' \in [Symbols -> Data] /\ now' \in Nat
    BY <2>1, <2>2, StoreType
  <2> QED BY <1>2, <2>3 DEF MarkName, StoreName, TypeOK
<1>3. CASE EndMark \/ StartInvalidate \/ EndInvalidate
  BY <1>3 DEF EndMark, StartInvalidate, EndInvalidate, TypeOK
<1>4. CASE InsertReadGroupMetric
  BY <1>4 DEF InsertReadGroupMetric, TypeOK, Metric
<1>5. CASE InvalidateName
  <2>1. values' \in [Symbols -> Data] /\ now' \in Nat
    BY <1>5, PageTypes, StoreType DEF InvalidateName
  <2> QED BY <1>5, <2>1 DEF InvalidateName, TypeOK
<1> QED BY <1>1, <1>2, <1>3, <1>4, <1>5 DEF Worker

(* A step of the endpoint keeps the types. *)
LEMMA EndpointTypeStep == TypeOK /\ Endpoint => TypeOK'
<1> SUFFICES ASSUME TypeOK, Endpoint PROVE TypeOK'
  OBVIOUS
<1> USE DEF workerVars
<1>1. CASE StartScrape
  BY <1>1 DEF StartScrape, TypeOK
<1>2. CASE ServeValue
  <2>1. Metrics[item] \in Symbols
    BY <1>2, PageTypes DEF ServeValue
  <2>2. data' \in Data /\ data'.time \in Nat
    BY <1>2, <2>1 DEF ServeValue, TypeOK, Data
  <2>3. line' \in Line
    BY <1>2, <2>1, <2>2 DEF ServeValue, Serve, Line, Kinds
  <2> QED BY <1>2, <2>2, <2>3 DEF ServeValue, Serve, TypeOK
<1>3. CASE ServeAdditionalData
  <2>1. Metrics[item] \in Symbols /\ Shown[extra] \in Kinds
    BY <1>3, PageTypes DEF ServeAdditionalData, TypeOK
  <2>2. values[Metrics[item]].time \in Nat
    BY <2>1 DEF TypeOK, Data
  <2>3. line' \in Line
    BY <1>3, <2>1, <2>2 DEF ServeAdditionalData, Serve, Line, TypeOK
  <2>4. served' \in [Symbols -> Nat] /\ extra' \in Nat
    BY <1>3, <2>1, <2>2 DEF ServeAdditionalData, Serve, TypeOK
  <2> QED BY <1>3, <2>3, <2>4 DEF ServeAdditionalData, TypeOK
<1>4. CASE NextMetric \/ EndScrape
  BY <1>4 DEF NextMetric, EndScrape, TypeOK
<1> QED BY <1>1, <1>2, <1>3, <1>4 DEF Endpoint

(* Every variable holds a value of its type, for every configuration. *)
THEOREM TypeCorrect == Spec => []TypeOK
<1>1. TypeOK /\ UNCHANGED vars => TypeOK'
  BY DEF TypeOK, vars, workerVars, pageVars
<1> QED BY <1>1, InitTypeOK, WorkerTypeStep, EndpointTypeStep, PTL
        DEF Spec, Next

-----------------------------------------------------------------------------
(***************************************************************************)
(* The inductive invariant.  A value is as old as its time stamp, and what *)
(* the endpoint holds, or has served, is not newer than what is stored.    *)
(***************************************************************************)
StoresAreTimed ==
  /\ \A s \in Symbols : /\ values[s].value = values[s].time
                        /\ values[s].time <= now
                        /\ served[s] <= values[s].time
  /\ data.value = data.time
  /\ epc = "extra" => data.time <= values[Metrics[item]].time

(* The symbols of a group that are read successfully are newer than the    *)
(* start of the group's last read: those that were there before have been  *)
(* stored, or marked, by the read whose metric is inserted.                *)
StoredAfter(copy, time) == copy.ok => copy.time > time

Shows(store, metric, g) ==
  metric # NoMetric =>
    \A i \in DOMAIN Groups[g] : StoredAfter(store[Groups[g][i]], metric.start)

GroupsAreStored ==
  /\ start <= now
  /\ \A g \in DOMAIN Groups :
       /\ metrics[g].start <= now /\ Shows(values, metrics[g], g)
       /\ dump[g].start <= now /\ Shows(values, dump[g], g)
  /\ wpc = "store" =>
       /\ next \in 1 .. Len(Names) + 1
       /\ \A i \in DOMAIN Names :
            i < next => StoredAfter(values[Names[i]], start)

Inv ==
  /\ StoresAreTimed /\ GroupsAreStored
  /\ ValueHasItsTime /\ GroupIsNotAhead /\ NumberIsNotAhead

(* Whatever happens, data only gets newer, or is marked. *)
Grows ==
  /\ now' \in Nat /\ now <= now' /\ values' \in [Symbols -> Data]
  /\ \A s \in Symbols :
       /\ values'[s].value = values'[s].time
       /\ values'[s].time <= now'
       /\ values[s].time <= values'[s].time
       /\ values'[s].ok =>
            \/ values'[s].time > now
            \/ values[s].ok /\ values'[s].time = values[s].time

(* A store is growth. *)
LEMMA StoreGrows ==
  ASSUME TypeOK, StoresAreTimed, NEW s \in Symbols,
         Publish(s) \/ MarkFailed(s)
  PROVE  Grows /\ (values'[s].ok => values'[s].time > now)
<1>0. /\ values \in [Symbols -> Data] /\ now \in Nat
      /\ \A t \in Symbols : /\ values[t].value = values[t].time
                            /\ values[t].time <= now
                            /\ values[t].time \in Nat
  BY DEF TypeOK, StoresAreTimed, Data
<1>t. values' \in [Symbols -> Data]
  BY StoreType
<1>1. CASE Publish(s)
  <2>1. /\ now' = now + 1 /\ values'[s].time = now + 1
        /\ values'[s].value = now + 1
        /\ \A t \in Symbols \ {s} : values'[t] = values[t]
    BY <1>0, <1>1 DEF Publish
  <2>2. ASSUME NEW t \in Symbols, t # s
        PROVE  /\ values'[t].value = values'[t].time
               /\ values'[t].time = values[t].time
               /\ values'[t].time <= now'
               /\ values'[t].ok = values[t].ok
    BY <1>0, <2>1, <2>2
  <2>3. values[s].time <= values'[s].time
    BY <1>0, <2>1
  <2> QED BY <1>0, <1>t, <2>1, <2>2, <2>3 DEF Grows
<1>2. CASE MarkFailed(s)
  <2>1. /\ now' = now /\ values'[s].time = values[s].time
        /\ values'[s].value = values[s].value /\ ~values'[s].ok
        /\ \A t \in Symbols \ {s} : values'[t] = values[t]
    BY <1>0, <1>2 DEF MarkFailed, Data
  <2>2. ASSUME NEW t \in Symbols, t # s
        PROVE  /\ values'[t].value = values'[t].time
               /\ values'[t].time = values[t].time
               /\ values'[t].time <= now'
               /\ values'[t].ok = values[t].ok
    BY <1>0, <2>1, <2>2
  <2> QED BY <1>0, <1>t, <2>1, <2>2 DEF Grows
<1> QED BY <1>1, <1>2

(* A step of the worker stores, or leaves the data alone. *)
LEMMA WorkerGrows ==
  ASSUME TypeOK, StoresAreTimed, Worker
  PROVE  Grows
<1>1. CASE MarkName \/ StoreName
  <2>1. /\ wpc \in {"mark", "store"} /\ next \in DOMAIN Names
        /\ Publish(Names[next]) \/ MarkFailed(Names[next])
    BY <1>1 DEF MarkName, StoreName
  <2>2. Names[next] \in Symbols
    BY <2>1, PageTypes DEF TypeOK, Names
  <2> QED BY <2>1, <2>2, StoreGrows
<1>2. CASE InvalidateName
  BY <1>2, PageTypes, StoreGrows DEF InvalidateName
<1>3. CASE ~MarkName /\ ~StoreName /\ ~InvalidateName
  <2>1. UNCHANGED <<now, values>>
    BY <1>3 DEF Worker, StartRead, EndMark, InsertReadGroupMetric,
       StartInvalidate, EndInvalidate
  <2>2. \A s \in Symbols : values[s].time \in Nat
    BY DEF TypeOK, Data
  <2> QED BY <2>1, <2>2 DEF Grows, StoresAreTimed, TypeOK
<1> QED BY <1>1, <1>2, <1>3

(* Growth, and all that follows from it. *)
LEMMA GrowthKeeps ==
  ASSUME TypeOK, Inv, Grows, UNCHANGED pageVars
  PROVE  /\ StoresAreTimed'
         /\ ValueHasItsTime' /\ GroupIsNotAhead' /\ NumberIsNotAhead'
<1>0. /\ values \in [Symbols -> Data] /\ now \in Nat /\ data \in Data
      /\ served \in [Symbols -> Nat]
      /\ \A s \in Symbols : /\ values[s].time \in Nat /\ served[s] \in Nat
      /\ data.time \in Nat
  BY DEF TypeOK, Data
<1>1. \A s \in Symbols :
        /\ values'[s].value = values'[s].time /\ values'[s].time <= now'
        /\ values[s].time <= values'[s].time /\ values'[s].time \in Nat
        /\ served[s] <= values[s].time
  <2>1. \A s \in Symbols : values'[s].time \in Nat
    BY DEF Grows, Data
  <2> QED BY <1>0, <2>1 DEF Inv, StoresAreTimed, Grows
<1>2. UNCHANGED <<epc, data, item, served>>
  BY DEF pageVars
<1>3. StoresAreTimed'
  <2>1. \A s \in Symbols : served[s] <= values'[s].time
    BY <1>0, <1>1
  <2>2. ASSUME epc = "extra"
        PROVE  data.time <= values'[Metrics[item]].time
    <3>1. /\ Metrics[item] \in Symbols
          /\ data.time <= values[Metrics[item]].time
      BY <2>2, PageTypes DEF TypeOK, Inv, StoresAreTimed
    <3> QED BY <1>0, <1>1, <3>1
  <2>3. data.value = data.time
    BY DEF Inv, StoresAreTimed
  <2> QED BY <1>1, <1>2, <2>1, <2>2, <2>3 DEF StoresAreTimed
<1>4. ValueHasItsTime' /\ GroupIsNotAhead' /\ NumberIsNotAhead'
  BY DEF Inv, ValueHasItsTime, GroupIsNotAhead, NumberIsNotAhead, pageVars
<1> QED BY <1>3, <1>4

(* Data stored after some time stays so, or is marked. *)
LEMMA StoredStays ==
  ASSUME TypeOK, Grows, NEW s \in Symbols, NEW time \in Nat, time <= now,
         StoredAfter(values[s], time)
  PROVE  StoredAfter(values'[s], time)
<1>1. now \in Nat /\ values[s].time \in Nat /\ values'[s].time \in Nat
  BY DEF TypeOK, Grows, Data
<1>2. values'[s].ok => \/ values'[s].time > now
                       \/ values[s].ok /\ values'[s].time = values[s].time
  BY DEF Grows
<1> QED BY <1>1, <1>2 DEF StoredAfter

(* So a metric that shows what is stored still does. *)
LEMMA ShowsStays ==
  ASSUME TypeOK, Grows, NEW g \in DOMAIN Groups, NEW m \in Metric,
         m.start <= now, Shows(values, m, g)
  PROVE  m.start <= now' /\ Shows(values', m, g)
<1>1. m.start \in Nat /\ now \in Nat /\ now' \in Nat /\ now <= now'
  BY DEF Metric, TypeOK, Grows
<1>2. ASSUME m # NoMetric, NEW i \in DOMAIN Groups[g]
      PROVE  StoredAfter(values'[Groups[g][i]], m.start)
  BY <1>1, <1>2, PageTypes, StoredStays DEF Shows
<1> QED BY <1>1, <1>2 DEF Shows

(* A step of the worker that inserts no metric keeps those that are there. *)
LEMMA MetricsStay ==
  ASSUME TypeOK, Inv, Grows
  PROVE  \A g \in DOMAIN Groups :
           /\ metrics[g].start <= now' /\ Shows(values', metrics[g], g)
           /\ dump[g].start <= now' /\ Shows(values', dump[g], g)
<1> SUFFICES ASSUME NEW g \in DOMAIN Groups
             PROVE  /\ metrics[g].start <= now'
                    /\ Shows(values', metrics[g], g)
                    /\ dump[g].start <= now'
                    /\ Shows(values', dump[g], g)
  OBVIOUS
<1>1. metrics[g] \in Metric /\ dump[g] \in Metric
  BY DEF TypeOK
<1>2. /\ metrics[g].start <= now /\ Shows(values, metrics[g], g)
      /\ dump[g].start <= now /\ Shows(values, dump[g], g)
  BY DEF Inv, GroupsAreStored
<1> QED BY <1>1, <1>2, ShowsStays

(* A step of the worker keeps the metrics behind the symbols. *)
LEMMA WorkerKeepsGroups ==
  ASSUME TypeOK, Inv, Worker
  PROVE  GroupsAreStored'
<1>1. /\ Grows /\ now \in Nat /\ now' \in Nat /\ now <= now'
      /\ start \in Nat /\ start <= now
  <2>1. Grows
    BY WorkerGrows DEF Inv
  <2> QED BY <2>1 DEF Grows, TypeOK, Inv, GroupsAreStored
<1>2. UNCHANGED dump
  BY DEF Worker, StartRead, MarkName, EndMark, StoreName, pageVars,
     InsertReadGroupMetric, StartInvalidate, InvalidateName, EndInvalidate
<1>3. /\ start <= now'
      /\ \A g \in DOMAIN Groups :
           /\ metrics[g].start <= now' /\ Shows(values', metrics[g], g)
           /\ dump[g].start <= now' /\ Shows(values', dump[g], g)
  BY <1>1, MetricsStay
<1>4. ASSUME NEW g \in DOMAIN Groups, StartRead(g) PROVE GroupsAreStored'
  <2>1. Groups[g] \in Seq(Symbols)
    BY PageAssumption
  <2>2. /\ next' = 1 /\ start' = now /\ now' = now /\ Names' = Groups[g]
        /\ UNCHANGED <<values, metrics>>
    BY <1>4 DEF StartRead, Names
  <2>3. 1 \in 1 .. Len(Groups[g]) + 1
        /\ \A i \in DOMAIN Groups[g] : ~(i < 1)
    BY <2>1
  <2> QED BY <1>1, <1>2, <1>3, <2>2, <2>3 DEF GroupsAreStored
<1>5. CASE EndMark
  <2>1. Groups[group] \in Seq(Symbols)
    BY <1>5, PageAssumption DEF EndMark, TypeOK
  <2>2. /\ next' = 1 /\ Names' = Names
        /\ UNCHANGED <<now, values, metrics, start>>
    BY <1>5 DEF EndMark, Names
  <2>3. 1 \in 1 .. Len(Names) + 1 /\ \A i \in DOMAIN Names : ~(i < 1)
    BY <2>1 DEF Names
  <2> QED BY <1>1, <1>2, <1>3, <2>2, <2>3 DEF GroupsAreStored
<1>6. CASE StoreName
  <2>1. /\ wpc = "store" /\ group \in DOMAIN Groups
        /\ Names \in Seq(Symbols) /\ next \in DOMAIN Names
        /\ next \in Nat /\ Names[next] \in Symbols
        /\ Publish(Names[next]) \/ MarkFailed(Names[next])
    BY <1>6, PageAssumption, PageTypes DEF StoreName, TypeOK, Names
  <2>2. values'[Names[next]].ok => values'[Names[next]].time > now
    BY <2>1, StoreGrows DEF Inv
  <2>3. StoredAfter(values'[Names[next]], start)
    <3>1. values'[Names[next]].time \in Nat
      BY <1>1, <2>1 DEF Grows, Data
    <3> QED BY <1>1, <2>2, <3>1 DEF StoredAfter
  <2>4. ASSUME NEW i \in DOMAIN Names, i < next + 1
        PROVE  StoredAfter(values'[Names[i]], start)
    <3>1. CASE i = next
      BY <2>3, <3>1
    <3>2. CASE i # next
      <4>1. i < next
        BY <2>1, <2>4, <3>2
      <4>2. Names[i] \in Symbols /\ StoredAfter(values[Names[i]], start)
        BY <2>1, <4>1 DEF Inv, GroupsAreStored
      <4> QED BY <1>1, <4>2, StoredStays
    <3> QED BY <3>1, <3>2
  <2>5. /\ next' = next + 1 /\ Names' = Names
        /\ UNCHANGED <<metrics, start, wpc>>
    BY <1>6 DEF StoreName, Names
  <2>6. next + 1 \in 1 .. Len(Names) + 1
    BY <2>1
  <2> QED BY <1>2, <1>3, <2>4, <2>5, <2>6 DEF GroupsAreStored
<1>7. CASE InsertReadGroupMetric
  <2>0. wpc = "store" /\ next \notin DOMAIN Names
    BY <1>7 DEF InsertReadGroupMetric
  <2>1. /\ wpc = "store" /\ group \in DOMAIN Groups
        /\ Names \in Seq(Symbols) /\ next \notin DOMAIN Names
        /\ next \in 1 .. Len(Names) + 1
    <3>1. group \in DOMAIN Groups
      BY <2>0 DEF TypeOK
    <3>2. Names \in Seq(Symbols)
      BY <3>1, PageAssumption DEF Names
    <3>3. next \in 1 .. Len(Names) + 1
      BY <2>0 DEF Inv, GroupsAreStored
    <3> QED BY <2>0, <3>1, <3>2, <3>3
  <2>2. \A i \in DOMAIN Names : i < next
    BY <2>1
  <2>3. \A i \in DOMAIN Names : StoredAfter(values[Names[i]], start)
    BY <2>1, <2>2 DEF Inv, GroupsAreStored
  <2>4. /\ metrics' = [metrics EXCEPT ![group] = [time |-> now,
                                                  start |-> start]]
        /\ wpc' = "idle" /\ UNCHANGED <<now, values, start>>
    BY <1>7 DEF InsertReadGroupMetric
  <2>5. ASSUME NEW g \in DOMAIN Groups
        PROVE  metrics'[g].start <= now' /\ Shows(values', metrics'[g], g)
    <3>1. CASE g = group
      <4>1. metrics'[g].start = start
        BY <2>4, <2>1, <3>1 DEF TypeOK
      <4>2. Shows(values', metrics'[g], g)
        BY <2>3, <2>4, <3>1, <4>1 DEF Shows, Names
      <4> QED BY <1>1, <2>4, <4>1, <4>2
    <3>2. CASE g # group
      <4>1. metrics'[g] = metrics[g]
        BY <2>4, <3>2 DEF TypeOK
      <4> QED BY <1>3, <4>1
    <3> QED BY <3>1, <3>2
  <2> QED BY <1>2, <1>3, <2>4, <2>5 DEF GroupsAreStored
<1>8. CASE MarkName \/ StartInvalidate \/ InvalidateName \/ EndInvalidate
  <2>1. wpc' # "store" /\ UNCHANGED <<metrics, start>>
    BY <1>8 DEF MarkName, StartInvalidate, InvalidateName, EndInvalidate
  <2> QED BY <1>2, <1>3, <2>1 DEF GroupsAreStored
<1> QED BY <1>4, <1>5, <1>6, <1>7, <1>8 DEF Worker

(* A step of the worker keeps the invariant. *)
LEMMA WorkerInvStep == TypeOK /\ Inv /\ Worker => Inv'
<1> SUFFICES ASSUME TypeOK, Inv, Worker PROVE Inv'
  OBVIOUS
<1>1. Grows
  BY WorkerGrows DEF Inv
<1>2. UNCHANGED pageVars
  BY DEF Worker, StartRead, MarkName, EndMark, StoreName,
     InsertReadGroupMetric, StartInvalidate, InvalidateName, EndInvalidate
<1> QED BY <1>1, <1>2, GrowthKeeps, WorkerKeepsGroups DEF Inv

-----------------------------------------------------------------------------
(* The endpoint. *)

(* A page that begins shows nothing yet. *)
LEMMA StartScrapeStep == TypeOK /\ Inv /\ StartScrape => Inv'
<1> SUFFICES ASSUME TypeOK, Inv, StartScrape PROVE Inv'
  OBVIOUS
<1>1. /\ dump' = metrics /\ line' = NoLine /\ epc' = "symbol"
      /\ UNCHANGED <<workerVars, data, served>>
  BY DEF StartScrape
<1>2. UNCHANGED <<now, values, metrics, wpc, group, next, start>>
  BY <1>1 DEF workerVars
<1>3. StoresAreTimed'
  BY <1>1, <1>2 DEF Inv, StoresAreTimed
<1>4. GroupsAreStored'
  BY <1>1, <1>2 DEF Inv, GroupsAreStored, Names
<1>5. ValueHasItsTime' /\ GroupIsNotAhead' /\ NumberIsNotAhead'
  BY <1>1 DEF ValueHasItsTime, GroupIsNotAhead, NumberIsNotAhead, NoLine,
     Unread
<1> QED BY <1>3, <1>4, <1>5 DEF Inv

(* What the endpoint's other steps leave to the groups. *)
LEMMA DumpStays ==
  ASSUME Inv, UNCHANGED <<workerVars, dump>>
  PROVE  GroupsAreStored'
BY DEF Inv, GroupsAreStored, Names, workerVars

(* The line of a value: the metric at the head of the page is behind it. *)
LEMMA ServeValueStep == TypeOK /\ Inv /\ ServeValue => Inv'
<1> SUFFICES ASSUME TypeOK, Inv, ServeValue PROVE Inv'
  OBVIOUS
<1> DEFINE s == Metrics[item]
<1>0. s \in Symbols /\ values[s] \in Data
  BY PageTypes DEF ServeValue, TypeOK
<1>1. /\ data' = values[s] /\ served' = [served EXCEPT ![s] = values[s].time]
      /\ line' = [kind |-> "value", symbol |-> s, data |-> values[s],
                  time |-> values[s].time]
      /\ UNCHANGED <<now, values, dump, item>>
  BY DEF ServeValue, Serve, workerVars
<1>2. /\ values[s].time \in Nat /\ values[s].value = values[s].time
      /\ values[s].time <= values[s].time
  BY <1>0 DEF Data, Inv, StoresAreTimed
<1> HIDE DEF s
<1>3. StoresAreTimed'
  <2>1. ASSUME NEW t \in Symbols
        PROVE  /\ values'[t].value = values'[t].time
               /\ values'[t].time <= now'
               /\ served'[t] <= values'[t].time
    BY <1>0, <1>1, <1>2 DEF Inv, StoresAreTimed, TypeOK
  <2>2. data'.value = data'.time
    BY <1>1, <1>2
  <2>3. data'.time <= values'[Metrics[item']].time
    BY <1>1, <1>2 DEF s
  <2> QED BY <2>1, <2>2, <2>3 DEF StoresAreTimed
<1>4. GroupsAreStored'
  BY DumpStays DEF ServeValue
<1>5. GroupIsNotAhead'
  <2>1. ASSUME values[s].ok, NEW g \in DOMAIN Groups, dump[g] # NoMetric,
               NEW i \in DOMAIN Groups[g], Groups[g][i] = s
        PROVE  values[s].time > dump[g].start
    <3>1. Shows(values, dump[g], g)
      BY DEF Inv, GroupsAreStored
    <3>2. StoredAfter(values[Groups[g][i]], dump[g].start)
      BY <2>1, <3>1 DEF Shows
    <3> QED BY <2>1, <3>2 DEF StoredAfter
  <2>2. /\ line'.data = values[s] /\ line'.symbol = s
        /\ line'.time = values[s].time /\ dump' = dump
    BY <1>1
  <2> QED BY <2>1, <2>2 DEF GroupIsNotAhead
<1>6. ValueHasItsTime' /\ NumberIsNotAhead'
  BY <1>1, <1>2 DEF ValueHasItsTime, NumberIsNotAhead
<1> QED BY <1>3, <1>4, <1>5, <1>6 DEF Inv

(* A line of additional data: its time stamp is that of a later copy. *)
LEMMA ServeAdditionalDataStep == TypeOK /\ Inv /\ ServeAdditionalData => Inv'
<1> SUFFICES ASSUME TypeOK, Inv, ServeAdditionalData PROVE Inv'
  OBVIOUS
<1> DEFINE s == Metrics[item]
           time == values[s].time
<1>0. /\ s \in Symbols /\ time \in Nat /\ Shown[extra] # "value"
      /\ time <= time /\ data.time <= time
  <2>1. s \in Symbols /\ Shown[extra] # "value" /\ data.time <= time
    BY PageTypes DEF ServeAdditionalData, TypeOK, Inv, StoresAreTimed
  <2>2. time \in Nat
    BY <2>1 DEF TypeOK, Data
  <2> QED BY <2>1, <2>2
<1>1. /\ served' = [served EXCEPT ![s] = time]
      /\ line' = [kind |-> Shown[extra], symbol |-> s, data |-> data,
                  time |-> time]
      /\ UNCHANGED <<now, values, dump, item, data, epc>>
  BY DEF ServeAdditionalData, Serve, workerVars
<1>2. StoresAreTimed'
  <2>1. ASSUME NEW t \in Symbols
        PROVE  /\ values'[t].value = values'[t].time
               /\ values'[t].time <= now'
               /\ served'[t] <= values'[t].time
    BY <1>0, <1>1 DEF Inv, StoresAreTimed, TypeOK
  <2> QED BY <1>1, <2>1 DEF Inv, StoresAreTimed
<1>3. GroupsAreStored'
  BY DumpStays DEF ServeAdditionalData
<1>4. ValueHasItsTime' /\ GroupIsNotAhead' /\ NumberIsNotAhead'
  BY <1>0, <1>1 DEF ValueHasItsTime, GroupIsNotAhead, NumberIsNotAhead
<1> QED BY <1>2, <1>3, <1>4 DEF Inv

(* A step of the endpoint keeps the invariant. *)
LEMMA EndpointInvStep == TypeOK /\ Inv /\ Endpoint => Inv'
<1> SUFFICES ASSUME TypeOK, Inv, NextMetric \/ EndScrape PROVE Inv'
  BY StartScrapeStep, ServeValueStep, ServeAdditionalDataStep DEF Endpoint
<1>1. epc' # "extra" /\ UNCHANGED <<workerVars, dump, data, line, served>>
  BY DEF NextMetric, EndScrape
<1>2. StoresAreTimed'
  BY <1>1 DEF Inv, StoresAreTimed, workerVars
<1>3. GroupsAreStored'
  BY <1>1, DumpStays
<1>4. ValueHasItsTime' /\ GroupIsNotAhead' /\ NumberIsNotAhead'
  BY <1>1 DEF Inv, ValueHasItsTime, GroupIsNotAhead, NumberIsNotAhead
<1> QED BY <1>2, <1>3, <1>4 DEF Inv

-----------------------------------------------------------------------------
(* The results. *)

(* Nothing is stored, and nothing shown. *)
LEMMA InitInv == Init => Inv
<1> SUFFICES ASSUME Init PROVE Inv
  OBVIOUS
<1>1. StoresAreTimed
  BY DEF Init, StoresAreTimed, Unread
<1>2. GroupsAreStored
  BY DEF Init, GroupsAreStored, Shows, NoMetric
<1>3. ValueHasItsTime /\ GroupIsNotAhead /\ NumberIsNotAhead
  BY DEF Init, ValueHasItsTime, GroupIsNotAhead, NumberIsNotAhead, NoLine,
     Unread
<1> QED BY <1>1, <1>2, <1>3 DEF Inv

(* The invariant holds in every reachable state. *)
LEMMA InvCorrect == Spec => [](TypeOK /\ Inv)
<1>1. TypeOK /\ Inv /\ [Next]_vars => Inv'
  <2>1. ASSUME Inv, UNCHANGED vars PROVE Inv'
    BY <2>1 DEF Inv, StoresAreTimed, GroupsAreStored, Names, vars,
       workerVars, pageVars, ValueHasItsTime, GroupIsNotAhead,
       NumberIsNotAhead
  <2> QED BY <2>1, WorkerInvStep, EndpointInvStep DEF Next
<1> QED BY <1>1, InitInv, TypeCorrect, PTL DEF Spec

(* The line of a value has the time stamp of the read that gave the value, *)
(* also after later reads have failed.                                     *)
THEOREM ValueHasItsTimeCorrect == Spec => []ValueHasItsTime
<1>1. Inv => ValueHasItsTime
  BY DEF Inv
<1> QED BY <1>1, InvCorrect, PTL

(* A page that shows a read of a group shows no symbol that this read      *)
(* should have renewed with the value of an earlier one.                   *)
THEOREM GroupIsNotAheadCorrect == Spec => []GroupIsNotAhead
<1>1. Inv => GroupIsNotAhead
  BY DEF Inv
<1> QED BY <1>1, InvCorrect, PTL

(* The number of an additional line is never newer than its time stamp. *)
THEOREM NumberIsNotAheadCorrect == Spec => []NumberIsNotAhead
<1>1. Inv => NumberIsNotAhead
  BY DEF Inv
<1> QED BY <1>1, InvCorrect, PTL

(* The time stamps served for a symbol never go back. *)
THEOREM TimesNeverGoBackCorrect == Spec => TimesNeverGoBack
<1>1. TypeOK /\ Inv /\ [Next]_vars =>
        [\A s \in Symbols : served[s] <= served'[s]]_vars
  <2> SUFFICES ASSUME TypeOK, Inv, Next, NEW s \in Symbols
               PROVE  served[s] <= served'[s]
    OBVIOUS
  <2>1. /\ served \in [Symbols -> Nat] /\ served[s] <= served[s]
        /\ served[s] <= values[s].time
    BY DEF TypeOK, Inv, StoresAreTimed
  <2>2. CASE ServeValue
    <3>1. served' = [served EXCEPT ![Metrics[item]] =
                                     values[Metrics[item]].time]
      BY <2>2 DEF ServeValue, Serve
    <3> QED BY <2>1, <3>1
  <2>3. CASE ServeAdditionalData
    <3>1. served' = [served EXCEPT ![Metrics[item]] =
                                     values[Metrics[item]].time]
      BY <2>3 DEF ServeAdditionalData, Serve
    <3> QED BY <2>1, <3>1
  <2>4. CASE ~ServeValue /\ ~ServeAdditionalData
    <3>1. UNCHANGED served
      BY <2>4 DEF Next, Worker, Endpoint, StartRead, MarkName, EndMark,
         StoreName, InsertReadGroupMetric, StartInvalidate, InvalidateName,
         EndInvalidate, StartScrape, NextMetric, EndScrape, pageVars
    <3> QED BY <2>1, <3>1
  <2> QED BY <2>2, <2>3, <2>4
<1> QED BY <1>1, InvCorrect, PTL DEF Spec, TimesNeverGoBack

=============================================================================
