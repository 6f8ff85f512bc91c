---------------------------- MODULE AdsProvider ----------------------------
(***************************************************************************)
(* The worker of AdsProvider_t: polling the read groups, keeping the       *)
(* symbol cache, and noticing and surviving outages of the PLC.            *)
(*                                                                         *)
(* Three actors take steps.  The main thread registers the symbols and     *)
(* generates the groups (ReadGroups says how).  The worker runs            *)
(* threadLoop; its ADS calls are single steps here (AmsConnection is the   *)
(* protocol below them).  The PLC starts, stops, vanishes from the network *)
(* and is given new programs, which move its symbols to other addresses.   *)
(*                                                                         *)
(* A value is represented by where it came from: the symbol that the PLC   *)
(* kept at the address that was read, or NoData for zero bytes.            *)
(*                                                                         *)
(* Start-up is simplified: generateReadGroups and the first iteration of   *)
(* setAllVariablesToInvalid, which take no lock, are single steps.         *)
(***************************************************************************)
EXTENDS AdsVariableList

CONSTANTS
  Symbols,      \* the configured symbols
  BoolSymbols,  \* those of type BOOL
  Groups,       \* sequence of the read groups, each a sequence of symbols
  Eras,         \* 1..n: the programs that the PLC runs, one after another
  Exported,     \* Exported[e]: the symbols that program e has
  Address       \* Address[e][s]: where program e keeps symbol s

ASSUME GroupsAssumption ==
  /\ Groups \in Seq(Seq(Symbols))
  /\ BoolSymbols \subseteq Symbols
  /\ \A g \in DOMAIN Groups : Groups[g] # <<>>

ASSUME ProgramsAssumption ==
  /\ Eras \subseteq Nat \ {0}
  /\ 1 \in Eras
  /\ Exported \in [Eras -> SUBSET Symbols]
  /\ Address \in [Eras -> [Symbols -> Nat]]
  /\ \A e \in Eras : \A s, t \in Symbols :
       Address[e][s] = Address[e][t] => s = t

VARIABLES
  plc,         \* "run", "stop" (answers, but not in RUN) or "down"
  era,         \* the program that the PLC has now
  registered,  \* _symbolNames
  generated,   \* _readGroups has been filled
  device,      \* _device has a value
  pc,          \* where the worker is
  firstIteration, \* of checkADSConnection
  due,         \* due[g]: the scraping time of group g has passed
  group,       \* index of the loop in readGroups
  next,        \* index of the loop over the names of the group
  entries,     \* m_symbolEntries of the AdsVariableList
  data,        \* m_rBuf: one value per entry
  dirty,       \* _dirtyADSCom
  cache,       \* _symbolCache: [addr, era], era 0 when there is no entry
  buffer,      \* _symbolsValues: [value, ok], NaN when never stored
  metrics,     \* allSymbolsSuccessfullyRead in _readGroupMetrics
  verdict,     \* ghost: how the sum-up read in progress ended
  attempt,     \* ghost: verdict of the last read attempt of each symbol
  resumed      \* ghost: program that the worker found when it last resumed

plcVars == <<plc, era>>
mainVars == <<registered, generated>>
listVars == <<next, entries, data, dirty, verdict>>
vars == <<plcVars, mainVars, device, pc, firstIteration, due, group, listVars,
          cache, buffer, metrics, attempt, resumed>>

NoData == "NoData"
NaN == "NaN"
NoEntry == [addr |-> 0, era |-> 0]
Names == Groups[group]

(* The worker holds _symbolNamesMutex while it polls the groups, and while *)
(* it reconnects after GetState has thrown.                                *)
MutexHeld == pc \in {"groups", "resolve", "request", "catch", "store",
                     "metric", "reconnect"}

Init ==
  /\ plc \in {"run", "stop", "down"}
  /\ era = 1
  /\ registered = {}
  /\ generated = FALSE
  /\ device \in BOOLEAN
  /\ device = (plc # "down")
  /\ pc = "poll"
  /\ firstIteration = TRUE
  /\ due = [g \in DOMAIN Groups |-> FALSE]
  /\ group = 1
  /\ next = 1
  /\ entries = <<>>
  /\ data = <<>>
  /\ dirty = FALSE
  /\ cache = [s \in Symbols |-> NoEntry]
  /\ buffer = [s \in Symbols |-> [value |-> NaN, ok |-> FALSE]]
  /\ metrics = [g \in DOMAIN Groups |-> "none"]
  /\ verdict = "none"
  /\ attempt = [s \in Symbols |-> "none"]
  /\ resumed = 1

-----------------------------------------------------------------------------
(* The PLC and the clock. *)

PlcChanges(state) ==
  /\ plc # state
  /\ plc' = state
  /\ UNCHANGED <<era, mainVars, device, pc, firstIteration, due, group,
                 listVars, cache, buffer, metrics, attempt, resumed>>

Download ==
  /\ plc # "run"
  /\ era + 1 \in Eras
  /\ era' = era + 1
  /\ UNCHANGED <<plc, mainVars, device, pc, firstIteration, due, group,
                 listVars, cache, buffer, metrics, attempt, resumed>>

ScrapingTimePasses(g) ==
  /\ generated
  /\ ~due[g]
  /\ due' = [due EXCEPT ![g] = TRUE]
  /\ UNCHANGED <<plcVars, mainVars, device, pc, firstIteration, group,
                 listVars, cache, buffer, metrics, attempt, resumed>>

-----------------------------------------------------------------------------
(* The main thread. *)

AddSymbol(s) ==
  /\ ~MutexHeld
  /\ ~generated
  /\ s \notin registered
  /\ registered' = registered \cup {s}
  /\ UNCHANGED <<plcVars, generated, device, pc, firstIteration, due, group,
                 listVars, cache, buffer, metrics, attempt, resumed>>

GenerateReadGroups ==
  /\ ~generated
  /\ registered = Symbols
  /\ generated' = TRUE
  /\ UNCHANGED <<plcVars, registered, device, pc, firstIteration, due, group,
                 listVars, cache, buffer, metrics, attempt, resumed>>

-----------------------------------------------------------------------------
(* The worker: readGroups and readGroup. *)

(* The symbol that the PLC has at an address now. *)
ValueAt(addr) ==
  IF \E s \in Exported[era] : Address[era][s] = addr
  THEN CHOOSE s \in Exported[era] : Address[era][s] = addr
  ELSE NoData

(* buffer after updateSymbolProcessDataBufferFailed of every symbol of S:  *)
(* the value stays, the flag says that the last read failed.               *)
Failed(S) ==
  [s \in Symbols |-> [value |-> buffer[s].value,
                      ok |-> buffer[s].ok /\ s \notin S]]

NamesOf(g) == {Groups[g][i] : i \in DOMAIN Groups[g]}
Addresses == [i \in DOMAIN entries |-> entries[i].addr]

StartPass ==
  /\ pc = "poll"
  /\ pc' = "groups"
  /\ group' = 1
  /\ UNCHANGED <<plcVars, mainVars, device, firstIteration, due, listVars,
                 cache, buffer, metrics, attempt, resumed>>

SkipGroup ==
  /\ pc = "groups"
  /\ generated /\ group \in DOMAIN Groups /\ ~due[group]
  /\ group' = group + 1
  /\ UNCHANGED <<plcVars, mainVars, device, pc, firstIteration, due, listVars,
                 cache, buffer, metrics, attempt, resumed>>

(* _device.value() throws bad_optional_access, which nothing catches, when *)
(* a group is due before the device exists.                                *)
StartGroup ==
  /\ pc = "groups"
  /\ generated /\ group \in DOMAIN Groups /\ due[group]
  /\ pc' = IF device THEN "resolve" ELSE "crashed"
  /\ UNCHANGED <<plcVars, mainVars, device, firstIteration, due, group,
                 listVars, cache, buffer, metrics, attempt, resumed>>

EndPass ==
  /\ pc = "groups"
  /\ ~generated \/ group \notin DOMAIN Groups
  /\ pc' = "check"
  /\ group' = 1
  /\ UNCHANGED <<plcVars, mainVars, device, firstIteration, due, listVars,
                 cache, buffer, metrics, attempt, resumed>>

(* One turn of the loop of AdsVariableList's constructor: the entry comes  *)
(* from the cache, or from the PLC and is cached, or is left out.          *)
ResolveFrom(s, entry) ==
  /\ entries' = Append(entries, entry)
  /\ cache' = [cache EXCEPT ![s] = entry]

Resolve ==
  /\ pc = "resolve"
  /\ next \in DOMAIN Names
  /\ LET s == Names[next]
     IN \/ /\ cache[s] # NoEntry
           /\ ResolveFrom(s, cache[s])
        \/ /\ cache[s] = NoEntry
           /\ plc # "down" /\ s \in Exported[era]
           /\ ResolveFrom(s, [addr |-> Address[era][s], era |-> era])
        \/ /\ cache[s] = NoEntry
           /\ plc = "down" \/ s \notin Exported[era]
           /\ UNCHANGED <<entries, cache>>
  /\ next' = next + 1
  /\ UNCHANGED <<plcVars, mainVars, device, pc, firstIteration, due, group,
                 data, dirty, buffer, metrics, verdict, attempt, resumed>>

(* m_rBuf is filled with zeros. *)
EndResolve ==
  /\ pc = "resolve"
  /\ next \notin DOMAIN Names
  /\ pc' = "request"
  /\ data' = [i \in DOMAIN entries |-> NoData]
  /\ dirty' = FALSE
  /\ UNCHANGED <<plcVars, mainVars, device, firstIteration, due, group, next,
                 entries, cache, buffer, metrics, verdict, attempt, resumed>>

(* _allSymbolsSuccessfullyRead of the list. *)
Complete == Len(entries) = Len(Names)

(* The request names Len(Names) items but only Len(entries) of them are    *)
(* described; the rest is whatever lies behind m_symbolInfos, so the PLC   *)
(* may refuse an incomplete request, and an empty one is refused locally.  *)
RequestSucceeds ==
  /\ pc = "request"
  /\ plc # "down"
  /\ entries # <<>>
  /\ data' = [i \in DOMAIN entries |-> ValueAt(entries[i].addr)]
  /\ verdict' =
       IF ~Complete THEN "partial"
       ELSE IF \E i \in DOMAIN entries : entries[i].era # era THEN "stale"
       ELSE "good"
  /\ next' = 1
  /\ pc' = "store"
  /\ UNCHANGED <<plcVars, mainVars, device, firstIteration, due, group,
                 entries, dirty, cache, buffer, metrics, attempt, resumed>>

(* An answer cut short has filled some of the first slots. *)
RequestFails ==
  /\ pc = "request"
  /\ plc = "down" \/ ~Complete
  /\ \E filled \in 0..Len(entries) :
       data' = [i \in DOMAIN entries |->
                  IF i <= filled THEN ValueAt(entries[i].addr) ELSE NoData]
  /\ dirty' = TRUE
  /\ verdict' = "failed"
  /\ next' = 1
  /\ pc' = "catch"
  /\ UNCHANGED <<plcVars, mainVars, device, firstIteration, due, group,
                 entries, cache, buffer, metrics, attempt, resumed>>

(* The catch clause of readGroup, which falls through to the store loop. *)
CatchAdsException ==
  /\ pc = "catch"
  /\ buffer' = Failed(NamesOf(group))
  /\ cache' = [s \in Symbols |-> NoEntry]
  /\ pc' = "store"
  /\ UNCHANGED <<plcVars, mainVars, device, firstIteration, due, group,
                 listVars, metrics, attempt, resumed>>

(* updateSymbolProcessDataBuffer for one name: data that was found is      *)
(* published, std::out_of_range is caught and marks the symbol, nullptr is *)
(* turned into an exception for BOOL and dereferenced for other types.     *)
Store ==
  /\ pc = "store"
  /\ next \in DOMAIN Names
  /\ LET s == Names[next]
         slot == GetSymbolData(Names, Addresses, dirty, s)
     IN /\ \/ /\ slot \in DOMAIN data
              /\ buffer' = [buffer EXCEPT ![s] = [value |-> data[slot],
                                                  ok |-> TRUE]]
              /\ pc' = pc
           \/ /\ slot = OutOfRange \/ (slot = NullPtr /\ s \in BoolSymbols)
              /\ buffer' = Failed({s})
              /\ pc' = pc
           \/ /\ slot = NullPtr /\ s \notin BoolSymbols
              /\ pc' = "crashed"
              /\ UNCHANGED buffer
        /\ attempt' = [attempt EXCEPT ![s] = verdict]
  /\ next' = next + 1
  /\ UNCHANGED <<plcVars, mainVars, device, firstIteration, due, group,
                 entries, data, dirty, verdict, cache, metrics, resumed>>

EndStore ==
  /\ pc = "store"
  /\ next \notin DOMAIN Names
  /\ pc' = "metric"
  /\ UNCHANGED <<plcVars, mainVars, device, firstIteration, due, group,
                 listVars, cache, buffer, metrics, attempt, resumed>>

(* Mistake: the next group is read without the test of the loop. *)
InsertMetricAndReadOn ==
  /\ pc = "metric"
  /\ due' = [due EXCEPT ![group] = FALSE]
  /\ next' = 1
  /\ entries' = <<>>
  /\ data' = <<>>
  /\ group' = group + 1
  /\ pc' = "resolve"
  /\ UNCHANGED <<plcVars, mainVars, device, firstIteration, cache, buffer,
                 dirty, verdict, metrics, attempt, resumed>>

(* insertReadGroupMetric changes only the times of a metric that exists.   *)
(* The scraping time of the group starts anew and its list is destroyed.   *)
InsertReadGroupMetric ==
  /\ pc = "metric"
  /\ metrics' = IF metrics[group] # "none" THEN metrics
                ELSE [metrics EXCEPT ![group] =
                        IF Complete /\ ~dirty THEN "yes" ELSE "no"]
  /\ due' = [due EXCEPT ![group] = FALSE]
  /\ next' = 1
  /\ entries' = <<>>
  /\ data' = <<>>
  /\ dirty' = FALSE
  /\ verdict' = "none"
  /\ group' = group + 1
  /\ pc' = "groups"
  /\ UNCHANGED <<plcVars, mainVars, device, firstIteration, cache, buffer,
                 attempt, resumed>>

-----------------------------------------------------------------------------
(* The worker: checkADSConnection. *)

(* The device could not be constructed when the provider was: it is        *)
(* awaited without the mutex.                                              *)
NoDevice ==
  /\ pc = "check"
  /\ ~device
  /\ buffer' = Failed(registered)
  /\ pc' = "connect"
  /\ UNCHANGED <<plcVars, mainVars, device, firstIteration, due, group,
                 listVars, cache, metrics, attempt, resumed>>

FirstConnect ==
  /\ pc = "connect"
  /\ plc # "down"
  /\ device' = TRUE
  /\ pc' = "check"
  /\ UNCHANGED <<plcVars, mainVars, firstIteration, due, group, listVars,
                 cache, buffer, metrics, attempt, resumed>>

StateIsRun ==
  /\ pc = "check"
  /\ device
  /\ plc = "run"
  /\ resumed' = IF firstIteration THEN resumed ELSE era
  /\ firstIteration' = TRUE
  /\ pc' = "poll"
  /\ UNCHANGED <<plcVars, mainVars, device, due, group, listVars, cache,
                 buffer, metrics, attempt>>

StateIsNotRun ==
  /\ pc = "check"
  /\ device
  /\ plc = "stop"
  /\ pc' = "invalidate"
  /\ UNCHANGED <<plcVars, mainVars, device, firstIteration, due, group,
                 listVars, cache, buffer, metrics, attempt, resumed>>

(* GetState throws AdsException: everything is marked under the mutex, and *)
(* the mutex is kept while handleDeadADSConnection reconnects.             *)
GetStateFails ==
  /\ pc = "check"
  /\ device
  /\ plc = "down"
  /\ buffer' = Failed(registered)
  /\ device' = FALSE
  /\ pc' = "reconnect"
  /\ UNCHANGED <<plcVars, mainVars, firstIteration, due, group, listVars,
                 cache, metrics, attempt, resumed>>

Reconnect ==
  /\ pc = "reconnect"
  /\ plc # "down"
  /\ device' = TRUE
  /\ pc' = "invalidate"
  /\ UNCHANGED <<plcVars, mainVars, firstIteration, due, group, listVars,
                 cache, buffer, metrics, attempt, resumed>>

(* Mistake: the cache is kept. *)
MarkOnly ==
  /\ pc = "invalidate"
  /\ buffer' = IF firstIteration THEN Failed(registered) ELSE buffer
  /\ firstIteration' = FALSE
  /\ pc' = "check"
  /\ UNCHANGED <<plcVars, mainVars, device, due, group, listVars, cache,
                 metrics, attempt, resumed>>

(* Mistake: the symbols are not marked. *)
FlushOnly ==
  /\ pc = "invalidate"
  /\ cache' = IF firstIteration THEN [s \in Symbols |-> NoEntry] ELSE cache
  /\ firstIteration' = FALSE
  /\ pc' = "check"
  /\ UNCHANGED <<plcVars, mainVars, device, due, group, listVars, buffer,
                 metrics, attempt, resumed>>

(* The first iteration empties the cache and marks every symbol; the next  *)
(* check follows a second later.                                           *)
Invalidate ==
  /\ pc = "invalidate"
  /\ cache' = IF firstIteration THEN [s \in Symbols |-> NoEntry] ELSE cache
  /\ buffer' = IF firstIteration THEN Failed(registered) ELSE buffer
  /\ firstIteration' = FALSE
  /\ pc' = "check"
  /\ UNCHANGED <<plcVars, mainVars, device, due, group, listVars, metrics,
                 attempt, resumed>>

-----------------------------------------------------------------------------

Worker ==
  \/ StartPass \/ SkipGroup \/ StartGroup \/ EndPass
  \/ Resolve \/ EndResolve \/ RequestSucceeds \/ RequestFails
  \/ CatchAdsException \/ Store \/ EndStore \/ InsertReadGroupMetric
  \/ NoDevice \/ FirstConnect \/ StateIsRun \/ StateIsNotRun
  \/ GetStateFails \/ Reconnect \/ Invalidate

Main == GenerateReadGroups \/ \E s \in Symbols : AddSymbol(s)

Environment ==
  \/ \E state \in {"run", "stop", "down"} : PlcChanges(state)
  \/ Download
  \/ \E g \in DOMAIN Groups : ScrapingTimePasses(g)

Next == Worker \/ Main \/ Environment

Spec == Init /\ [][Next]_vars

(* The worker and the main thread are scheduled, time passes, and the main *)
(* thread gets the mutex, which the worker releases between its passes, if *)
(* it is free again and again.  Nothing is assumed of the PLC.             *)
Fairness ==
  /\ WF_vars(Worker)
  /\ WF_vars(GenerateReadGroups)
  /\ SF_vars(\E s \in Symbols : AddSymbol(s))
  /\ \A g \in DOMAIN Groups : WF_vars(ScrapingTimePasses(g))

FairSpec == Spec /\ Fairness

-----------------------------------------------------------------------------

Entry == [addr : Nat, era : Eras \cup {0}]
Values == Symbols \cup {NaN, NoData}
Verdicts == {"none", "good", "partial", "stale", "failed"}

(* Every variable holds a value of its type. *)
TypeOK ==
  /\ plc \in {"run", "stop", "down"}
  /\ era \in Eras
  /\ registered \subseteq Symbols
  /\ generated \in BOOLEAN
  /\ device \in BOOLEAN
  /\ pc \in {"poll", "groups", "resolve", "request", "catch", "store",
             "metric", "check", "connect", "reconnect", "invalidate",
             "crashed"}
  /\ firstIteration \in BOOLEAN
  /\ due \in [DOMAIN Groups -> BOOLEAN]
  /\ group \in Nat
  /\ pc \in {"resolve", "request", "catch", "store", "metric"}
       => group \in DOMAIN Groups
  /\ next \in Nat
  /\ entries \in Seq(Entry)
  /\ data \in Seq(Values)
  /\ dirty \in BOOLEAN
  /\ cache \in [Symbols -> Entry]
  /\ buffer \in [Symbols -> [value : Values, ok : BOOLEAN]]
  /\ metrics \in [DOMAIN Groups -> {"none", "yes", "no"}]
  /\ verdict \in Verdicts
  /\ attempt \in [Symbols -> Verdicts]
  /\ resumed \in Eras

(***************************************************************************)
(* While the worker waits for the PLC (a lost connection, or a state other *)
(* than RUN) no symbol is published as successfully read, whatever was     *)
(* stored by the pass before: checkADSConnection and                       *)
(* setAllVariablesToInvalid "show that the connection has been lost".      *)
(***************************************************************************)
OutageIsVisible ==
  pc = "reconnect" \/ pc = "connect" \/ ~firstIteration
    => \A s \in Symbols : ~buffer[s].ok

(***************************************************************************)
(* After the worker has waited for the PLC, no cached address is of an     *)
(* older program than the one it resumed with: reads before the wait,      *)
(* during which symbols may have been resolved, left nothing behind.       *)
(***************************************************************************)
NoAddressSurvivesOutage ==
  \A s \in Symbols : cache[s] # NoEntry => cache[s].era >= resumed

(***************************************************************************)
(* A value published as successfully read is the symbol's own when its     *)
(* last read resolved all names of the group, failed nowhere and used      *)
(* addresses of the running program.  It relates the positions that the    *)
(* constructor, the answer and getSymbolData use.                          *)
(***************************************************************************)
GoodReadIsAttributed ==
  \A s \in Symbols :
    attempt[s] = "good" /\ buffer[s].ok => buffer[s].value = s

(***************************************************************************)
(* If from some time on the PLC is in RUN, with a program that the worker  *)
(* has noticed, then from some time on every symbol of a group whose names *)
(* the program all has is published as successfully read with its own      *)
(* value: the cache, the groups and the device recover from any outages    *)
(* and downloads before.  The process may have crashed instead.            *)
(***************************************************************************)
Published(s) == buffer[s].ok /\ buffer[s].value = s

Recovery ==
  <>[](plc = "run")
    => <>[](\/ pc = "crashed"
            \/ era # resumed
            \/ \A g \in DOMAIN Groups :
                 NamesOf(g) \subseteq Exported[era]
                   => \A s \in NamesOf(g) : Published(s))

(***************************************************************************)
(* If from some time on the PLC is never in RUN, then from some time on no *)
(* symbol is published as successfully read, unless the process crashes.   *)
(***************************************************************************)
LossIsPublished ==
  <>[](plc # "run")
    => <>[](pc = "crashed" \/ \A s \in Symbols : ~buffer[s].ok)

-----------------------------------------------------------------------------
(* What comments of the code say and the code does not do. *)

(***************************************************************************)
(* ProcessDataBuffer.h, line 17, says of wasLastReadSuccessful: "true if   *)
(* last read attempt was successfull".  readGroup stores the zero-filled   *)
(* answer of a failed read as a success.                                   *)
(***************************************************************************)
FlagTellsLastAttempt ==
  \A s \in Symbols : buffer[s].ok => attempt[s] # "failed"

(***************************************************************************)
(* ProcessDataBuffer.h, line 43, says of setSymbolData: "the Data being    *)
(* inserted into the symbol name".  With a name that the PLC does not      *)
(* have, the symbols after it in its group get the data of one another.    *)
(***************************************************************************)
NoOtherSymbolsData ==
  \A s, t \in Symbols : buffer[s].ok /\ buffer[s].value = t => s = t

(***************************************************************************)
(* PrometheusEndpoint.cpp, line 101, says of the metric of a read group:   *)
(* "1 if all variables of the read group where read successful".           *)
(* insertReadGroupMetric never changes the first outcome.                  *)
(***************************************************************************)
MetricTellsLastRead ==
  [][pc = "metric" /\ pc' = "groups" /\ metrics'[group] = "yes"
       => verdict \notin {"failed", "partial"}]_vars

(***************************************************************************)
(* ADSProvidor.h, line 94, says of updateSymbolProcessDataBufferFailed     *)
(* that it "updates the status, if the read fails".  For a symbol that is  *)
(* not BOOL and has no data, nullptr is dereferenced instead.              *)
(***************************************************************************)
UnreadSymbolIsMarked ==
  pc = "crashed" => ~device

=============================================================================
