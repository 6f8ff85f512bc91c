------------------------- MODULE AdsProviderProofs -------------------------
(***************************************************************************)
(* What the lookup in the answer of a sum-up read returns, for lists of    *)
(* every length, and from it proofs of the invariants of AdsProvider for   *)
(* all symbols, groups and programs of the PLC.                            *)
(***************************************************************************)
EXTENDS AdsProvider, WellFoundedInduction, TLAPS

-----------------------------------------------------------------------------
(* The lookup. *)

(* A non-empty set of positions has a least one, which FirstOf returns.    *)
LEMMA FirstOfIsLeast ==
  ASSUME NEW positions \in SUBSET Nat, positions # {}
  PROVE  /\ FirstOf(positions) \in positions
         /\ \A j \in positions : FirstOf(positions) <= j
<1>1. PICK i \in positions :
        \A j \in positions : ~ (<<j, i>> \in OpToRel(<, Nat))
  BY NatLessThanWellFounded, WFMin
<1>2. \A j \in positions : i <= j
  <2> SUFFICES ASSUME NEW j \in positions PROVE i <= j
    OBVIOUS
  <2>1. i \in Nat /\ j \in Nat
    OBVIOUS
  <2>2. ~ (j < i)
    BY <1>1, <2>1 DEF OpToRel
  <2> QED
    BY <2>1, <2>2
<1> QED
  BY <1>2 DEF FirstOf

(* The walk of the clean branch ends at a slot whose name is the one that  *)
(* was asked for, and finds one if there is one.                           *)
LEMMA CleanLookupFindsName ==
  ASSUME NEW names, NEW name, NEW addresses, NEW n \in Nat,
         DOMAIN addresses = 1..n
  PROVE  LET slot == CleanLookup(names, addresses, name)
         IN /\ slot # OutOfRange
            /\ slot # NullPtr => slot \in 1..n /\ names[slot] = name
            /\ (\E i \in 1..n : names[i] = name) => slot # NullPtr
<1> DEFINE found == {i \in DOMAIN addresses : names[i] = name}
<1>1. found \in SUBSET Nat
  OBVIOUS
<1>2. CASE found = {}
  BY <1>2 DEF CleanLookup, FirstOf, NullPtr, OutOfRange
<1>3. CASE found # {}
  <2>1. FirstOf(found) \in found
    BY <1>1, <1>3, FirstOfIsLeast
  <2> HIDE DEF found
  <2>2. FirstOf(found) \in 1..n /\ names[FirstOf(found)] = name
    BY <2>1 DEF found
  <2>3. CleanLookup(names, addresses, name) = FirstOf(found)
    BY DEF CleanLookup, found
  <2> QED
    BY <2>2, <2>3 DEF NullPtr, OutOfRange
<1> QED
  BY <1>2, <1>3

(* When every name was resolved, no name occurs twice and no two of them   *)
(* have the same address, both branches of getSymbolData find the slot of  *)
(* the name: the flag _dirtyADSCom makes a difference only for incomplete  *)
(* lists and aliased symbols.                                              *)
THEOREM LookupOfCompleteList ==
  ASSUME NEW Name, NEW names \in Seq(Name), NEW addresses \in Seq(Int),
         NEW isDirty \in BOOLEAN, NEW n \in Nat,
         Len(names) = n, Len(addresses) = n,
         \A i, j \in 1..n : names[i] = names[j] => i = j,
         \A i, j \in 1..n : addresses[i] = addresses[j] => i = j,
         NEW k \in 1..n
  PROVE  GetSymbolData(names, addresses, isDirty, names[k]) = k
<1>1. DOMAIN names = 1..n /\ DOMAIN addresses = 1..n
  OBVIOUS
<1>2. {i \in DOMAIN addresses : names[i] = names[k]} = {k}
  BY <1>1
<1>3. PositionsOf(names, names[k]) = {k}
  BY <1>1 DEF PositionsOf
<1>4. FirstOf({k}) = k
  <2>1. {k} \in SUBSET Nat /\ {k} # {}
    OBVIOUS
  <2>2. FirstOf({k}) \in {k}
    BY <2>1, FirstOfIsLeast
  <2> QED
    BY <2>2
<1>5. IndexOf(names, names[k]) = k
  BY <1>3, <1>4 DEF IndexOf
<1>6. {i \in DOMAIN addresses : addresses[i] = addresses[k]} = {k}
  BY <1>1
<1>7. CleanLookup(names, addresses, names[k]) = k
  BY <1>2, <1>4 DEF CleanLookup
<1>8. DirtyLookup(names, addresses, names[k]) = k
  <2>1. addresses # <<>> /\ ~(k > Len(addresses))
    BY <1>1
  <2> QED
    BY <1>4, <1>5, <1>6, <2>1 DEF DirtyLookup
<1> QED
  BY <1>7, <1>8 DEF GetSymbolData

-----------------------------------------------------------------------------
(* The worker. *)

(* Where the worker is between the start and the end of readGroup. *)
Reading == {"resolve", "request", "catch", "store", "metric"}

(* The groups are generated after all symbols were registered, and only    *)
(* then are groups read.                                                   *)
Registration ==
  /\ generated => registered = Symbols
  /\ pc \in Reading => generated
  /\ \A s \in Symbols : buffer[s].ok => s \in registered

(* The flag of checkADSConnection is reset only inside it, and from then   *)
(* until it returns nothing is cached.                                     *)
Waiting ==
  ~firstIteration =>
    /\ pc \in {"check", "connect", "reconnect", "invalidate"}
    /\ \A s \in Symbols : cache[s] = NoEntry

(* An entry is what some program said of its symbol. *)
IsEntryOf(entry, s) ==
  /\ entry.era \in Eras
  /\ entry.addr = Address[entry.era][s]
  /\ s \in Exported[entry.era]

CacheIsGenuine ==
  /\ resumed <= era
  /\ \A s \in Symbols : cache[s] # NoEntry => IsEntryOf(cache[s], s)

(* As long as no name was left out, entry i is that of name i. *)
ListIsAligned ==
  /\ pc \notin Reading \cup {"crashed"} => entries = <<>> /\ next = 1
  /\ pc = "resolve" => Len(entries) < next /\ next <= Len(Names) + 1
  /\ pc = "resolve" /\ Len(entries) = next - 1
       => \A i \in DOMAIN entries : IsEntryOf(entries[i], Names[i])
  /\ pc = "request" /\ Complete
       => \A i \in DOMAIN entries : IsEntryOf(entries[i], Names[i])
  /\ pc = "request" => ~dirty
  /\ pc = "catch" => verdict = "failed"
  /\ pc = "store" /\ verdict = "good" => ~dirty /\ data = Names /\ Complete

Inv ==
  /\ TypeOK
  /\ Registration
  /\ Waiting
  /\ CacheIsGenuine
  /\ ListIsAligned
  /\ OutageIsVisible
  /\ NoAddressSurvivesOutage
  /\ GoodReadIsAttributed

-----------------------------------------------------------------------------

(* A group that is read is a sequence of configured symbols. *)
LEMMA NamesType ==
  ASSUME group \in DOMAIN Groups
  PROVE  /\ Names \in Seq(Symbols)
         /\ NamesOf(group) \subseteq Symbols
         /\ Names # <<>>
BY GroupsAssumption DEF Names, NamesOf

(* An address read from the PLC gives a symbol or no data. *)
LEMMA ValueType ==
  ASSUME TypeOK, NEW addr
  PROVE  ValueAt(addr) \in Values
BY ProgramsAssumption DEF TypeOK, ValueAt, Values

(* Marking symbols as failed keeps the values and raises no flag. *)
LEMMA FailedEffect ==
  ASSUME TypeOK, NEW S
  PROVE  /\ Failed(S) \in [Symbols -> [value : Values, ok : BOOLEAN]]
         /\ \A s \in Symbols : /\ Failed(S)[s].value = buffer[s].value
                               /\ Failed(S)[s].ok => buffer[s].ok
                               /\ s \in S => ~Failed(S)[s].ok
<1>1. buffer \in [Symbols -> [value : Values, ok : BOOLEAN]]
  BY DEF TypeOK
<1>2. \A s \in Symbols : /\ buffer[s].value \in Values
                         /\ buffer[s].ok \in BOOLEAN
  BY <1>1
<1> QED
  BY <1>2 DEF Failed

(* What Resolve appends and caches. *)
LEMMA ResolveEffect ==
  ASSUME TypeOK, Resolve
  PROVE  /\ next' = next + 1
         /\ next \in DOMAIN Names
         /\ Names \in Seq(Symbols)
         /\ \/ entries' = entries /\ cache' = cache
            \/ \E entry \in Entry :
                 /\ entries' = Append(entries, entry)
                 /\ cache' = [cache EXCEPT ![Names[next]] = entry]
                 /\ \/ entry = cache[Names[next]] /\ entry # NoEntry
                    \/ IsEntryOf(entry, Names[next]) /\ entry.era = era
<1>1. /\ Names \in Seq(Symbols) /\ next \in DOMAIN Names
      /\ Names[next] \in Symbols
  BY NamesType DEF Resolve, TypeOK
<1> DEFINE s == Names[next]
<1>2. CASE cache[s] # NoEntry /\ ResolveFrom(s, cache[s])
  BY <1>1, <1>2 DEF Resolve, ResolveFrom, TypeOK
<1>3. CASE /\ cache[s] = NoEntry /\ plc # "down" /\ s \in Exported[era]
           /\ ResolveFrom(s, [addr |-> Address[era][s], era |-> era])
  <2>1. [addr |-> Address[era][s], era |-> era] \in Entry
    BY <1>1, ProgramsAssumption DEF TypeOK, Entry
  <2> QED
    BY <1>1, <1>3, <2>1 DEF Resolve, ResolveFrom, TypeOK, IsEntryOf
<1>4. CASE entries' = entries /\ cache' = cache
  BY <1>1, <1>4 DEF Resolve
<1> QED
  BY <1>2, <1>3, <1>4 DEF Resolve

(* Typing: every variable keeps its type. *)
LEMMA TypeStep == TypeOK /\ [Next]_vars => TypeOK'
<1> SUFFICES ASSUME TypeOK, [Next]_vars PROVE TypeOK'
  OBVIOUS
<1> USE DEF plcVars, mainVars, listVars
<1>e. \A S : Failed(S) \in [Symbols -> [value : Values, ok : BOOLEAN]]
  BY FailedEffect
<1>n. NoEntry \in Entry
  BY DEF NoEntry, Entry
<1>1. ASSUME NEW state \in {"run", "stop", "down"}, PlcChanges(state)
      PROVE  TypeOK'
  BY <1>1 DEF PlcChanges, TypeOK
<1>2. CASE Download
  BY <1>2 DEF Download, TypeOK
<1>3. ASSUME NEW g \in DOMAIN Groups, ScrapingTimePasses(g)
      PROVE  TypeOK'
  BY <1>3 DEF ScrapingTimePasses, TypeOK
<1>4. ASSUME NEW s \in Symbols, AddSymbol(s)
      PROVE  TypeOK'
  BY <1>4 DEF AddSymbol, TypeOK
<1>5. CASE GenerateReadGroups
  BY <1>5 DEF GenerateReadGroups, TypeOK
<1>6. CASE StartPass \/ SkipGroup \/ StartGroup \/ EndPass
  BY <1>6 DEF StartPass, SkipGroup, StartGroup, EndPass, TypeOK
<1>7. CASE Resolve
  <2>s. entries \in Seq(Entry) /\ cache \in [Symbols -> Entry]
    BY DEF TypeOK
  <2>1. /\ entries' \in Seq(Entry) /\ cache' \in [Symbols -> Entry]
        /\ next' \in Nat
    <3>1. ASSUME entries' = entries, cache' = cache
          PROVE  entries' \in Seq(Entry) /\ cache' \in [Symbols -> Entry]
      BY <2>s, <3>1
    <3>2. ASSUME NEW entry \in Entry,
                 entries' = Append(entries, entry),
                 cache' = [cache EXCEPT ![Names[next]] = entry]
          PROVE  entries' \in Seq(Entry) /\ cache' \in [Symbols -> Entry]
      <4>1. entries' \in Seq(Entry)
        BY <2>s, <3>2
      <4>2. cache' \in [Symbols -> Entry]
        BY <2>s, <3>2
      <4> QED
        BY <4>1, <4>2
    <3>3. next' \in Nat
      BY <1>7 DEF Resolve, TypeOK
    <3> QED
      BY <1>7, <3>1, <3>2, <3>3, ResolveEffect
  <2> QED
    BY <1>7, <2>1 DEF Resolve, TypeOK
<1>8. CASE EndResolve
  <2>1. data' \in Seq(Values)
    BY <1>8 DEF EndResolve, TypeOK, Values
  <2> QED
    BY <1>8, <2>1 DEF EndResolve, TypeOK
<1>9. CASE RequestSucceeds
  <2>1. data' \in Seq(Values)
    <3>1. /\ DOMAIN entries = 1..Len(entries)
          /\ Len(entries) \in Nat
      BY DEF TypeOK
    <3>2. data' = [i \in 1..Len(entries) |-> ValueAt(entries[i].addr)]
      BY <1>9, <3>1 DEF RequestSucceeds
    <3>3. \A i \in 1..Len(entries) : ValueAt(entries[i].addr) \in Values
      BY ValueType
    <3> QED
      BY <3>1, <3>2, <3>3
  <2> QED
    BY <1>9, <2>1 DEF RequestSucceeds, TypeOK, Verdicts
<1>10. CASE RequestFails
  <2>1. data' \in Seq(Values)
    BY <1>10, ValueType DEF RequestFails, TypeOK, Values
  <2> QED
    BY <1>10, <2>1 DEF RequestFails, TypeOK, Verdicts
<1>11. CASE CatchAdsException
  BY <1>11, <1>e, <1>n DEF CatchAdsException, TypeOK
<1>12. CASE Store
  <2> DEFINE s == Names[next]
             slot == GetSymbolData(Names, Addresses, dirty, s)
  <2>1. s \in Symbols
    BY <1>12, NamesType DEF Store, TypeOK
  <2>2. buffer' \in [Symbols -> [value : Values, ok : BOOLEAN]]
    <3>1. CASE slot \in DOMAIN data
               /\ buffer' = [buffer EXCEPT ![s] = [value |-> data[slot],
                                                  ok |-> TRUE]]
      <4>1. data[slot] \in Values
        BY <3>1 DEF TypeOK
      <4>2. [value |-> data[slot], ok |-> TRUE]
               \in [value : Values, ok : BOOLEAN]
        BY <4>1
      <4> QED
        BY <2>1, <3>1, <4>2 DEF TypeOK
    <3>2. CASE buffer' = Failed({s})
      BY <3>2, <1>e
    <3>3. CASE buffer' = buffer
      BY <3>3 DEF TypeOK
    <3> QED
      BY <1>12, <3>1, <3>2, <3>3 DEF Store
  <2>3. attempt' \in [Symbols -> Verdicts]
    BY <1>12, <2>1 DEF Store, TypeOK
  <2>4. pc' \in {pc, "crashed"}
    BY <1>12 DEF Store
  <2>5. next' \in Nat
    BY <1>12 DEF Store, TypeOK
  <2> QED
    BY <1>12, <2>2, <2>3, <2>4, <2>5 DEF Store, TypeOK
<1>13. CASE EndStore
  BY <1>13 DEF EndStore, TypeOK
<1>14. CASE InsertReadGroupMetric
  <2>1. group \in DOMAIN Groups
    BY <1>14 DEF InsertReadGroupMetric, TypeOK
  <2>2. metrics' \in [DOMAIN Groups -> {"none", "yes", "no"}]
    BY <1>14, <2>1 DEF InsertReadGroupMetric, TypeOK
  <2>3. due' \in [DOMAIN Groups -> BOOLEAN]
    BY <1>14, <2>1 DEF InsertReadGroupMetric, TypeOK
  <2>4. entries' \in Seq(Entry) /\ data' \in Seq(Values)
    BY <1>14 DEF InsertReadGroupMetric
  <2>5. /\ pc' = "groups" /\ group' \in Nat /\ next' \in Nat
        /\ dirty' \in BOOLEAN /\ verdict' \in Verdicts
    <3>1. group \in Nat /\ group' = group + 1
      BY <1>14 DEF InsertReadGroupMetric, TypeOK
    <3>2. pc' = "groups" /\ next' = 1 /\ verdict' = "none"
      BY <1>14 DEF InsertReadGroupMetric
    <3>3. dirty' \in BOOLEAN
      BY <1>14, Zenon DEF InsertReadGroupMetric
    <3>4. group' \in Nat /\ next' \in Nat
      BY <3>1, <3>2
    <3>5. verdict' \in Verdicts
      BY <3>2 DEF Verdicts
    <3> QED
      BY <3>2, <3>3, <3>4, <3>5
  <2>6. UNCHANGED <<plcVars, mainVars, device, firstIteration, cache, buffer,
                    attempt, resumed>>
    BY <1>14 DEF InsertReadGroupMetric
  <2>7. /\ plc' \in {"run", "stop", "down"} /\ era' \in Eras
        /\ registered' \subseteq Symbols /\ generated' \in BOOLEAN
        /\ device' \in BOOLEAN /\ firstIteration' \in BOOLEAN
        /\ resumed' \in Eras
    BY <2>6 DEF TypeOK
  <2>8. /\ cache' \in [Symbols -> Entry]
        /\ attempt' \in [Symbols -> Verdicts]
    BY <2>6 DEF TypeOK
  <2>9. buffer' \in [Symbols -> [value : Values, ok : BOOLEAN]]
    BY <2>6 DEF TypeOK
  <2> QED
    BY <2>2, <2>3, <2>4, <2>5, <2>7, <2>8, <2>9 DEF TypeOK
<1>15. CASE NoDevice \/ GetStateFails
  <2>1. buffer' \in [Symbols -> [value : Values, ok : BOOLEAN]]
    BY <1>15, <1>e DEF NoDevice, GetStateFails
  <2>2. CASE NoDevice
    BY <2>1, <2>2 DEF NoDevice, TypeOK
  <2>3. CASE GetStateFails
    BY <2>1, <2>3 DEF GetStateFails, TypeOK
  <2> QED
    BY <1>15, <2>2, <2>3
<1>16. CASE FirstConnect \/ StateIsRun \/ StateIsNotRun \/ Reconnect
  BY <1>16 DEF FirstConnect, StateIsRun, StateIsNotRun, Reconnect, TypeOK
<1>17. CASE Invalidate
  BY <1>17, <1>e, <1>n DEF Invalidate, TypeOK
<1>18. CASE UNCHANGED vars
  BY <1>18 DEF vars, TypeOK, Verdicts
<1> QED
  BY <1>1, <1>2, <1>3, <1>4, <1>5, <1>6, <1>7, <1>8, <1>9, <1>10, <1>11,
     <1>12, <1>13, <1>14, <1>15, <1>16, <1>17, <1>18
     DEF Next, Worker, Main, Environment

LEMMA TypeInit == Init => TypeOK
<1> SUFFICES ASSUME Init PROVE TypeOK
  OBVIOUS
<1>1. NoEntry \in Entry
  BY DEF NoEntry, Entry
<1>2. buffer \in [Symbols -> [value : Values, ok : BOOLEAN]]
  BY DEF Init, Values
<1>3. cache \in [Symbols -> Entry]
  BY <1>1 DEF Init
<1>4. plc \in {"run", "stop", "down"} /\ device \in BOOLEAN
  BY DEF Init
<1>5. attempt \in [Symbols -> Verdicts]
  BY DEF Init, Verdicts
<1>6. era \in Eras /\ resumed \in Eras
  BY ProgramsAssumption DEF Init
<1>7. /\ due \in [DOMAIN Groups -> BOOLEAN]
      /\ metrics \in [DOMAIN Groups -> {"none", "yes", "no"}]
  BY DEF Init
<1>8. entries \in Seq(Entry) /\ data \in Seq(Values)
  BY DEF Init
<1>9. /\ registered \subseteq Symbols /\ generated \in BOOLEAN
      /\ firstIteration \in BOOLEAN /\ dirty \in BOOLEAN
      /\ group \in Nat /\ next \in Nat /\ verdict \in Verdicts
  BY DEF Init, Verdicts
<1>10. pc = "poll"
  BY DEF Init
<1> QED
  BY <1>2, <1>3, <1>4, <1>5, <1>6, <1>7, <1>8, <1>9, <1>10 DEF TypeOK

(* Every variable of the worker always holds a value of its type, for all  *)
(* configurations of symbols and groups and all programs of the PLC.       *)
THEOREM TypeCorrect == Spec => []TypeOK
BY TypeInit, TypeStep, PTL DEF Spec

-----------------------------------------------------------------------------

(* Only Store raises a flag or changes a value; every other step keeps the *)
(* value and can only lower the flag.                                      *)
LEMMA FlagsOnlyFall ==
  ASSUME TypeOK, [Next]_vars, ~Store
  PROVE  /\ attempt' = attempt
         /\ \A s \in Symbols : /\ buffer'[s].value = buffer[s].value
                               /\ buffer'[s].ok => buffer[s].ok
<1> USE DEF plcVars, mainVars, listVars
<1>1. CASE attempt' = attempt /\ buffer' = buffer
  BY <1>1
<1>2. CASE attempt' = attempt /\ \E S : buffer' = Failed(S)
  BY <1>2, FailedEffect
<1>3. CASE CatchAdsException \/ NoDevice \/ GetStateFails \/ Invalidate
  BY <1>1, <1>2, <1>3
     DEF CatchAdsException, NoDevice, GetStateFails, Invalidate
<1>4. CASE StartPass \/ SkipGroup \/ StartGroup \/ EndPass \/ Resolve
             \/ EndResolve \/ RequestSucceeds \/ RequestFails \/ EndStore
             \/ InsertReadGroupMetric
  BY <1>1, <1>4
     DEF StartPass, SkipGroup, StartGroup, EndPass, Resolve, EndResolve,
         RequestSucceeds, RequestFails, EndStore, InsertReadGroupMetric
<1>5. CASE FirstConnect \/ StateIsRun \/ StateIsNotRun \/ Reconnect
  BY <1>1, <1>5 DEF FirstConnect, StateIsRun, StateIsNotRun, Reconnect
<1>6. CASE Main
  BY <1>1, <1>6 DEF Main, GenerateReadGroups, AddSymbol
<1>7. CASE Environment
  BY <1>1, <1>7 DEF Environment, PlcChanges, Download, ScrapingTimePasses
<1>8. CASE UNCHANGED vars
  BY <1>1, <1>8 DEF vars
<1> QED
  BY <1>3, <1>4, <1>5, <1>6, <1>7, <1>8 DEF Next, Worker

(* Registration: what is read was registered. *)
LEMMA RegistrationStep ==
  ASSUME TypeOK, Registration, [Next]_vars
  PROVE  Registration'
<1> USE DEF plcVars, mainVars, listVars, Registration
<1>1. /\ generated' => registered' = Symbols
      /\ registered \subseteq registered'
      /\ generated => generated'
  <2>1. CASE Main
    BY <2>1 DEF Main, GenerateReadGroups, AddSymbol
  <2>2. CASE UNCHANGED <<registered, generated>>
    BY <2>2
  <2> QED
    BY <2>1, <2>2
       DEF vars, Next, Worker, Environment, PlcChanges, Download,
           ScrapingTimePasses, StartPass, SkipGroup, StartGroup, EndPass,
           Resolve, EndResolve, RequestSucceeds, RequestFails,
           CatchAdsException, Store, EndStore, InsertReadGroupMetric,
           NoDevice, FirstConnect, StateIsRun, StateIsNotRun, GetStateFails,
           Reconnect, Invalidate
<1>2. pc' \in Reading => pc \in Reading \/ generated
  BY DEF vars, Next, Worker, Main, Environment, PlcChanges, Download,
         ScrapingTimePasses, GenerateReadGroups, AddSymbol, StartPass,
         SkipGroup, StartGroup, EndPass, Resolve, EndResolve,
         RequestSucceeds, RequestFails, CatchAdsException, Store, EndStore,
         InsertReadGroupMetric, NoDevice, FirstConnect, StateIsRun,
         StateIsNotRun, GetStateFails, Reconnect, Invalidate, Reading
<1>3. \A s \in Symbols : buffer'[s].ok => s \in registered'
  <2>1. CASE Store
    BY <1>1, <2>1 DEF Store, Reading
  <2>2. CASE ~Store
    BY <1>1, <2>2, FlagsOnlyFall
  <2> QED
    BY <2>1, <2>2
<1> QED
  BY <1>1, <1>2, <1>3

(* Waiting: nothing is cached between the first iteration of               *)
(* setAllVariablesToInvalid and the return of checkADSConnection.          *)
LEMMA WaitingStep ==
  ASSUME TypeOK, Waiting, [Next]_vars
  PROVE  Waiting'
<1> USE DEF plcVars, mainVars, listVars
<1>1. CASE Invalidate
  BY <1>1 DEF Invalidate, Waiting
<1>2. CASE StateIsRun
  BY <1>2 DEF StateIsRun, Waiting
<1>3. CASE firstIteration /\ firstIteration'
  BY <1>3 DEF Waiting
<1>4. CASE /\ ~firstIteration /\ cache' = cache
           /\ pc' \in {"check", "connect", "reconnect", "invalidate"}
  BY <1>4 DEF Waiting
<1>5. CASE NoDevice \/ FirstConnect \/ StateIsNotRun \/ GetStateFails
             \/ Reconnect
  BY <1>3, <1>4, <1>5
     DEF NoDevice, FirstConnect, StateIsNotRun, GetStateFails, Reconnect,
         TypeOK
<1>6. CASE StartPass \/ SkipGroup \/ StartGroup \/ EndPass \/ Resolve
             \/ EndResolve \/ RequestSucceeds \/ RequestFails
             \/ CatchAdsException \/ Store \/ EndStore
             \/ InsertReadGroupMetric
  <2>1. firstIteration' = firstIteration
        /\ pc \in Reading \cup {"poll", "groups"}
    BY <1>6
       DEF StartPass, SkipGroup, StartGroup, EndPass, Resolve, EndResolve,
           RequestSucceeds, RequestFails, CatchAdsException, Store, EndStore,
           InsertReadGroupMetric, Reading
  <2>2. firstIteration
    BY <2>1 DEF Waiting, Reading
  <2> QED
    BY <1>3, <2>1, <2>2
<1>7. CASE Main \/ Environment
  BY <1>7 DEF Main, GenerateReadGroups, AddSymbol, Environment, PlcChanges,
              Download, ScrapingTimePasses, Waiting
<1>8. CASE UNCHANGED vars
  BY <1>8 DEF vars, Waiting
<1> QED
  BY <1>1, <1>2, <1>5, <1>6, <1>7, <1>8 DEF Next, Worker

(* What a step does to one cache entry: it empties it, keeps it, or fills  *)
(* it with the address that the running program has for the symbol.        *)
LEMMA CacheChange ==
  ASSUME TypeOK, [Next]_vars, NEW s \in Symbols
  PROVE  \/ cache'[s] = NoEntry
         \/ cache'[s] = cache[s]
         \/ /\ Resolve
            /\ IsEntryOf(cache'[s], s)
            /\ cache'[s].era = era
<1> USE DEF plcVars, mainVars, listVars
<1>1. CASE cache' = cache
  BY <1>1
<1>2. CASE cache' = [r \in Symbols |-> NoEntry]
  BY <1>2
<1>3. CASE Resolve
  <2>1. ASSUME NEW entry \in Entry,
               cache' = [cache EXCEPT ![Names[next]] = entry],
               \/ entry = cache[Names[next]]
               \/ IsEntryOf(entry, Names[next]) /\ entry.era = era
        PROVE  \/ cache'[s] = cache[s]
               \/ IsEntryOf(cache'[s], s) /\ cache'[s].era = era
    <3>1. cache \in [Symbols -> Entry]
      BY DEF TypeOK
    <3>2. cache'[s] = IF s = Names[next] THEN entry ELSE cache[s]
      BY <2>1, <3>1
    <3> QED
      BY <2>1, <3>2
  <2> QED
    BY <1>3, <2>1, ResolveEffect
<1>4. CASE CatchAdsException \/ Invalidate
  BY <1>1, <1>2, <1>4 DEF CatchAdsException, Invalidate
<1>5. CASE StartPass \/ SkipGroup \/ StartGroup \/ EndPass \/ EndResolve
             \/ RequestSucceeds \/ RequestFails \/ Store \/ EndStore
             \/ InsertReadGroupMetric
  BY <1>1, <1>5
     DEF StartPass, SkipGroup, StartGroup, EndPass, EndResolve,
         RequestSucceeds, RequestFails, Store, EndStore,
         InsertReadGroupMetric
<1>6. CASE NoDevice \/ FirstConnect \/ StateIsRun \/ StateIsNotRun
             \/ GetStateFails \/ Reconnect
  BY <1>1, <1>6
     DEF NoDevice, FirstConnect, StateIsRun, StateIsNotRun, GetStateFails,
         Reconnect
<1>7. CASE Main \/ Environment
  BY <1>1, <1>7 DEF Main, GenerateReadGroups, AddSymbol, Environment,
                    PlcChanges, Download, ScrapingTimePasses
<1>8. CASE UNCHANGED vars
  BY <1>1, <1>8 DEF vars
<1> QED
  BY <1>3, <1>4, <1>5, <1>6, <1>7, <1>8 DEF Next, Worker

(* What a step does to the programs: a new one is downloaded, or the       *)
(* worker resumes with the running one, or neither.                        *)
LEMMA EraChange ==
  ASSUME TypeOK, [Next]_vars
  PROVE  \/ era' = era /\ resumed' = resumed
         \/ era' = era + 1 /\ resumed' = resumed
         \/ /\ era' = era /\ resumed' = era /\ cache' = cache
            /\ ~firstIteration
<1> USE DEF plcVars, mainVars, listVars
<1>1. CASE Download
  BY <1>1 DEF Download
<1>2. CASE StateIsRun
  BY <1>2 DEF StateIsRun
<1>3. CASE era' = era /\ resumed' = resumed
  BY <1>3
<1> QED
  BY <1>1, <1>2, <1>3
     DEF vars, Next, Worker, Main, Environment, PlcChanges,
         ScrapingTimePasses, GenerateReadGroups, AddSymbol, StartPass,
         SkipGroup, StartGroup, EndPass, Resolve, EndResolve,
         RequestSucceeds, RequestFails, CatchAdsException, Store, EndStore,
         InsertReadGroupMetric, NoDevice, FirstConnect, StateIsNotRun,
         GetStateFails, Reconnect, Invalidate

(* CacheIsGenuine: cached addresses are the symbol's own in some program.  *)
LEMMA CacheStep ==
  ASSUME TypeOK, CacheIsGenuine, [Next]_vars
  PROVE  CacheIsGenuine'
<1>1. resumed' <= era'
  <2>1. /\ era \in Nat /\ resumed \in Nat /\ resumed <= era
    BY ProgramsAssumption DEF TypeOK, CacheIsGenuine
  <2> QED
    BY <2>1, EraChange
<1>2. ASSUME NEW s \in Symbols, cache'[s] # NoEntry
      PROVE  IsEntryOf(cache'[s], s)
  BY <1>2, CacheChange DEF CacheIsGenuine
<1> QED
  BY <1>1, <1>2 DEF CacheIsGenuine, IsEntryOf

(* NoAddressSurvivesOutage: the cache is empty when the worker resumes.    *)
LEMMA OutageStep ==
  ASSUME TypeOK, Waiting, CacheIsGenuine, NoAddressSurvivesOutage,
         [Next]_vars
  PROVE  NoAddressSurvivesOutage'
<1> SUFFICES ASSUME NEW s \in Symbols, cache'[s] # NoEntry
             PROVE  cache'[s].era >= resumed'
  BY DEF NoAddressSurvivesOutage
<1>1. CASE ~firstIteration /\ cache' = cache
  BY <1>1 DEF Waiting
<1>2. CASE resumed' = resumed
  <2>1. era \in Nat /\ resumed \in Nat /\ resumed <= era
    BY ProgramsAssumption DEF TypeOK, CacheIsGenuine
  <2>2. CASE cache'[s] = cache[s]
    BY <1>2, <2>2 DEF NoAddressSurvivesOutage
  <2>3. CASE cache'[s].era = era
    BY <1>2, <2>1, <2>3
  <2> QED
    BY <2>2, <2>3, CacheChange
<1> QED
  BY <1>1, <1>2, EraChange

(* OutageIsVisible: no flag is up when the worker starts to wait, and      *)
(* while it waits it does not store.                                       *)
LEMMA VisibleStep ==
  ASSUME TypeOK, Registration, Waiting, OutageIsVisible, [Next]_vars
  PROVE  OutageIsVisible'
<1> USE DEF plcVars, mainVars, listVars
<1> DEFINE Dark == \A s \in Symbols : ~buffer[s].ok
           Lost == pc \in {"reconnect", "connect"} \/ ~firstIteration
<1>1. buffer' = Failed(registered) => Dark'
  BY FailedEffect DEF Registration
<1>2. Lost => Dark /\ ~Store
  BY DEF OutageIsVisible, Waiting, Store
<1>3. Dark /\ ~Store => Dark'
  BY FlagsOnlyFall
<1>4. Lost' => Lost \/ buffer' = Failed(registered)
  BY DEF vars, Next, Worker, Main, Environment, PlcChanges, Download,
         ScrapingTimePasses, GenerateReadGroups, AddSymbol, StartPass,
         SkipGroup, StartGroup, EndPass, Resolve, EndResolve,
         RequestSucceeds, RequestFails, CatchAdsException, Store, EndStore,
         InsertReadGroupMetric, NoDevice, FirstConnect, StateIsRun,
         StateIsNotRun, GetStateFails, Reconnect, Invalidate
<1>5. Lost' => Dark'
  BY <1>1, <1>2, <1>3, <1>4
<1> QED
  BY <1>5 DEF OutageIsVisible

(* An address that the running program gave for a symbol still yields it.  *)
LEMMA ValueOfEntry ==
  ASSUME TypeOK, NEW s \in Symbols, NEW entry, IsEntryOf(entry, s),
         entry.era = era
  PROVE  ValueAt(entry.addr) = s
<1>1. /\ s \in Exported[era] /\ Address[era][s] = entry.addr
      /\ Exported[era] \subseteq Symbols /\ era \in Eras
  BY ProgramsAssumption DEF IsEntryOf, TypeOK
<1>2. \A r \in Exported[era] : Address[era][r] = entry.addr => r = s
  BY <1>1, ProgramsAssumption
<1> QED
  BY <1>1, <1>2 DEF ValueAt

(* ListIsAligned, while names are resolved. *)
LEMMA ResolveAligned ==
  ASSUME TypeOK, CacheIsGenuine, ListIsAligned, Resolve
  PROVE  ListIsAligned'
<1> DEFINE Aligned(list) == \A i \in DOMAIN list : IsEntryOf(list[i], Names[i])
<1>1. /\ pc = "resolve" /\ pc' = "resolve" /\ group' = group
      /\ next \in DOMAIN Names /\ next' = next + 1
  BY DEF Resolve
<1>2. Names \in Seq(Symbols) /\ Names' = Names
  BY <1>1, ResolveEffect DEF Names
<1>3. /\ entries \in Seq(Entry) /\ Len(entries) \in Nat /\ next \in Nat
      /\ Len(entries) < next
      /\ Len(entries) = next - 1 => Aligned(entries)
  BY <1>1 DEF TypeOK, ListIsAligned
<1>4. Names[next] \in Symbols /\ next <= Len(Names) /\ Len(Names) \in Nat
  BY <1>1, <1>2
<1>5. next' <= Len(Names') + 1
  BY <1>1, <1>2, <1>3, <1>4
<1>6. CASE entries' = entries
  <2>1. Len(entries') < next' /\ Len(entries') # next' - 1
    BY <1>1, <1>3, <1>6
  <2> QED
    BY <1>1, <1>5, <2>1 DEF ListIsAligned, Reading
<1>7. ASSUME NEW entry \in Entry,
             entries' = Append(entries, entry),
             IsEntryOf(entry, Names[next])
      PROVE  ListIsAligned'
  <2>1. /\ Len(entries') = Len(entries) + 1
        /\ DOMAIN entries' = 1..(Len(entries) + 1)
        /\ \A i \in 1..Len(entries) : entries'[i] = entries[i]
        /\ entries'[Len(entries) + 1] = entry
    BY <1>3, <1>7
  <2>2. Len(entries') < next'
    BY <1>1, <1>3, <2>1
  <2>3. ASSUME Len(entries') = next' - 1
        PROVE  Aligned(entries')
    <3>1. Len(entries) + 1 = next
      BY <1>1, <1>3, <2>1, <2>3
    <3>2. Aligned(entries) /\ DOMAIN entries = 1..Len(entries)
      BY <1>3, <3>1
    <3>3. ASSUME NEW i \in DOMAIN entries'
          PROVE  IsEntryOf(entries'[i], Names[i])
      <4>1. CASE i \in 1..Len(entries)
        BY <2>1, <3>2, <4>1
      <4>2. CASE i = Len(entries) + 1
        BY <1>7, <2>1, <3>1, <4>2
      <4> QED
        BY <1>3, <2>1, <3>3, <4>1, <4>2
    <3> QED
      BY <3>3
  <2>4. Len(entries') = next' - 1
          => \A i \in DOMAIN entries' : IsEntryOf(entries'[i], Names'[i])
    BY <1>2, <2>3
  <2> QED
    BY <1>1, <1>5, <2>2, <2>4 DEF ListIsAligned, Reading, IsEntryOf
<1>8. \A s \in Symbols : cache[s] # NoEntry => IsEntryOf(cache[s], s)
  BY DEF CacheIsGenuine
<1> QED
  BY <1>4, <1>6, <1>7, <1>8, ResolveEffect

(* ListIsAligned, when the answer comes: slot i holds the data of name i.  *)
LEMMA AnswerAligned ==
  ASSUME TypeOK, ListIsAligned, RequestSucceeds
  PROVE  ListIsAligned'
<1>1. /\ pc = "request" /\ pc' = "store" /\ group' = group
      /\ entries' = entries
      /\ data' = [i \in DOMAIN entries |-> ValueAt(entries[i].addr)]
  BY DEF RequestSucceeds
<1>2. ~dirty' /\ Names' = Names
  BY <1>1 DEF RequestSucceeds, ListIsAligned, Names
<1>3. ASSUME verdict' = "good"
      PROVE  data' = Names /\ Complete
  <2>1. Complete /\ \A i \in DOMAIN entries : entries[i].era = era
    BY <1>3 DEF RequestSucceeds
  <2>2. \A i \in DOMAIN entries : IsEntryOf(entries[i], Names[i])
    BY <1>1, <2>1 DEF ListIsAligned
  <2>3. Names \in Seq(Symbols) /\ entries \in Seq(Entry)
    BY <1>1, NamesType DEF TypeOK
  <2>4. DOMAIN entries = DOMAIN Names
    BY <2>1, <2>3 DEF Complete
  <2>5. \A i \in DOMAIN entries : ValueAt(entries[i].addr) = Names[i]
    BY <2>1, <2>2, <2>3, <2>4, ValueOfEntry
  <2>6. data' = [i \in DOMAIN Names |-> Names[i]]
    BY <1>1, <2>4, <2>5
  <2> QED
    BY <2>1, <2>3, <2>6
<1>4. verdict' = "good" => ~dirty' /\ data' = Names' /\ Complete'
  BY <1>1, <1>2, <1>3 DEF Complete
<1> QED
  BY <1>1, <1>4 DEF ListIsAligned, Reading

LEMMA ListStep ==
  ASSUME TypeOK, CacheIsGenuine, ListIsAligned, [Next]_vars
  PROVE  ListIsAligned'
<1> USE DEF plcVars, mainVars, listVars
<1>1. CASE Resolve
  BY <1>1, ResolveAligned
<1>2. CASE RequestSucceeds
  BY <1>2, AnswerAligned
<1>3. CASE StartGroup
  <2>1. /\ pc = "groups" /\ pc' \in {"resolve", "crashed"}
        /\ group' = group /\ group \in DOMAIN Groups
        /\ entries' = entries /\ next' = next
    BY <1>3 DEF StartGroup
  <2>2. entries = <<>> /\ next = 1
    BY <2>1 DEF ListIsAligned, Reading
  <2>3. Names' = Names /\ Len(Names) \in Nat
    BY <2>1, NamesType DEF Names
  <2>4. /\ Len(entries') < next' /\ next' <= Len(Names') + 1
        /\ DOMAIN entries' = {}
    BY <2>1, <2>2, <2>3
  <2> QED
    BY <2>1, <2>4 DEF ListIsAligned, Reading
<1>4. CASE EndResolve
  <2>1. /\ pc = "resolve" /\ pc' = "request" /\ group' = group
        /\ entries' = entries /\ ~dirty' /\ next \notin DOMAIN Names
    BY <1>4 DEF EndResolve
  <2>2. Names' = Names /\ Names \in Seq(Symbols)
    BY <2>1, NamesType DEF Names, TypeOK
  <2>3. /\ Len(entries) < next /\ next <= Len(Names) + 1 /\ next \in Nat
        /\ Len(entries) \in Nat
    BY <2>1 DEF ListIsAligned, TypeOK
  <2>4. next = Len(Names) + 1
    BY <2>1, <2>2, <2>3
  <2>5. Complete => \A i \in DOMAIN entries : IsEntryOf(entries[i], Names[i])
    BY <2>1, <2>2, <2>3, <2>4 DEF Complete, ListIsAligned
  <2>6. Complete' => \A i \in DOMAIN entries' :
                       IsEntryOf(entries'[i], Names'[i])
    BY <2>1, <2>2, <2>5 DEF Complete
  <2> QED
    BY <2>1, <2>6 DEF ListIsAligned, Reading, IsEntryOf
<1>5. CASE RequestFails \/ CatchAdsException
  BY <1>5 DEF RequestFails, CatchAdsException, ListIsAligned, Reading
<1>6. CASE InsertReadGroupMetric
  BY <1>6 DEF InsertReadGroupMetric, ListIsAligned, Reading
<1>7. CASE Store \/ EndStore
  <2>1. /\ pc = "store" /\ pc' \in {"store", "metric", "crashed"}
        /\ UNCHANGED <<group, entries, data, dirty, verdict>>
    BY <1>7 DEF Store, EndStore
  <2>2. Names' = Names /\ (Complete => Complete')
    BY <2>1 DEF Names, Complete
  <2> QED
    BY <2>1, <2>2 DEF ListIsAligned, Reading
<1>8. CASE StartPass \/ SkipGroup \/ EndPass \/ NoDevice \/ FirstConnect
             \/ StateIsRun \/ StateIsNotRun \/ GetStateFails \/ Reconnect
             \/ Invalidate
  <2>1. /\ pc \notin Reading \cup {"crashed"}
        /\ pc' \notin Reading \cup {"crashed"}
        /\ entries' = entries /\ next' = next
    BY <1>8
       DEF StartPass, SkipGroup, EndPass, NoDevice, FirstConnect,
           StateIsRun, StateIsNotRun, GetStateFails, Reconnect, Invalidate,
           Reading
  <2> QED
    BY <2>1 DEF ListIsAligned, Reading
<1>9. ASSUME UNCHANGED <<pc, group, listVars>>
      PROVE  ListIsAligned'
  <2>1. Names' = Names /\ Complete' = Complete
    BY <1>9 DEF Names, Complete
  <2> QED
    BY <1>9, <2>1 DEF ListIsAligned, IsEntryOf
<1>10. CASE Main \/ Environment \/ UNCHANGED vars
  <2>1. UNCHANGED <<pc, group, listVars>>
    BY <1>10 DEF vars, Main, GenerateReadGroups, AddSymbol, Environment,
                 PlcChanges, Download, ScrapingTimePasses
  <2> QED
    BY <1>9, <2>1
<1> QED
  BY <1>1, <1>2, <1>3, <1>4, <1>5, <1>6, <1>7, <1>8, <1>10 DEF Next, Worker

(* After a good read, Store publishes the name's own data.                 *)
LEMMA GoodStore ==
  ASSUME TypeOK, ListIsAligned, Store, verdict = "good"
  PROVE  buffer' = [buffer EXCEPT ![Names[next]] =
                      [value |-> Names[next], ok |-> TRUE]]
<1> DEFINE s == Names[next]
           slot == GetSymbolData(Names, Addresses, dirty, s)
<1>1. /\ pc = "store" /\ next \in DOMAIN Names /\ group \in DOMAIN Groups
  BY DEF Store, TypeOK
<1>2. ~dirty /\ data = Names /\ Len(entries) = Len(Names)
  BY <1>1 DEF ListIsAligned, Complete
<1>3. Names \in Seq(Symbols) /\ entries \in Seq(Entry)
  BY <1>1, NamesType DEF TypeOK
<1> DEFINE n == Len(Names)
<1>4. n \in Nat /\ DOMAIN Names = 1..n /\ DOMAIN entries = 1..n
  BY <1>2, <1>3
<1>5. DOMAIN Addresses = 1..n
  BY <1>4 DEF Addresses
<1>6. slot = CleanLookup(Names, Addresses, s)
  BY <1>2 DEF GetSymbolData
<1> HIDE DEF n, slot
<1>7. /\ slot # OutOfRange /\ slot # NullPtr
      /\ slot \in 1..n /\ Names[slot] = s
  BY <1>1, <1>4, <1>5, <1>6, CleanLookupFindsName
<1>8. buffer' = [buffer EXCEPT ![s] = [value |-> data[slot], ok |-> TRUE]]
  BY <1>7 DEF Store, slot
<1> QED
  BY <1>2, <1>7, <1>8

(* GoodReadIsAttributed: nothing but Store publishes, and it publishes the *)
(* symbol's own data after a good read.                                    *)
LEMMA GoodStep ==
  ASSUME TypeOK, ListIsAligned, GoodReadIsAttributed, [Next]_vars
  PROVE  GoodReadIsAttributed'
<1>1. CASE ~Store
  BY <1>1, FlagsOnlyFall DEF GoodReadIsAttributed
<1>2. CASE Store
  <2> DEFINE s == Names[next]
  <2>1. s \in Symbols
    BY <1>2, NamesType DEF Store, TypeOK
  <2>2. \A r \in Symbols \ {s} :
          /\ attempt'[r] = attempt[r]
          /\ buffer'[r].value = buffer[r].value
          /\ buffer'[r].ok => buffer[r].ok
    <3> SUFFICES ASSUME NEW r \in Symbols \ {s}
                 PROVE  /\ attempt'[r] = attempt[r]
                        /\ buffer'[r].value = buffer[r].value
                        /\ buffer'[r].ok => buffer[r].ok
      OBVIOUS
    <3>1. attempt'[r] = attempt[r]
      BY <1>2 DEF Store, TypeOK
    <3>2. CASE \E record : buffer' = [buffer EXCEPT ![s] = record]
      BY <3>1, <3>2 DEF TypeOK
    <3>3. CASE buffer' = Failed({s})
      BY <3>1, <3>3, FailedEffect
    <3>4. CASE buffer' = buffer
      BY <3>1, <3>4
    <3> QED
      BY <1>2, <3>1, <3>2, <3>3, <3>4 DEF Store
  <2>3. attempt'[s] = verdict
    BY <1>2, <2>1 DEF Store, TypeOK
  <2>4. verdict = "good" => buffer'[s].value = s
    BY <1>2, <2>1, GoodStore DEF TypeOK
  <2> QED
    BY <2>2, <2>3, <2>4 DEF GoodReadIsAttributed
<1> QED
  BY <1>1, <1>2

-----------------------------------------------------------------------------

LEMMA InvInit == Init => Inv
<1> SUFFICES ASSUME Init PROVE Inv
  OBVIOUS
<1>1. TypeOK
  BY TypeInit
<1>2. /\ pc = "poll" /\ firstIteration /\ ~generated
      /\ entries = <<>> /\ next = 1 /\ era = 1 /\ resumed = 1
      /\ \A s \in Symbols : ~buffer[s].ok /\ cache[s] = NoEntry
                            /\ attempt[s] = "none"
  BY DEF Init
<1> QED
  BY <1>1, <1>2
     DEF Inv, Registration, Waiting, CacheIsGenuine, ListIsAligned,
         OutageIsVisible, NoAddressSurvivesOutage, GoodReadIsAttributed,
         Reading

LEMMA InvStep == Inv /\ [Next]_vars => Inv'
BY TypeStep, RegistrationStep, WaitingStep, CacheStep, ListStep,
   VisibleStep, OutageStep, GoodStep DEF Inv

LEMMA InvCorrect == Spec => []Inv
BY InvInit, InvStep, PTL DEF Spec

(* While the worker waits for the PLC in checkADSConnection, no symbol is  *)
(* published as successfully read, for all configurations and programs.    *)
THEOREM OutageIsVisibleCorrect == Spec => []OutageIsVisible
<1>1. Inv => OutageIsVisible
  BY DEF Inv
<1> QED
  BY <1>1, InvCorrect, PTL

(* The symbol cache never holds an address of a program older than the one *)
(* the worker resumed with, however the outage was noticed.                *)
THEOREM NoAddressSurvivesOutageCorrect == Spec => []NoAddressSurvivesOutage
<1>1. Inv => NoAddressSurvivesOutage
  BY DEF Inv
<1> QED
  BY <1>1, InvCorrect, PTL

(* readGroup attributes the answer of a complete read of current addresses *)
(* to the right symbols, for all groups, repeated names included.          *)
THEOREM GoodReadIsAttributedCorrect == Spec => []GoodReadIsAttributed
<1>1. Inv => GoodReadIsAttributed
  BY DEF Inv
<1> QED
  BY <1>1, InvCorrect, PTL

=============================================================================
