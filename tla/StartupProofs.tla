--------------------------- MODULE StartupProofs ---------------------------
(* Start-up for all files, whatever the worker, the endpoint and the PLC   *)
(* do meanwhile: the groups, the device and the mutex, what is published,  *)
(* and which files run.                                                    *)
EXTENDS Startup, ReadGroupsProofs, ConfigurationProofs

-----------------------------------------------------------------------------
(* Groups. *)

(* The file stays the one that was read. *)
LEMMA FileIsKept == StartupSpec => [](file \in Files)
<1>1. StartupInit => file \in Files
  BY DEF StartupInit
<1>2. file \in Files /\ [StartupNext]_allVars => (file \in Files)'
  <2> SUFFICES ASSUME file \in Files, [StartupNext]_allVars
               PROVE  file' = file
    OBVIOUS
  <2>1. CASE Main
    BY <2>1 DEF Main, mainVars, ReadConfiguration, ConstructProvider,
       Register, GenerateReadGroups, PlaceSymbol, StartEndpoint, AddMetric,
       EndConfiguration
  <2>2. CASE Worker
    BY <2>2 DEF Worker, mainVars, StartPass, StartRead, SkipGroup, EndRead,
       EndPass, Check, NoDevice, EndMark, StateIsRun, StateIsNotRun,
       GetStateFails, HandleDeadADSConnection, StartInvalidate, Retry
  <2>3. CASE BuildPage \/ PlcChanges
    BY <2>3 DEF BuildPage, PlcChanges, mainVars
  <2>4. CASE UNCHANGED allVars
    BY <2>4 DEF allVars, mainVars
  <2> QED BY <2>1, <2>2, <2>3, <2>4 DEF StartupNext
<1> QED BY <1>1, <1>2, PTL DEF StartupSpec

(* The variable that is registered next. *)
LEMMA VariableType ==
  ASSUME file \in Files, NEW i \in 1..Len(file.variables)
  PROVE  /\ file.variables[i].name \in Symbols
         /\ ScrapingDuration(file.variables[i]) \in Times
<1>1. file.variables \in Seq(Variable(Symbols)) /\ i \in DOMAIN file.variables
  BY FilesAssumption DEF File
<1>2. file.variables[i] \in Variable(Symbols)
  BY <1>1
<1>3. file.variables[i].name \in Symbols
  BY <1>2 DEF Variable
<1> QED BY <1>1, <1>3, FilesAssumption

(* Only the main thread changes the variables of ReadGroups. *)
LEMMA OthersKeepGroups ==
  ASSUME [StartupNext]_allVars,
         ~Register, ~GenerateReadGroups, ~PlaceSymbol
  PROVE  UNCHANGED vars
<1>1. CASE Main
  BY <1>1 DEF Main, ReadConfiguration, ConstructProvider, StartEndpoint,
     AddMetric, EndConfiguration
<1>2. CASE Worker
  BY <1>2 DEF Worker, StartPass, StartRead, SkipGroup, EndRead, EndPass,
     Check, NoDevice, EndMark, StateIsRun, StateIsNotRun, GetStateFails,
     HandleDeadADSConnection, StartInvalidate, Retry
<1>3. CASE BuildPage \/ PlcChanges
  BY <1>3 DEF BuildPage, PlcChanges
<1>4. CASE UNCHANGED allVars
  BY <1>4 DEF allVars
<1> QED BY <1>1, <1>2, <1>3, <1>4 DEF StartupNext

(* Every step of start-up is one of ReadGroups or leaves its variables. *)
LEMMA StepRefines ==
  ASSUME file \in Files, TypeOK, [StartupNext]_allVars
  PROVE  [Next]_vars
<1>1. CASE Register
  <2> DEFINE v == file.variables[Len(symbolNames) + 1]
  <2>1. Len(symbolNames) + 1 \in 1..Len(file.variables)
    <3>1. file.variables \in Seq(Variable(Symbols))
      BY FilesAssumption DEF File
    <3>2. Len(symbolNames) \in Nat /\ Len(file.variables) \in Nat
      BY <3>1 DEF TypeOK
    <3> QED BY <1>1, <3>2 DEF Register
  <2>2. v.name \in Symbols /\ ScrapingDuration(v) \in Times
    BY <2>1, VariableType
  <2>3. AddSymbol(v.name, ScrapingDuration(v))
    BY <1>1 DEF Register
  <2> QED BY <2>2, <2>3 DEF Next
<1>2. CASE GenerateReadGroups
  BY <1>2 DEF GenerateReadGroups, Next
<1>3. CASE PlaceSymbol
  BY <1>3 DEF PlaceSymbol, Next
<1> QED BY <1>1, <1>2, <1>3, OthersKeepGroups

(* Each behaviour of start-up is one of ReadGroups, whose theorems hold of *)
(* it, therefore.                                                          *)
LEMMA GroupingImplemented == StartupSpec => Spec
<1>1. StartupInit => Init
  BY DEF StartupInit
<1>2. Init => TypeOK
  BY DEF Init, TypeOK
<1>3. TypeOK /\ file \in Files /\ [StartupNext]_allVars
        => [Next]_vars /\ TypeOK'
  BY StepRefines, TypeStep
<1> QED BY <1>1, <1>2, <1>3, FileIsKept, PTL
        DEF StartupSpec, Spec

(***************************************************************************)
(* Grouping is right at start-up, too, whatever worker, endpoint and PLC   *)
(* do: each symbol that has been placed is in exactly one group, of its    *)
(* own scraping time.                                                      *)
(***************************************************************************)
THEOREM GroupsAtStartup ==
  StartupSpec => [](TypeOK /\ Partition /\ TightGroups)
BY GroupingImplemented, TypeCorrect, PartitionCorrect, TightGroupsCorrect, PTL

-----------------------------------------------------------------------------
(***************************************************************************)
(* The device.  The worker has not checked anything before its thread      *)
(* runs, which the main thread starts.  Each way back to polling leads     *)
(* through a device, and no later check finds it missing, so that the      *)
(* branch that marks the symbols without the mutex is not taken again.     *)
(***************************************************************************)
DeviceInv ==
  /\ main \in {"config", "construct"} => wpc = "off"
  /\ wpc = "off" => ~checked
  /\ checked \in BOOLEAN
  /\ PollsWithDevice
  /\ checked /\ wpc = "check" => device
  /\ checked => wpc \notin {"mark", "connect"}

(* Every step keeps the invariant. *)
LEMMA DeviceStep == DeviceInv /\ [StartupNext]_allVars => DeviceInv'
<1> SUFFICES ASSUME DeviceInv, [StartupNext]_allVars PROVE DeviceInv'
  OBVIOUS
<1> USE DEF DeviceInv, PollsWithDevice
<1>1. CASE ReadConfiguration
  BY <1>1 DEF ReadConfiguration, workerVars, checkVars
<1>2. CASE ConstructProvider
  BY <1>2 DEF ConstructProvider
<1>3. CASE Register
  BY <1>3 DEF Register, mainVars, workerVars, checkVars
<1>4. CASE GenerateReadGroups
  BY <1>4 DEF GenerateReadGroups, mainVars, workerVars, checkVars
<1>5. CASE PlaceSymbol
  BY <1>5 DEF PlaceSymbol, mainVars, workerVars, checkVars
<1>6. CASE StartEndpoint
  BY <1>6 DEF StartEndpoint, workerVars, checkVars
<1>7. CASE AddMetric
  BY <1>7 DEF AddMetric, workerVars, checkVars
<1>8. CASE EndConfiguration
  BY <1>8 DEF EndConfiguration, workerVars, checkVars
<1>9. CASE StartPass \/ SkipGroup \/ EndPass
  BY <1>9 DEF StartPass, SkipGroup, EndPass, mainVars, checkVars
<1>10. CASE StartRead \/ EndRead
  BY <1>10 DEF StartRead, EndRead, mainVars, checkVars
<1>11. CASE NoDevice \/ EndMark \/ GetStateFails
  BY <1>11 DEF NoDevice, EndMark, GetStateFails, Check, mainVars
<1>12. CASE StateIsRun \/ StateIsNotRun \/ HandleDeadADSConnection
  BY <1>12 DEF StateIsRun, StateIsNotRun, HandleDeadADSConnection, Check,
     mainVars
<1>13. CASE StartInvalidate \/ Retry
  BY <1>13 DEF StartInvalidate, Retry, Check, mainVars
<1>14. CASE BuildPage \/ PlcChanges
  BY <1>14 DEF BuildPage, PlcChanges, mainVars, workerVars, checkVars
<1>15. CASE UNCHANGED allVars
  BY <1>15 DEF allVars, mainVars, workerVars, checkVars
<1> QED BY <1>1, <1>2, <1>3, <1>4, <1>5, <1>6, <1>7, <1>8, <1>9, <1>10,
           <1>11, <1>12, <1>13, <1>14, <1>15
        DEF StartupNext, Main, Worker

(* The invariant holds. *)
LEMMA DeviceInvCorrect == StartupSpec => []DeviceInv
<1>1. StartupInit => DeviceInv
  BY DEF StartupInit, DeviceInv, PollsWithDevice
<1> QED BY <1>1, DeviceStep, PTL DEF StartupSpec

(* After the first check groups are polled with a device only. *)
THEOREM PollsWithDeviceCorrect == StartupSpec => []PollsWithDevice
BY DeviceInvCorrect, PTL DEF DeviceInv

(* Only Register changes symbolNames. *)
LEMMA OnlyRegisterAdds ==
  ASSUME [StartupNext]_allVars, symbolNames' # symbolNames
  PROVE  Register
<1>1. ~UNCHANGED vars
  BY DEF vars
<1>2. ~GenerateReadGroups /\ ~PlaceSymbol
  BY DEF GenerateReadGroups, PlaceSymbol, StartGenerate, EndGenerate,
     JoinGroup, OpenGroup
<1> QED BY <1>1, <1>2, OthersKeepGroups

(***************************************************************************)
(* After the first check no symbol is added while the worker iterates over *)
(* the symbols to mark them: two of the three places hold the mutex, and   *)
(* the third is not reached without a device missing.                      *)
(***************************************************************************)
THEOREM RegistrationIsGuardedCorrect == StartupSpec => RegistrationIsGuarded
<1>1. DeviceInv /\ [StartupNext]_allVars
        => [checked /\ symbolNames' # symbolNames => ~Marking]_allVars
  <2> SUFFICES ASSUME DeviceInv, [StartupNext]_allVars, checked,
                      symbolNames' # symbolNames
               PROVE  ~Marking
    OBVIOUS
  <2>1. ~MutexHeld
    BY OnlyRegisterAdds DEF Register
  <2>2. wpc # "mark"
    BY DEF DeviceInv
  <2> QED BY <2>1, <2>2 DEF MutexHeld, Marking
<1> QED BY <1>1, DeviceInvCorrect, PTL DEF StartupSpec, RegistrationIsGuarded

-----------------------------------------------------------------------------
(* Types. *)

(* What is known of the variables of a file. *)
LEMMA FileType ==
  ASSUME file \in Files
  PROVE  /\ file.variables \in Seq(Variable(Symbols))
         /\ Len(file.variables) \in Nat
         /\ DOMAIN file.variables = 1..Len(file.variables)
<1>1. file.variables \in Seq(Variable(Symbols))
  BY FilesAssumption DEF File
<1> QED BY <1>1

(* A step of the main thread keeps the types. *)
LEMMA MainTypeStep == StartupTypeOK /\ Main => StartupTypeOK'
<1> SUFFICES ASSUME StartupTypeOK, Main PROVE StartupTypeOK'
  OBVIOUS
<1> USE DEF StartupTypeOK
<1>1. CASE ReadConfiguration
  BY <1>1 DEF ReadConfiguration, workerVars, checkVars
<1>2. CASE ConstructProvider
  BY <1>2 DEF ConstructProvider
<1>3. CASE Register \/ GenerateReadGroups \/ PlaceSymbol
  <2>1. alive' \in BOOLEAN
    BY <1>3 DEF Register, GenerateReadGroups, PlaceSymbol, Survives
  <2> QED BY <1>3, <2>1
          DEF Register, GenerateReadGroups, PlaceSymbol, mainVars, workerVars,
              checkVars
<1>4. CASE StartEndpoint
  BY <1>4 DEF StartEndpoint, workerVars, checkVars
<1>5. CASE AddMetric
  <2> DEFINE name == file.variables[added + 1].name
  <2>1. added + 1 \in 1..Len(file.variables)
    BY <1>5, FileType DEF AddMetric
  <2>2. name \in Symbols
    BY <2>1, VariableType
  <2>3. metrics' \in Seq(Symbols)
    BY <1>5, <2>2 DEF AddMetric
  <2>4. alive' \in BOOLEAN
    BY <1>5 DEF AddMetric, Survives
  <2>5. added' \in 0..Len(file.variables) /\ file' = file
    BY <1>5, <2>1, FileType DEF AddMetric
  <2> QED BY <1>5, <2>3, <2>4, <2>5 DEF AddMetric, workerVars, checkVars
<1>6. CASE EndConfiguration
  BY <1>6 DEF EndConfiguration, workerVars, checkVars
<1> QED BY <1>1, <1>2, <1>3, <1>4, <1>5, <1>6 DEF Main

(* A step of the worker keeps the types. *)
LEMMA WorkerTypeStep == StartupTypeOK /\ TypeOK /\ Worker => StartupTypeOK'
<1> SUFFICES ASSUME StartupTypeOK, TypeOK, Worker PROVE StartupTypeOK'
  OBVIOUS
<1> USE DEF StartupTypeOK
<1>1. CASE StartPass \/ SkipGroup \/ EndPass
  BY <1>1 DEF StartPass, SkipGroup, EndPass, mainVars, checkVars
<1>2. CASE StartRead
  <2>1. readGroups[turn] \in Group
    BY <1>2 DEF StartRead, TypeOK
  <2>2. reading' \in Seq(Symbols)
    BY <1>2, <2>1 DEF StartRead, Group
  <2> QED BY <1>2, <2>2 DEF StartRead, mainVars, checkVars
<1>3. CASE EndRead
  <2>1. [group |-> turn, symbols |-> reading]
          \in [group : Nat, symbols : Seq(Symbols)]
    OBVIOUS
  <2>2. info' \subseteq [group : Nat, symbols : Seq(Symbols)]
    BY <1>3, <2>1 DEF EndRead
  <2> QED BY <1>3, <2>2 DEF EndRead, mainVars, checkVars
<1>4. ASSUME NEW from, NEW to \in {"poll", "mark", "connect", "check",
                                   "reconnect", "retry", "invalidate"},
             NEW found \in BOOLEAN, Check(from, to, found)
      PROVE  StartupTypeOK'
  <2>1. checked' \in BOOLEAN /\ firstIteration' \in BOOLEAN
    BY <1>4 DEF Check
  <2> QED BY <1>4, <2>1 DEF Check, mainVars
<1>5. CASE NoDevice \/ EndMark \/ StateIsRun \/ StateIsNotRun
           \/ GetStateFails \/ HandleDeadADSConnection \/ StartInvalidate
           \/ Retry
  BY <1>4, <1>5
     DEF NoDevice, EndMark, StateIsRun, StateIsNotRun, GetStateFails,
         HandleDeadADSConnection, StartInvalidate, Retry
<1> QED BY <1>1, <1>2, <1>3, <1>5 DEF Worker

(* Every variable of start-up holds a value of its type. *)
THEOREM StartupTypeCorrect == StartupSpec => []StartupTypeOK
<1>1. StartupInit => StartupTypeOK
  <2> SUFFICES ASSUME StartupInit PROVE StartupTypeOK
    OBVIOUS
  <2>1. file \in Files /\ Len(file.variables) \in Nat
    BY FileType DEF StartupInit
  <2>2. added \in 0..Len(file.variables)
    BY <2>1 DEF StartupInit
  <2>3. metrics \in Seq(Symbols) /\ reading \in Seq(Symbols)
    BY DEF StartupInit
  <2>4. info \subseteq [group : Nat, symbols : Seq(Symbols)] /\ turn \in Nat
    BY DEF StartupInit
  <2> QED BY <2>1, <2>2, <2>3, <2>4 DEF StartupInit, StartupTypeOK
<1>2. StartupTypeOK /\ TypeOK /\ [StartupNext]_allVars => StartupTypeOK'
  <2> SUFFICES ASSUME StartupTypeOK, TypeOK, [StartupNext]_allVars
               PROVE  StartupTypeOK'
    OBVIOUS
  <2>1. CASE BuildPage \/ PlcChanges
    BY <2>1 DEF BuildPage, PlcChanges, StartupTypeOK, mainVars, workerVars,
       checkVars
  <2>2. CASE UNCHANGED allVars
    BY <2>2 DEF allVars, StartupTypeOK, mainVars, workerVars, checkVars
  <2> QED BY <2>1, <2>2, MainTypeStep, WorkerTypeStep DEF StartupNext
<1> QED BY <1>1, <1>2, GroupsAtStartup, PTL DEF StartupSpec

-----------------------------------------------------------------------------
(***************************************************************************)
(* What is published.  symbolNames follows the file; it is complete before *)
(* the groups are generated, they before the endpoint is constructed, and  *)
(* the metrics follow the file, too.                                       *)
(***************************************************************************)
Registered ==
  /\ Len(symbolNames) <= Len(file.variables)
  /\ \A i \in DOMAIN symbolNames :
       symbolNames[i].name = file.variables[i].name

NamesUpTo(n) == {file.variables[i].name : i \in 1..n}
Published == {metrics[i] : i \in DOMAIN metrics}

Order ==
  /\ stage # "add" => Len(symbolNames) = Len(file.variables)
  /\ stage = "done" => placed = Len(symbolNames)
  /\ main \in {"metrics", "serve"} => stage = "done"
  /\ main \notin {"metrics", "serve"} => added = 0
  /\ main = "serve" => added = Len(file.variables)

PublishInv ==
  /\ Registered
  /\ Order
  /\ Published = NamesUpTo(added) \ {Nameless}

(* The invariant holds at the start. *)
LEMMA InitPublish == StartupInit => PublishInv
<1> SUFFICES ASSUME StartupInit PROVE PublishInv
  OBVIOUS
<1>1. /\ symbolNames = <<>> /\ stage = "add" /\ main = "config"
      /\ added = 0 /\ metrics = <<>> /\ file \in Files
  BY DEF StartupInit, Init
<1>2. Len(file.variables) \in Nat
  BY <1>1, FileType
<1>3. Registered
  BY <1>1, <1>2 DEF Registered
<1>4. Published = {} /\ NamesUpTo(added) = {}
  BY <1>1 DEF Published, NamesUpTo
<1> QED BY <1>1, <1>3, <1>4 DEF PublishInv, Order

(* A step that leaves the groups, the file and the metrics alone, and the  *)
(* main thread before its last two stages or where it is.                  *)
LEMMA OtherStepsPublish ==
  ASSUME PublishInv, UNCHANGED <<vars, file, added, metrics>>,
         \/ main' = main
         \/ /\ main' \notin {"metrics", "serve"}
            /\ main \notin {"metrics", "serve"}
  PROVE  PublishInv'
BY DEF PublishInv, Registered, Order, Published, NamesUpTo, vars

(* A step of the main thread keeps the invariant. *)
LEMMA MainPublishes ==
  ASSUME PublishInv, StartupTypeOK, TypeOK, Main
  PROVE  PublishInv'
<1>a. /\ file \in Files /\ Len(file.variables) \in Nat
      /\ DOMAIN file.variables = 1..Len(file.variables)
      /\ symbolNames \in Seq(Definition) /\ Len(symbolNames) \in Nat
      /\ added \in Nat /\ metrics \in Seq(Symbols)
  BY FileType DEF StartupTypeOK, TypeOK
<1>1. CASE ReadConfiguration \/ ConstructProvider
  BY <1>1, OtherStepsPublish DEF ReadConfiguration, ConstructProvider
<1>2. CASE Register
  <2> DEFINE v == file.variables[Len(symbolNames) + 1]
             d == [name |-> v.name, time |-> ScrapingDuration(v)]
  <2>1. /\ symbolNames' = Append(symbolNames, d)
        /\ Len(symbolNames) < Len(file.variables)
        /\ stage = "add" /\ stage' = "add"
        /\ UNCHANGED mainVars
    BY <1>2 DEF Register, AddSymbol
  <2>2. v.name \in Symbols /\ ScrapingDuration(v) \in Times
    BY <2>1, <1>a, VariableType
  <2>3. d \in Definition
    BY <2>2 DEF Definition
  <2>4. d.name = file.variables[Len(symbolNames) + 1].name
    OBVIOUS
  <2> HIDE DEF d
  <2>5. /\ Len(symbolNames') = Len(symbolNames) + 1
        /\ DOMAIN symbolNames' = 1..Len(symbolNames) + 1
        /\ symbolNames'[Len(symbolNames) + 1] = d
        /\ \A i \in 1..Len(symbolNames) : symbolNames'[i] = symbolNames[i]
        /\ DOMAIN symbolNames = 1..Len(symbolNames)
    BY <2>1, <2>3, <1>a
  <2>6. Registered'
    BY <2>1, <2>4, <2>5, <1>a DEF PublishInv, Registered, mainVars
  <2>7. Order'
    BY <2>1 DEF PublishInv, Order, mainVars
  <2>8. (Published = NamesUpTo(added) \ {Nameless})'
    BY <2>1 DEF PublishInv, Published, NamesUpTo, mainVars
  <2> QED BY <2>6, <2>7, <2>8 DEF PublishInv
<1>3. CASE GenerateReadGroups \/ PlaceSymbol
  <2>1. /\ symbolNames' = symbolNames /\ UNCHANGED mainVars
        /\ main = "configure"
    BY <1>3 DEF GenerateReadGroups, PlaceSymbol, StartGenerate, EndGenerate,
       JoinGroup, OpenGroup
  <2>2. /\ stage' # "add" => Len(symbolNames) = Len(file.variables)
        /\ stage' = "done" => placed' = Len(symbolNames)
    BY <1>3 DEF GenerateReadGroups, PlaceSymbol, StartGenerate, EndGenerate,
       JoinGroup, OpenGroup, PublishInv, Order
  <2>3. Registered'
    BY <2>1 DEF PublishInv, Registered, mainVars
  <2>4. Order'
    BY <2>1, <2>2 DEF PublishInv, Order, mainVars
  <2>5. (Published = NamesUpTo(added) \ {Nameless})'
    BY <2>1 DEF PublishInv, Published, NamesUpTo, mainVars
  <2> QED BY <2>3, <2>4, <2>5 DEF PublishInv
<1>4. CASE StartEndpoint \/ EndConfiguration
  <2>1. /\ UNCHANGED <<vars, file, added, metrics>>
        /\ stage = "done"
        /\ \/ main' = "metrics" /\ main = "configure"
           \/ main' = "serve" /\ added = Len(file.variables)
    BY <1>4 DEF StartEndpoint, EndConfiguration, PublishInv, Order
  <2> QED BY <2>1
          DEF PublishInv, Registered, Order, Published, NamesUpTo, vars
<1>5. CASE AddMetric
  <2> DEFINE name == file.variables[added + 1].name
  <2>1. /\ added < Len(file.variables) /\ added' = added + 1
        /\ metrics' = IF name = Nameless THEN metrics
                      ELSE Append(metrics, name)
        /\ UNCHANGED <<vars, main, file>> /\ main = "metrics"
    BY <1>5 DEF AddMetric
  <2>2. name \in Symbols
    BY <2>1, <1>a, VariableType
  <2>3. NamesUpTo(added') = NamesUpTo(added) \cup {name}
    BY <2>1, <1>a DEF NamesUpTo
  <2>4. Published' = IF name = Nameless THEN Published
                     ELSE Published \cup {name}
    <3>1. CASE name = Nameless
      BY <3>1, <2>1 DEF Published
    <3>2. CASE name # Nameless
      <4> HIDE DEF name
      <4>1. metrics' = Append(metrics, name)
        BY <3>2, <2>1
      <4>2. /\ Len(metrics) \in Nat /\ DOMAIN metrics = 1..Len(metrics)
            /\ DOMAIN metrics' = 1..Len(metrics) + 1
            /\ metrics'[Len(metrics) + 1] = name
            /\ \A i \in 1..Len(metrics) : metrics'[i] = metrics[i]
        BY <4>1, <2>2, <1>a
      <4>3. Published' = Published \cup {name}
        BY <4>2 DEF Published
      <4> QED BY <3>2, <4>3
    <3> QED BY <3>1, <3>2
  <2>5. NamesUpTo(added)' = NamesUpTo(added')
    BY <2>1 DEF NamesUpTo
  <2> HIDE DEF name
  <2>6. (Published = NamesUpTo(added) \ {Nameless})'
    BY <2>3, <2>4, <2>5 DEF PublishInv
  <2>7. Registered' /\ Order'
    BY <2>1 DEF PublishInv, Registered, Order, vars
  <2> QED BY <2>6, <2>7 DEF PublishInv
<1> QED BY <1>1, <1>2, <1>3, <1>4, <1>5 DEF Main

(* The invariant holds. *)
LEMMA PublishInvCorrect == StartupSpec => []PublishInv
<1>1. StartupTypeOK /\ TypeOK /\ PublishInv /\ [StartupNext]_allVars
        => PublishInv'
  <2> SUFFICES ASSUME StartupTypeOK, TypeOK, PublishInv,
                      [StartupNext]_allVars
               PROVE  PublishInv'
    OBVIOUS
  <2>1. CASE ~Main
    <3>1. UNCHANGED <<vars, mainVars>>
      <4>1. CASE Worker
        BY <4>1 DEF Worker, StartPass, StartRead, SkipGroup, EndRead,
           EndPass, Check, NoDevice, EndMark, StateIsRun, StateIsNotRun,
           GetStateFails, HandleDeadADSConnection, StartInvalidate, Retry
      <4>2. CASE BuildPage \/ PlcChanges
        BY <4>2 DEF BuildPage, PlcChanges
      <4>3. CASE UNCHANGED allVars
        BY <4>3 DEF allVars
      <4> QED BY <2>1, <4>1, <4>2, <4>3 DEF StartupNext
    <3> QED BY <3>1, OtherStepsPublish DEF mainVars
  <2> QED BY <2>1, MainPublishes
<1> QED BY <1>1, InitPublish, StartupTypeCorrect, GroupsAtStartup, PTL
        DEF StartupSpec

(***************************************************************************)
(* Every published symbol is in a group, and when main is done only the    *)
(* symbol without a name is in one and not published.                      *)
(***************************************************************************)
THEOREM PublishedSymbolsAreReadCorrect ==
  StartupSpec => []PublishedSymbolsAreRead
<1>1. StartupTypeOK /\ TypeOK /\ Partition /\ PublishInv
        => PublishedSymbolsAreRead
  <2> SUFFICES ASSUME StartupTypeOK, TypeOK, Partition, PublishInv
               PROVE  PublishedSymbolsAreRead
    OBVIOUS
  <2> DEFINE grouped == UNION {Members(g) : g \in DOMAIN readGroups}
             all == NamesUpTo(Len(file.variables))
  <2>1. /\ Len(file.variables) \in Nat /\ added \in 0..Len(file.variables)
        /\ DOMAIN symbolNames = 1..Len(symbolNames)
        /\ Len(symbolNames) \in Nat
    BY FileType DEF StartupTypeOK, TypeOK
  <2>2. ASSUME main \in {"metrics", "serve"} PROVE grouped = all
    <3>1. /\ placed = Len(file.variables)
          /\ DOMAIN symbolNames = 1..placed
          /\ \A i \in 1..placed :
               symbolNames[i].name = file.variables[i].name
      BY <2>1, <2>2 DEF PublishInv, Order, Registered
    <3>2. ASSUME NEW s \in grouped PROVE s \in all
      <4>1. PICK g \in DOMAIN readGroups : s \in Members(g)
        BY <3>2
      <4>2. PICK k \in DOMAIN readGroups[g].members :
              s = readGroups[g].members[k]
        BY <4>1 DEF Members
      <4>3. PICK i \in 1..placed : symbolNames[i].name = s
        BY <4>2 DEF Partition
      <4> QED BY <3>1, <4>3 DEF NamesUpTo
    <3>3. ASSUME NEW s \in all PROVE s \in grouped
      <4>1. PICK i \in 1..placed : s = symbolNames[i].name
        BY <3>1, <3>3 DEF NamesUpTo
      <4>2. PICK g \in DOMAIN readGroups : s \in Members(g)
        BY <4>1 DEF Partition
      <4> QED BY <4>2
    <3> QED BY <3>2, <3>3
  <2> HIDE DEF grouped, all
  <2>3. NamesUpTo(added) \subseteq all
    BY <2>1 DEF NamesUpTo, all
  <2>4. Published \subseteq grouped
    <3>1. CASE main \in {"metrics", "serve"}
      BY <3>1, <2>2, <2>3 DEF PublishInv
    <3>2. CASE main \notin {"metrics", "serve"}
      <4>1. added = 0
        BY <3>2 DEF PublishInv, Order
      <4>2. NamesUpTo(added) = {}
        BY <4>1 DEF NamesUpTo
      <4> QED BY <4>2 DEF PublishInv
    <3> QED BY <3>1, <3>2
  <2>5. main = "serve" => Published = grouped \ {Nameless}
    <3> SUFFICES ASSUME main = "serve" PROVE Published = grouped \ {Nameless}
      OBVIOUS
    <3>1. NamesUpTo(added) = all
      BY DEF PublishInv, Order, all
    <3> QED BY <3>1, <2>2 DEF PublishInv
  <2> QED BY <2>4, <2>5 DEF PublishedSymbolsAreRead, Published, grouped
<1> QED BY <1>1, PublishInvCorrect, StartupTypeCorrect, GroupsAtStartup, PTL

-----------------------------------------------------------------------------
(***************************************************************************)
(* What the information page shows.  Groups only grow, and at their ends,  *)
(* so what the worker has copied of one stays the head of it, while it     *)
(* reads and after.                                                        *)
(***************************************************************************)
Heads(copy, members) ==
  /\ Len(copy) <= Len(members)
  /\ \A i \in 1..Len(copy) : copy[i] = members[i]

InfoInv ==
  /\ wpc = "read" => /\ turn \in DOMAIN readGroups
                     /\ Heads(reading, readGroups[turn].members)
  /\ \A m \in info : /\ m.group \in DOMAIN readGroups
                     /\ Heads(m.symbols, readGroups[m.group].members)
  /\ \A m, n \in info : m.group = n.group => m = n

(* No group gets lost or changes what it has. *)
GroupsGrow ==
  \A g \in DOMAIN readGroups :
    /\ g \in DOMAIN readGroups'
    /\ Heads(readGroups[g].members, readGroups'[g].members)

(* The members of a group are a sequence. *)
LEMMA MembersType ==
  ASSUME NEW groups \in Seq(Group), NEW g \in DOMAIN groups
  PROVE  /\ groups[g].members \in Seq(Symbols)
         /\ Len(groups[g].members) \in Nat
<1>1. groups[g] \in Group
  OBVIOUS
<1> QED BY <1>1 DEF Group

(* Each step of the grouping is growth. *)
LEMMA GroupingGrows ==
  ASSUME Inv, [Next]_vars
  PROVE  GroupsGrow
<1>0. /\ TypeOK
      /\ \A g \in DOMAIN readGroups : Len(readGroups[g].members) \in Nat
  BY MembersType DEF Inv, TypeOK
<1>1. CASE JoinGroup
  <2>1. PICK g \in DOMAIN readGroups :
          /\ DOMAIN readGroups' = DOMAIN readGroups
          /\ \A h \in DOMAIN readGroups \ {g} : readGroups'[h] = readGroups[h]
          /\ Len(readGroups'[g].members) = Len(readGroups[g].members) + 1
          /\ DOMAIN readGroups[g].members = 1..Len(readGroups[g].members)
          /\ \A k \in DOMAIN readGroups[g].members :
               readGroups'[g].members[k] = readGroups[g].members[k]
    BY <1>0, <1>1, JoinPointwise
  <2>2. Heads(readGroups[g].members, readGroups'[g].members)
    BY <1>0, <2>1 DEF Heads
  <2>3. ASSUME NEW h \in DOMAIN readGroups, h # g
        PROVE  Heads(readGroups[h].members, readGroups'[h].members)
    BY <1>0, <2>1, <2>3 DEF Heads
  <2> QED BY <2>1, <2>2, <2>3 DEF GroupsGrow
<1>2. CASE OpenGroup
  <2>1. \A h \in DOMAIN readGroups :
          /\ h \in DOMAIN readGroups' /\ readGroups'[h] = readGroups[h]
    BY <1>0, <1>2, OpenPointwise
  <2> QED BY <1>0, <2>1 DEF GroupsGrow, Heads
<1>3. CASE StartGenerate
  <2>1. readGroups = <<>>
    BY <1>3 DEF StartGenerate, Inv, EmptyBefore
  <2> QED BY <2>1 DEF GroupsGrow
<1>4. CASE UNCHANGED readGroups
  BY <1>0, <1>4 DEF GroupsGrow, Heads
<1> QED BY <1>1, <1>2, <1>3, <1>4 DEF Next, AddSymbol, EndGenerate, vars

(* The head of a group is the head of what has grown from it. *)
LEMMA HeadStays ==
  ASSUME TypeOK, TypeOK', GroupsGrow, NEW copy \in Seq(Symbols),
         NEW g \in DOMAIN readGroups, Heads(copy, readGroups[g].members)
  PROVE  /\ g \in DOMAIN readGroups'
         /\ Heads(copy, readGroups'[g].members)
<1>1. g \in DOMAIN readGroups'
  BY DEF GroupsGrow
<1>2. /\ Len(copy) \in Nat /\ Len(readGroups[g].members) \in Nat
      /\ Len(readGroups'[g].members) \in Nat
  BY <1>1, MembersType DEF TypeOK
<1>3. Heads(readGroups[g].members, readGroups'[g].members)
  BY DEF GroupsGrow
<1> QED BY <1>1, <1>2, <1>3 DEF Heads

(* A step of the worker that reads what there is, or nothing. *)
LEMMA WorkerInforms ==
  ASSUME TypeOK, StartupTypeOK, InfoInv, Worker
  PROVE  InfoInv'
<1>0. UNCHANGED readGroups
  BY DEF Worker, StartPass, StartRead, SkipGroup, EndRead, EndPass, vars,
     Check, NoDevice, EndMark, StateIsRun, StateIsNotRun, GetStateFails,
     HandleDeadADSConnection, StartInvalidate, Retry
<1>1. CASE StartRead
  <2>1. /\ turn \in DOMAIN readGroups /\ turn' = turn
        /\ reading' = readGroups[turn].members /\ info' = info
    BY <1>1 DEF StartRead
  <2>2. Heads(reading', readGroups[turn].members)
    BY <2>1, MembersType DEF Heads, TypeOK
  <2> QED BY <1>0, <2>1, <2>2 DEF InfoInv
<1>2. CASE EndRead
  <2>1. /\ wpc = "read" /\ wpc' = "groups"
        /\ info' = IF \E m \in info : m.group = turn THEN info
                   ELSE info \cup {[group |-> turn, symbols |-> reading]}
    BY <1>2 DEF EndRead
  <2>2. CASE \E m \in info : m.group = turn
    BY <1>0, <2>1, <2>2 DEF InfoInv
  <2>3. CASE ~\E m \in info : m.group = turn
    <3> DEFINE new == [group |-> turn, symbols |-> reading]
    <3>1. info' = info \cup {new} /\ \A m \in info : m.group # new.group
      BY <2>1, <2>3
    <3>2. /\ new.group \in DOMAIN readGroups
          /\ Heads(new.symbols, readGroups[new.group].members)
      BY <2>1 DEF InfoInv
    <3> HIDE DEF new
    <3>3. \A m \in info' : /\ m.group \in DOMAIN readGroups
                           /\ Heads(m.symbols, readGroups[m.group].members)
      BY <3>1, <3>2 DEF InfoInv
    <3>4. \A m, n \in info' : m.group = n.group => m = n
      BY <3>1 DEF InfoInv
    <3> QED BY <1>0, <2>1, <3>3, <3>4 DEF InfoInv
  <2> QED BY <2>2, <2>3
<1>3. CASE ~StartRead /\ ~EndRead
  <2>1. wpc' # "read" /\ UNCHANGED info
    BY <1>3 DEF Worker, StartPass, SkipGroup, EndPass, Check, NoDevice,
       EndMark, StateIsRun, StateIsNotRun, GetStateFails,
       HandleDeadADSConnection, StartInvalidate, Retry
  <2> QED BY <1>0, <2>1 DEF InfoInv
<1> QED BY <1>1, <1>2, <1>3

(* A step of another thread: the groups may grow. *)
LEMMA OthersInform ==
  ASSUME TypeOK, TypeOK', StartupTypeOK, InfoInv, GroupsGrow,
         UNCHANGED <<turn, reading, info>>, wpc' = "read" => wpc = "read"
  PROVE  InfoInv'
<1>1. ASSUME wpc' = "read"
      PROVE  /\ turn' \in DOMAIN readGroups'
             /\ Heads(reading', readGroups'[turn'].members)
  <2>1. /\ turn \in DOMAIN readGroups /\ reading \in Seq(Symbols)
        /\ Heads(reading, readGroups[turn].members)
    BY <1>1 DEF InfoInv, StartupTypeOK
  <2> QED BY <2>1, HeadStays
<1>2. ASSUME NEW m \in info'
      PROVE  /\ m.group \in DOMAIN readGroups'
             /\ Heads(m.symbols, readGroups'[m.group].members)
  <2>1. /\ m.group \in DOMAIN readGroups /\ m.symbols \in Seq(Symbols)
        /\ Heads(m.symbols, readGroups[m.group].members)
    BY <1>2 DEF InfoInv, StartupTypeOK
  <2> QED BY <2>1, HeadStays
<1>3. \A m, n \in info' : m.group = n.group => m = n
  BY DEF InfoInv
<1> QED BY <1>1, <1>2, <1>3 DEF InfoInv

(* The invariant holds. *)
LEMMA InfoInvCorrect == StartupSpec => []InfoInv
<1>1. StartupInit => InfoInv
  BY DEF StartupInit, InfoInv
<1>2. /\ StartupTypeOK /\ file \in Files /\ Inv /\ InfoInv
      /\ [StartupNext]_allVars
      => InfoInv'
  <2> SUFFICES ASSUME StartupTypeOK, file \in Files, Inv, InfoInv,
                      [StartupNext]_allVars
               PROVE  InfoInv'
    OBVIOUS
  <2>1. TypeOK /\ TypeOK' /\ GroupsGrow
    <3>1. TypeOK /\ [Next]_vars
      BY StepRefines DEF Inv
    <3> QED BY <3>1, TypeStep, GroupingGrows
  <2>2. CASE Worker
    BY <2>1, <2>2, WorkerInforms
  <2>3. CASE ~Worker
    <3>1. UNCHANGED <<turn, reading, info>> /\ (wpc' = "read" => wpc = "read")
      <4>1. CASE Main
        BY <4>1 DEF Main, ReadConfiguration, ConstructProvider, Register,
           GenerateReadGroups, PlaceSymbol, StartEndpoint, AddMetric,
           EndConfiguration, workerVars, checkVars
      <4>2. CASE BuildPage \/ PlcChanges
        BY <4>2 DEF BuildPage, PlcChanges, workerVars, checkVars
      <4>3. CASE UNCHANGED allVars
        BY <4>3 DEF allVars, workerVars, checkVars
      <4> QED BY <2>3, <4>1, <4>2, <4>3 DEF StartupNext
    <3> QED BY <2>1, <3>1, OthersInform
  <2> QED BY <2>2, <2>3
<1> QED BY <1>1, <1>2, FileIsKept, StartupTypeCorrect,
           GroupingImplemented, InvCorrect, PTL
        DEF StartupSpec

(* The head of a sequence as SubSeq gives it. *)
LEMMA HeadIsSubSeq ==
  ASSUME NEW copy \in Seq(Symbols), NEW members \in Seq(Symbols),
         Heads(copy, members)
  PROVE  copy = SubSeq(members, 1, Len(copy))
<1>1. /\ Len(copy) \in Nat /\ Len(copy) <= Len(members)
      /\ \A i \in 1..Len(copy) : copy[i] = members[i]
  BY DEF Heads
<1>2. SubSeq(members, 1, Len(copy)) = [i \in 1..Len(copy) |-> members[i]]
  BY <1>1
<1>3. copy = [i \in 1..Len(copy) |-> copy[i]]
  OBVIOUS
<1> QED BY <1>1, <1>2, <1>3

(***************************************************************************)
(* The information page shows no symbol under a group that it is not in,   *)
(* and one list for a group, whatever the worker has read of the groups    *)
(* while they were being filled.                                           *)
(***************************************************************************)
THEOREM InformationIsPrefixCorrect == StartupSpec => []InformationIsPrefix
<1>1. StartupTypeOK /\ TypeOK /\ InfoInv => InformationIsPrefix
  <2> SUFFICES ASSUME StartupTypeOK, TypeOK, InfoInv
               PROVE  InformationIsPrefix
    OBVIOUS
  <2>1. ASSUME NEW m \in info
        PROVE  /\ m.group \in DOMAIN readGroups
               /\ m.symbols = SubSeq(readGroups[m.group].members, 1,
                                     Len(m.symbols))
    <3>1. /\ m.group \in DOMAIN readGroups /\ m.symbols \in Seq(Symbols)
          /\ Heads(m.symbols, readGroups[m.group].members)
      BY DEF InfoInv, StartupTypeOK
    <3> QED BY <3>1, MembersType, HeadIsSubSeq DEF TypeOK
  <2> QED BY <2>1 DEF InformationIsPrefix, InfoInv
<1> QED BY <1>1, InfoInvCorrect, StartupTypeCorrect, GroupsAtStartup, PTL

-----------------------------------------------------------------------------
(***************************************************************************)
(* Which files run: where the main thread is tells what readConfig made of *)
(* the file, and ConfigurationProofs what that says of it.                 *)
(***************************************************************************)
FileWasRead ==
  /\ main \in {"exit", "abort"} => ReadConfig(file) = main
  /\ main \notin {"config", "exit", "abort"} => ReadConfig(file) = "ok"

(* The main thread goes on with a file that was read. *)
LEMMA FileWasReadCorrect == StartupSpec => []FileWasRead
<1>1. StartupInit => FileWasRead
  BY DEF StartupInit, FileWasRead
<1>2. FileWasRead /\ [StartupNext]_allVars => FileWasRead'
  <2> SUFFICES ASSUME FileWasRead, [StartupNext]_allVars
               PROVE  FileWasRead'
    OBVIOUS
  <2> USE DEF FileWasRead
  <2>1. CASE ReadConfiguration
    BY <2>1 DEF ReadConfiguration
  <2>2. CASE ConstructProvider \/ StartEndpoint \/ AddMetric
             \/ EndConfiguration
    BY <2>2 DEF ConstructProvider, StartEndpoint, AddMetric, EndConfiguration
  <2>3. CASE ~ReadConfiguration /\ ~ConstructProvider /\ ~StartEndpoint
             /\ ~AddMetric /\ ~EndConfiguration
    <3>1. UNCHANGED mainVars
      BY <2>3 DEF StartupNext, Main, Worker, Register, GenerateReadGroups,
         PlaceSymbol, StartPass, StartRead, SkipGroup, EndRead, EndPass,
         Check, NoDevice, EndMark, StateIsRun, StateIsNotRun, GetStateFails,
         HandleDeadADSConnection, StartInvalidate, Retry, BuildPage,
         PlcChanges, allVars
    <3> QED BY <3>1 DEF mainVars
  <2> QED BY <2>1, <2>2, <2>3
<1> QED BY <1>1, <1>2, PTL DEF StartupSpec

(***************************************************************************)
(* The process goes on exactly with the files that are as described, and   *)
(* refuses the others with a message, unless a field is bad that is read   *)
(* outside the try blocks.                                                 *)
(***************************************************************************)
THEOREM OnlyValidFilesRunCorrect == StartupSpec => []OnlyValidFilesRun
<1>1. file \in Files /\ FileWasRead => OnlyValidFilesRun
  <2> SUFFICES ASSUME file \in Files, FileWasRead PROVE OnlyValidFilesRun
    OBVIOUS
  <2>1. file \in File(Symbols)
    BY FilesAssumption
  <2>2. /\ ReadConfig(file) = "ok" <=> Valid(file)
        /\ ReadConfig(file) = "abort" => BadOutsideTry(file)
    BY <2>1, ReadConfigDecides
  <2> QED BY <2>2 DEF FileWasRead, OnlyValidFilesRun
<1> QED BY <1>1, FileIsKept, FileWasReadCorrect, PTL

=============================================================================
