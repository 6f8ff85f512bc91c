------------------------------- MODULE Startup -------------------------------
(***************************************************************************)
(* Start-up: main reads the configuration, constructs the provider, whose  *)
(* worker runs from then on, registers the symbols, generates the groups   *)
(* (ReadGroups, whose variables are part of this state), constructs the    *)
(* endpoint, whose thread serves from then on, and registers the metrics.  *)
(*                                                                         *)
(* _symbolNamesMutex guards addSymbol and the worker's polling, but not    *)
(* generateReadGroups nor the marking of the symbols where there has been  *)
(* no device yet, and nothing guards _metrics.  Where one thread changes a *)
(* vector while another is iterating over it, the process may die, or goes *)
(* on as if nothing had happened.                                          *)
(*                                                                         *)
(* checkADSConnection is followed label by label, as far as it concerns    *)
(* the mutex and the device.  Of a read only which group it reads counts,  *)
(* and any group may be due: AdsProvider has the rest.                     *)
(***************************************************************************)
EXTENDS ReadGroups, Configuration

CONSTANTS
  Files,    \* the configuration files
  Nameless  \* the symbol whose name is empty

(* The variables are keys of one JSON object, so their names are unique. *)
ASSUME FilesAssumption ==
  \A f \in Files :
    /\ f \in File(Symbols)
    /\ \A i, j \in DOMAIN f.variables :
         f.variables[i].name = f.variables[j].name => i = j
    /\ \A i \in DOMAIN f.variables :
         ScrapingDuration(f.variables[i]) \in Times

VARIABLES
  main,     \* where the main thread is
  file,     \* the configuration file, and what config_t has read from it
  plc,      \* the PLC: "run", "stop" (reached, not in RUN) or "down"
  device,   \* _device has a value
  wpc,      \* where the worker is, "off" before its thread runs
  turn,     \* index of its loop over _readGroups
  reading,  \* symbolsToRead: copy of the names of the group
  info,     \* _readGroupMetrics: [group, symbols]
  firstIteration,  \* of checkADSConnection
  checked,  \* ghost: the worker has returned from a check of the connection
  added,    \* how many metrics configurePrometheusEndpoint has handled
  metrics,  \* _metrics
  epc,      \* where the endpoint's thread is, "off" before it runs
  alive     \* the process has not died

mainVars == <<main, file, added, metrics>>
checkVars == <<device, firstIteration, checked>>
workerVars == <<plc, wpc, turn, reading, info, checkVars>>
allVars == <<vars, mainVars, workerVars, epc, alive>>

StartupInit ==
  /\ Init
  /\ main = "config"
  /\ file \in Files
  /\ plc \in {"run", "stop", "down"}
  /\ device = FALSE
  /\ wpc = "off"
  /\ turn = 1
  /\ reading = <<>>
  /\ info = {}
  /\ firstIteration = TRUE
  /\ checked = FALSE
  /\ added = 0
  /\ metrics = <<>>
  /\ epc = "off"
  /\ alive = TRUE

(* Mistake: the first connection is awaited with the mutex, too. *)
MutexHeldConnecting ==
  wpc \in {"groups", "read", "connect", "reconnect", "invalidate"}

(* Mistake: no scoped_lock around the invalidation. *)
MutexHeldReconnecting == wpc \in {"groups", "read", "reconnect"}

(* The worker's scoped_locks in threadLoop and in checkADSConnection, the  *)
(* latter while it marks and reconnects and while it invalidates.          *)
MutexHeld == wpc \in {"groups", "read", "reconnect", "invalidate"}

(* setAllVariablesToInvalid iterates over _symbolNames. *)
Marking == wpc \in {"mark", "reconnect", "invalidate"}

(* A step that changes what another thread is using. *)
Survives(overlap) == alive' \in (IF overlap THEN BOOLEAN ELSE {TRUE})

-----------------------------------------------------------------------------
(* The main thread. *)

ReadConfiguration ==
  /\ main = "config"
  /\ \E outcome \in {"ok", "exit", "abort"} :
       /\ ReadConfig(file) = outcome
       /\ main' = IF outcome = "ok" THEN "construct" ELSE outcome
  /\ UNCHANGED <<vars, file, added, metrics, workerVars, epc, alive>>

ConstructProvider ==
  /\ main = "construct"
  /\ device' = (plc # "down")
  /\ wpc' = "poll"
  /\ main' = "configure"
  /\ UNCHANGED <<vars, file, added, metrics, plc, turn, reading, info,
                 firstIteration, checked, epc, alive>>

Register ==
  /\ main = "configure"
  /\ ~MutexHeld
  /\ Len(symbolNames) < Len(file.variables)
  /\ LET v == file.variables[Len(symbolNames) + 1]
     IN AddSymbol(v.name, ScrapingDuration(v))
  /\ Survives(Marking)
  /\ UNCHANGED <<mainVars, workerVars, epc>>

GenerateReadGroups ==
  /\ main = "configure"
  /\ \/ Len(symbolNames) = Len(file.variables) /\ StartGenerate
     \/ EndGenerate
  /\ Survives(FALSE)
  /\ UNCHANGED <<mainVars, workerVars, epc>>

PlaceSymbol ==
  /\ main = "configure"
  /\ JoinGroup \/ OpenGroup
  /\ Survives(wpc \in {"groups", "read"})
  /\ UNCHANGED <<mainVars, workerVars, epc>>

(* Mistake: the endpoint is started and configured first. *)
StartEndpointFirst ==
  /\ main = "configure"
  /\ main' = "metrics"
  /\ epc' = "idle"
  /\ UNCHANGED <<vars, file, added, metrics, workerVars, alive>>

StartEndpoint ==
  /\ main = "configure"
  /\ stage = "done"
  /\ main' = "metrics"
  /\ epc' = "idle"
  /\ UNCHANGED <<vars, file, added, metrics, workerVars, alive>>

(* Mistake: what is kept is the variable of the configuration. *)
AddVariable ==
  /\ main = "metrics"
  /\ added < Len(file.variables)
  /\ added' = added + 1
  /\ metrics' = Append(metrics, file.variables[added + 1])
  /\ Survives(epc = "page")
  /\ UNCHANGED <<vars, main, file, workerVars, epc>>

(* PrometheusEndpoint_t::addSymbol refuses an empty name. *)
AddMetric ==
  /\ main = "metrics"
  /\ added < Len(file.variables)
  /\ added' = added + 1
  /\ LET name == file.variables[added + 1].name
     IN metrics' = IF name = Nameless THEN metrics ELSE Append(metrics, name)
  /\ Survives(epc = "page")
  /\ UNCHANGED <<vars, main, file, workerVars, epc>>

EndConfiguration ==
  /\ main = "metrics"
  /\ added = Len(file.variables)
  /\ main' = "serve"
  /\ UNCHANGED <<vars, file, added, metrics, workerVars, epc, alive>>

-----------------------------------------------------------------------------
(* The worker. *)

StartPass ==
  /\ wpc = "poll"
  /\ wpc' = "groups"
  /\ turn' = 1
  /\ UNCHANGED <<vars, mainVars, plc, reading, info, checkVars, epc, alive>>

(* _device.value() throws what nothing catches. *)
StartRead ==
  /\ wpc = "groups"
  /\ turn \in DOMAIN readGroups
  /\ reading' = readGroups[turn].members
  /\ wpc' = "read"
  /\ alive' = device
  /\ UNCHANGED <<vars, mainVars, plc, turn, info, checkVars, epc>>

SkipGroup ==
  /\ wpc = "groups"
  /\ turn \in DOMAIN readGroups
  /\ turn' = turn + 1
  /\ UNCHANGED <<vars, mainVars, plc, wpc, reading, info, checkVars, epc,
                 alive>>

(* Mistake: the groups are counted from the one after. *)
EndReadShifted ==
  /\ wpc = "read"
  /\ info' = info \cup {[group |-> turn + 1, symbols |-> reading]}
  /\ wpc' = "groups"
  /\ turn' = turn + 1
  /\ UNCHANGED <<vars, mainVars, plc, reading, checkVars, epc, alive>>

(* insertReadGroupMetric: a group that is there keeps its symbols. *)
EndRead ==
  /\ wpc = "read"
  /\ info' = IF \E m \in info : m.group = turn THEN info
             ELSE info \cup {[group |-> turn, symbols |-> reading]}
  /\ wpc' = "groups"
  /\ turn' = turn + 1
  /\ UNCHANGED <<vars, mainVars, plc, reading, checkVars, epc, alive>>

EndPass ==
  /\ wpc = "groups"
  /\ turn \notin DOMAIN readGroups
  /\ wpc' = "check"
  /\ UNCHANGED <<vars, mainVars, plc, turn, reading, info, checkVars, epc,
                 alive>>

(* checkADSConnection: what it takes from one label to another, and how it *)
(* leaves the device.  firstIteration is a variable of one call.           *)
Check(from, to, found) ==
  /\ wpc = from
  /\ wpc' = to
  /\ device' = found
  /\ checked' = (checked \/ to = "poll")
  /\ firstIteration' = (to = "poll" \/ (firstIteration /\ to # "invalidate"))
  /\ UNCHANGED <<vars, mainVars, plc, turn, reading, info, epc, alive>>

NoDevice == ~device /\ Check("check", "mark", FALSE)
EndMark == Check("mark", "connect", FALSE)
StateIsRun == device /\ plc = "run" /\ Check("check", "poll", TRUE)
StateIsNotRun == device /\ plc = "stop" /\ Check("check", "retry", TRUE)
GetStateFails == device /\ plc = "down" /\ Check("check", "reconnect", FALSE)

(* Mistake: one attempt, successful or not. *)
ConnectOnce ==
  \E from \in {"connect", "reconnect"} : Check(from, "poll", plc # "down")

HandleDeadADSConnection ==
  /\ plc # "down"
  /\ Check("connect", "check", TRUE) \/ Check("reconnect", "retry", TRUE)

(* The symbols are invalidated once, then the state is read every second. *)
StartInvalidate == firstIteration /\ Check("retry", "invalidate", TRUE)
Retry ==
  \/ ~firstIteration /\ Check("retry", "check", TRUE)
  \/ Check("invalidate", "check", TRUE)

-----------------------------------------------------------------------------
(* The endpoint's thread and the PLC. *)

(* The page is built while _metrics is iterated over. *)
BuildPage ==
  /\ epc # "off"
  /\ epc' = IF epc = "idle" THEN "page" ELSE "idle"
  /\ UNCHANGED <<vars, mainVars, workerVars, alive>>

PlcChanges ==
  /\ plc' \in {"run", "stop", "down"} \ {plc}
  /\ UNCHANGED <<vars, mainVars, wpc, turn, reading, info, checkVars, epc,
                 alive>>

Main ==
  \/ ReadConfiguration \/ ConstructProvider \/ Register
  \/ GenerateReadGroups \/ PlaceSymbol \/ StartEndpoint
  \/ AddMetric \/ EndConfiguration

Worker ==
  \/ StartPass \/ StartRead \/ SkipGroup \/ EndRead \/ EndPass
  \/ NoDevice \/ EndMark \/ StateIsRun \/ StateIsNotRun \/ GetStateFails
  \/ HandleDeadADSConnection \/ StartInvalidate \/ Retry

StartupNext == alive /\ (Main \/ Worker \/ BuildPage \/ PlcChanges)

StartupSpec == StartupInit /\ [][StartupNext]_allVars

(* Both threads are scheduled, and the main thread gets a mutex that is    *)
(* free again and again.  Nothing is assumed of the PLC.                   *)
StartupFairSpec ==
  /\ StartupSpec
  /\ SF_allVars(alive /\ Main)
  /\ WF_allVars(alive /\ Worker)

-----------------------------------------------------------------------------

(* Every variable holds a value of its type. *)
StartupTypeOK ==
  /\ main \in {"config", "exit", "abort", "construct", "configure",
               "metrics", "serve"}
  /\ file \in Files
  /\ plc \in {"run", "stop", "down"}
  /\ device \in BOOLEAN
  /\ wpc \in {"off", "poll", "groups", "read", "mark", "connect", "check",
              "reconnect", "retry", "invalidate"}
  /\ turn \in Nat
  /\ reading \in Seq(Symbols)
  /\ info \subseteq [group : Nat, symbols : Seq(Symbols)]
  /\ firstIteration \in BOOLEAN
  /\ checked \in BOOLEAN
  /\ added \in 0..Len(file.variables)
  /\ metrics \in Seq(Symbols)
  /\ epc \in {"off", "idle", "page"}
  /\ alive \in BOOLEAN

(***************************************************************************)
(* The process goes on to poll exactly with the files that the             *)
(* documentation describes, whichever field is read first, and every other *)
(* one is refused with a message unless a field is bad that is read        *)
(* outside the try blocks.                                                 *)
(***************************************************************************)
OnlyValidFilesRun ==
  /\ main = "exit" => ~Valid(file)
  /\ main = "abort" => BadOutsideTry(file)
  /\ main \notin {"config", "exit", "abort"} => Valid(file)

(***************************************************************************)
(* Every symbol that the endpoint publishes is in a group, so that it is   *)
(* read, from its first page on; when main is done, only the symbol        *)
(* without a name is in a group and not on the page.                       *)
(***************************************************************************)
PublishedSymbolsAreRead ==
  LET published == {metrics[i] : i \in DOMAIN metrics}
      grouped == UNION {Members(g) : g \in DOMAIN readGroups}
  IN /\ published \subseteq grouped
     /\ main = "serve" => published = grouped \ {Nameless}

(***************************************************************************)
(* ADSProvidor.h, line 160, says of _device: "expect this variable to      *)
(* ALWAYS have a device".  It does while groups are polled, outages        *)
(* included, once the worker has been through a first check.               *)
(***************************************************************************)
PollsWithDevice == checked /\ wpc \in {"poll", "groups", "read"} => device

(***************************************************************************)
(* The information page never shows a symbol under a group that it is not  *)
(* in, nor two lists for one group, though the worker may read groups that *)
(* the main thread is still filling: a list may only be too short.         *)
(***************************************************************************)
InformationIsPrefix ==
  /\ \A m \in info :
       /\ m.group \in DOMAIN readGroups
       /\ m.symbols = SubSeq(readGroups[m.group].members, 1, Len(m.symbols))
  /\ \A m, n \in info : m.group = n.group => m = n

(***************************************************************************)
(* _symbolNamesMutex does what it is for once the worker has been through  *)
(* a check: addSymbol, which may move the vector, never meets one of the   *)
(* three places that iterate over it to mark the symbols.  One of the      *)
(* three holds no mutex (line 296), so it must not be reached any more:    *)
(* that takes the device to be there whenever a check begins.  Before the  *)
(* first check has ended the two do meet.                                  *)
(***************************************************************************)
RegistrationIsGuarded ==
  [][checked /\ symbolNames' # symbolNames => ~Marking]_allVars

(***************************************************************************)
(* A valid file gets its page, though no PLC answers: the main thread ends *)
(* its start-up unless the process dies or the PLC, once connected, stays  *)
(* away, as the worker keeps the mutex while it reconnects.                *)
(***************************************************************************)
StartupEnds ==
  \/ <>(main \in {"serve", "exit", "abort"} \/ ~alive)
  \/ <>[](wpc = "reconnect")

=============================================================================
