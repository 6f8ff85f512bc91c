# Formal models of AdsPrometheusConnector

TLA+ models of the connector: a worker thread polls a Beckhoff PLC over ADS,
keeps the last value of every configured symbol, and an HTTP endpoint publishes
the values for Prometheus. The models are checked with TLC on small instances;
their main invariants are proved with TLAPS for all instances. Paths in this
file are relative to `src/`.

## 1. Inventory

| Component | State | Operations | Talks to |
|---|---|---|---|
| `AdsProvider_t`, grouping (`src/ADSProvidor.cpp:31-34, 242-259`) | `_symbolNames`, `_readGroups` | `addSymbol`, `generateReadGroups` | called by `main` through `config_t` |
| `AdsProvider_t`, worker (`src/ADSProvidor.cpp`) | `_device`, `_symbolCache`, `firstIteration`, the group's next read time | `threadLoop`, `readGroups`, `readGroup`, `updateSymbolProcessDataBuffer*`, `checkADSConnection`, `handleDeadADSConnection` | PLC (ADS calls), `ProcessDataBuffer_t` (stores), `main` (`_symbolNamesMutex`) |
| `AdsVariableList` (`src/AdsVariableList.h`) | names, entries, answer buffer, `_dirtyADSCom` | constructor, `read`, `getSymbolData` | the cache, `AdsDevice::ReadWriteReqEx2` |
| `ProcessDataBuffer_t` (`src/ProcessDataBuffer.*`) | `_symbolsValues`, `_readGroupMetrics` | `setSymbolData`, `getSymbolData`, `insertReadGroupMetric`, ... | written by the worker, read by the endpoint, one mutex |
| `PrometheusEndpoint_t` (`src/PrometheusEndpoint.*`) | `_metrics` | `addSymbol`, the handlers of `/metrics` and `/additionalInformation` | reads the process data buffer |
| `grafanaMetricGenerator_t` (`src/prometheusBuilder.*`) | none | text exposition and escaping | called by the endpoint |
| `config_t` (`src/Configuration.*`) | the parsed configuration | `readConfig`, `configureADSProvidor`, `configurePrometheusEndpoint` | called by `main`, calls the provider and the endpoint |
| `main` (`src/main.cpp`) | none | constructs and configures the others, then sleeps | all of the above |
| AdsLib `AmsConnection` (`external/ADS/AdsLib/standalone/AmsConnection.cpp`) | one request/response slot per port, the invoke id, the socket | `AdsRequest`, `Reserve`, `Write`, `Wait`, `Recv`, `ReceiveFrame`, `Notify` | calling threads, receiver thread, remote router |
| AdsLib `AmsRouter`, ports, `AdsDevice`, sockets | routes, reference counts, open ports | `AddRoute`, `DelRoute`, `OpenPort`, ... | below `AdsDevice` |

Not reachable from the connector, and left out: notifications and the ring
buffer of AdsLib, its file, EtherCAT, license, registry, symbol and router
services, the TwinCAT back end and the `adstool` program; Pistache and
nlohmann/json are third-party code.

### What is hard here

- **Outages.** The PLC vanishes, stops, or gets a new program while the worker
  polls, is between a failed read and its check, or already waits. Cached
  addresses and values published as good must not survive it; afterwards the
  worker must get back to reading.
- **Partial failure.** One name of a group may not resolve, a sum-up read may
  fail after some of its buffer was filled, a symbol may have no data.
- **Positions.** Three sequences (names, entries, answer) are walked by position.
- **Interleaving below the calls.** A timeout races the receiver, a late answer
  meets the next request of the same port, the receiver writes straight into the
  buffer of the waiting thread, a connection is closed in the middle of a frame.
- **Start-up.** The worker runs before the symbols are registered and the groups
  generated, and the endpoint serves before its metrics are registered; some of
  these steps take no lock, and the worker keeps the mutex while it reconnects.
- **Bad files.** Some fields are read inside try blocks, some outside, and one
  conversion throws what the catch clause does not catch.
- **Time.** Reads and checks take time; passes that are late follow one another
  without sleep.

### What makes each component correct

- Grouping: each symbol in exactly one group, of its own scraping time, within
  the limit, and no group too many.
- Worker: outages are visible; no stale address after an outage; a good read
  publishes the right data; recovery and publication of loss.
- List: lookup by name gives the slot of that name.
- Configuration: exactly the documented files are accepted, and no bad field is
  let through.
- Start-up: it ends; no symbol is added under the marking of the symbols once the
  worker has been through a check, nor are groups polled without a device; what is
  published is polled.
- Timing: how late a read may be, and that a late worker catches up.
- Process data buffer: the flag and the metric tell what happened.
- Endpoint: values keep the time of their read, times never go back, and a page
  that shows a read of a group shows its values.
- Text: help texts, types and labels read back to what was configured.
- `AmsConnection`: one owner of a slot at a time; the receiver only touches the
  buffer of a live call; a call returns what *its* answer said; calls return.

## 2. Modules

| Module | Models | Main runs |
|---|---|---|
| `ReadGroups` | `addSymbol`, `generateReadGroups` | `startup` |
| `ReadGroupsProofs` | proofs about it | |
| `Configuration` | `config_t::readConfig` and all it calls, as operators | `startup` |
| `ConfigurationProofs` | proofs about it | |
| `Startup` | `main`, worker and endpoint from the file to the endless loop of `main`; extends the two above | `startup` |
| `StartupProofs` | proofs about it | |
| `PollSchedule` | `threadLoop` and the times that its steps take | `poll`, `poll_max` |
| `PollScheduleProofs` | proofs about it | |
| `AdsVariableList` | `getSymbolData` as pure operators | through `AdsProvider` |
| `AdsProvider` | the worker, the start-up steps of `main` that it waits for, the PLC | `provider*` |
| `AdsProviderProofs` | proofs about it and about `AdsVariableList` | |
| `AdsCall` | abstract: what `AdsRequest` promises to its callers | as property `ImplementsAdsCall` |
| `AmsConnection` | callers, slots, receiver thread, remote side | `ams*` |
| `AmsConnectionProofs` | proofs about it, and that it implements `AdsCall` | |
| `Scrape` | `generateEndpointData` and `generateAdditionalData` against the worker's calls of `ProcessDataBuffer_t` | `scrape` |
| `ScrapeProofs` | proofs about it | |
| `PrometheusText` | `generateMetric` and all it calls | `text` |
| `PrometheusTextProofs` | proofs about it | |
| `MCStartup`, `MCAdsProvider`, `MCPollSchedule`, `MCAmsConnection`, `MCScrape`, `MCPrometheusText` | constants of the instances | |

### ReadGroups

The loop of `generateReadGroups` is one action per symbol. A scraping time is a
value of `Times`; `GroupLimit` stands for the 200 symbols that a group may hold
(`src/ADSProvidor.cpp:248`). Symbols are added in any order and number, which
stands for all configurations; their names are unique, being keys of JSON. The
module has a specification of its own, about which `ReadGroupsProofs` proves;
`Startup` conjoins its actions with what the other threads do.

### Configuration and Startup

A file is how each of its fields reads: `right`, `absent`, `wrong` (another JSON
type) or `unknown` (a text that the conversion refuses). Each field has an
*outcome* per reading (`ok`, `exit` with a message, `abort` by an uncaught
exception), which is where it is read: inside a try block (`Mandatory`,
`Optional`), by `std::stoi` inside one (`NetId`), or outside (`Unguarded`, `Show`,
`Labels`). The first field in the order of the code that does not go on decides.
`Valid` is the reference, written without an order.

`Startup` adds the three threads. `main` follows the main thread (`config`,
`construct`, `configure`, `metrics`, `serve`, or `exit` and `abort`), `wpc` the
worker (`groups` and `read`: the pass; `check`: top of the loop of
`checkADSConnection`; `mark`: the unlocked `setAllVariablesToInvalid`; `connect`: the
unlocked wait for the first connection; `reconnect`: marking and waiting with the
mutex; `retry`: behind the catch clause, and `invalidate`: the marking with the mutex
in the first iteration), `epc` the endpoint's thread. The grouping is that of
`ReadGroups`, whose variables are part of the state, so a pass of the worker falls
between any two symbols of `generateReadGroups`.

- A data race on a vector is a choice: the process dies (`alive`) or goes on as if
  nothing had happened. Other outcomes of the undefined behaviour are left out.
- Any group may be due, except that nothing is said about when.
- The PLC is in RUN, or answers without being in RUN, or is down. A PLC that is not
  in RUN keeps the worker in `checkADSConnection`, which then holds the mutex only
  while it invalidates.
- Before the worker's first check has ended three things do go wrong, and no property
  says otherwise: `addSymbol` overlaps with the unlocked marking
  (`src/ADSProvidor.cpp:296`), `generateReadGroups` with a pass (`:243`), and a group
  that is due without a device ends the process (`:210`). Later the second one
  may still happen, if `main` is slow, and `_metrics` is never guarded
  (`src/PrometheusEndpoint.cpp:24`): the endpoint may be at it until `main` has added
  the last metric.

### PollSchedule

The clock is relative: `since[g]` is the time since `lastRead` of a group, `lag` the
clock minus `next`. Each read takes up to `MaxRead`, each check up to `MaxCheck`, or
one of `Waits` if the worker has to wait for the PLC; after a wait `next` is set to
now, but not after the wait for the first connection (`CheckConnects`), since
`checkADSConnection` then returns false. Simplified: the groups exist from the
start, with `lastRead` of one moment; `sleep_until` is exact; the worker gets the
mutex at once.

### AdsProvider and AdsVariableList

`pc` follows the worker: `poll` (top of `threadLoop`), `groups` (loop of
`readGroups`), `resolve` (constructor of `AdsVariableList`), `request`
(`read`), `catch` (catch clause of `readGroup`), `store` (loop over the names),
`metric` (`insertReadGroupMetric`), `check` (`checkADSConnection`), `connect`
(wait for the first connection), `reconnect` (`handleDeadADSConnection`),
`invalidate` (`setAllVariablesToInvalid`), `crashed`.

- A *value* is abstracted to its provenance: the symbol that the PLC keeps at the
  address that was read, or `NoData` for zero bytes. Types matter only in one
  respect: BOOL is tested for `nullptr` before it is used and other types are not
  (`BoolSymbols`).
- A *program* of the PLC (`era`) is which symbols it exports and where it keeps
  them. `Download` moves to the next one, only while the PLC is not in RUN.
  The PLC may be back in RUN before the worker has seen it elsewhere:
  `README.md:39` names this as a limitation. `resumed` is the program that the
  worker noticed last, and `Recovery` speaks of programs that were noticed.
- The mutex `_symbolNamesMutex` is the predicate `MutexHeld` over `pc`.
- The answer to an incomplete request may be an error or may succeed: the request
  names more items than the buffer describes.
- Simplified: `generateReadGroups` and the first pass of
  `setAllVariablesToInvalid` are single steps although they take no lock
  (`Startup` takes them apart). A group's scraping time is a flag `due`, set by an
  action of its own; how long things take is in `PollSchedule`. ADS state numbers outside the table of names are
  not modelled.
- Ghost variables (`verdict`, `attempt`, `resumed`) record what
  happened and guard no action of the worker.

### AmsConnection and AdsCall

A call chooses its port, so threads share one or not. Each slot is the record of
the two atomics (`request`, `invokeId`), the flag `wasWritten` and `errorCode`.
Compare-and-exchange and exchange are single steps; everything else between them
interleaves. The remote side answers the requests on `wire` in any order or never.
An answer is `data`; or a `failure`, whose body has a result other than 0, such as
a symbol that is not found: it is read and copied like data, may stall and be cut
like it, and `NotifyAnswer` passes its result on (`header.result()`); or an `error`,
which never touches the buffer: an error in the AoE header, a frame that is too long,
an unknown command. `Close` ends the connection, and the receiver is `dead` after it,
or `cut` if it was inside a frame. A frame that stalls leaves the receiver `lost` in the stream, since
`ReceiveJunk` counts from before the body. `AdsCall` has only the four things a
caller can see: call in progress, whether it was answered, what it returned, what
its buffer holds. `AmsConnection!Abstract` is the refinement mapping.

Abstracted: all results of a body other than 0 are `"failure"`, all errors of a
header or of an over-long or unknown frame `"error"`; a request whose write failed is
not answered; invoke ids do not wrap (`MaxId`). `errorCode` of a free slot and the
frame of a receiver that reads none are dead values, which the model resets and the
code leaves.

### Scrape

Two threads and the process data buffer, whose mutex makes each of its calls one
step. `wpc` follows the worker: `mark` (the names of a group whose read failed),
`store` (the loop over the names, each published or marked), `invalidate`
(`setAllVariablesToInvalid`). `epc` follows the endpoint: `symbol` (before the
line of a value), `extra` (its additional lines). The page is not kept: `line` is
its last line, `dump` the copy of the group metrics it begins with, and the ghost
`served` the last time stamp printed for each symbol.

Of the worker only its calls are modelled, in their order and with any outcome;
which outcomes go together is the subject of `AdsProvider`. The value and the
durations of a store are represented by its time, so that the properties can tell
which read a number comes from. The clock is assumed not to go back.

### PrometheusText

Strings are sequences of tokens. Help texts and label values are sequences of
characters of four kinds (ordinary, quote, backslash, line break); metric names,
label names, numbers and times are one token each. The escaping loops are one
action per round, as they insert into the string that they walk. `HelpLine` and
`DataLine` are the reference: what the format asks for, written without a loop
index. `MaxLength` is the length of the longest text considered; nothing but the
bound of `TypeOK` depends on it.

## 3. Runs

| Run | Shows | Bounds |
|---|---|---|
| `startup` | `OnlyValidFilesRun`, `Partition`, `TightGroups`, `PublishedSymbolsAreRead`, `PollsWithDevice`, `InformationIsPrefix`, `RegistrationIsGuarded`, `StartupEnds`, types | all sequences of 2 scraping times for up to 4 symbols (one of them nameless), limit 2: groups fill up, interleave and are read while they grow; all files that differ from a valid one in one field, and those that differ in two, one of them of each way to be read |
| `provider` | `TypeOK`, `OutageIsVisible`, `NoAddressSurvivesOutage`, `GoodReadIsAttributed`; `Recovery`, `LossIsPublished` under fairness | 2 groups of 2 and 1 symbols, 2 programs that swap two addresses and gain a symbol: incomplete lists, stale addresses, both lookup branches and the crash all occur, outages any number of times |
| `provider_flag`, `provider_other`, `provider_metric`, `provider_crash` | what a comment says and the code does not do (section 6) | as small as the case needs |
| `ams` | `TypeOK`, `SlotHasOneOwner`, `ReceiverUsesLiveRequest`, `ImplementsAdsCall`; `CallsReturnUnlessCut` under fairness | 2 threads, 2 ports, 3 ids, answers of all three kinds: a port is shared, or reused after a timeout while the late answer is under way |
| `ams_hang` | the call that never returns (section 6) | 2 ids |
| `scrape` | `TypeOK`, `ValueHasItsTime`, `GroupIsNotAhead`, `NumberIsNotAhead`, `TimesNeverGoBack` | 2 groups of 2 and 1 symbols, a page in another order with 2 additional lines, 3 stores: reads fail, succeed and overtake a page between any two lines |
| `poll` | `TypeOK`, `ReadInTime`; `CatchesUp` under fairness | 3 groups due in every pass, in every second and in between, period 8, reads up to 2, checks up to 1: the bound of `ReadInTime` is reached exactly, and waits of up to two periods and a half leave the worker behind |
| `poll_max` | the documented worst case (section 6) | the same |
| `text` | `TypeOK`, `LabelsReadBack`, `HelpReadsBack` | all help texts and label values of up to 3 characters: the loop skips a character and meets the one after it |

Deadlock is checked in `poll`. In the others it is not: the process ends on a bad
file, the text of a metric ends, a crashed process stops, the ids of
`AmsConnection` and the stores of `Scrape` run out. The first three are real ends
of the modelled system, the last two are bounds.

*Why the bounds are enough.* A group interacts with another only through the
cache, the buffer and the check between passes, so two groups show it. A list
goes wrong by one missing name before another, so two names show it, and two
programs show every stale address. A slot is contended by two threads; with two
ports they also show that ports do not interfere. Each field of a file is
independent of the others except for the order in which they are read, so two bad
fields show what a third could. The proofs below remove the bounds for every
safety property that a run checks; what rests on the bounds alone is liveness.

### Fairness

- `AdsProvider`: weak fairness of the worker (a thread that is scheduled and
  whose ADS calls return, which `CallsReturnUnlessCut` is about) and of
  `generateReadGroups`; strong fairness of `addSymbol`, which needs a mutex that
  the worker takes and releases again and again: between two passes it sleeps
  without it, as `pollTimeResolution` is positive; weak fairness of time. Nothing
  of the PLC: the properties' left sides say what it does.
- `AmsConnection`: weak fairness of a thread inside a call (this includes its
  deadline, as the wait is timed) and of the receiver on a frame it has matched
  (its read has a deadline). Nothing of the remote side.
- `Startup`: strong fairness of the main thread, for the same mutex, and weak
  fairness of the worker. Nothing of the PLC and of scrapes: `StartupEnds` allows
  for a PLC that was lost and stays away.
- `PollSchedule`: weak fairness of the worker.

## 4. Proofs

All theorems are checked by TLAPS for every value of the constants, under the
named assumptions of the modules, which TLC evaluates on each instance:

- `ReadGroups`: the limit is positive and the rest is typed.
- `GroupsAssumption`, `ProgramsAssumption` (`AdsProvider`): groups are non-empty
  sequences of symbols, and one program keeps two symbols at two addresses.
- `FilesAssumption` (`Startup`): a file is a record of `File`, each of whose fields
  reads in one of its ways; its variables have different names, being keys of
  JSON, and times that `ReadGroups` knows.
- `ScheduleAssumption` (`PollSchedule`): times are natural numbers.
- `PortsAssumption` (`AmsConnection`): there are ports, `NoCaller` is no caller, and
  `MaxId` is a number.
- `PageAssumption` (`Scrape`): groups and the page are sequences of symbols, and
  `MaxTime` is a number.
- `TextAssumption` (`PrometheusText`): texts are sequences of characters, quote,
  backslash and line break among them, and no longer than `MaxLength`.

- **`ReadGroupsProofs`**: `TypeCorrect`, `PartitionCorrect`,
  `TightGroupsCorrect`. The inductive invariant adds to the two properties which
  symbols have been placed so far and that a symbol not placed yet is in no
  group. Without this, placing it could duplicate it.
- **`AdsProviderProofs`**: `TypeCorrect`, `OutageIsVisibleCorrect`,
  `NoAddressSurvivesOutageCorrect`, `GoodReadIsAttributedCorrect`, from the
  inductive invariant `Inv`, whose further conjuncts are
  - `Registration`: groups are generated after all registrations, and only
    registered symbols carry a success flag. `checkADSConnection` marks only what
    is registered, so `OutageIsVisible` needs this.
  - `Waiting`: from the first iteration of `setAllVariablesToInvalid` to the
    return of the check the cache is empty. So nothing can be stale when the
    worker resumes, which is `NoAddressSurvivesOutage`.
  - `CacheIsGenuine`: a cached address is what some program said of that symbol.
  - `ListIsAligned`: as long as no name was skipped entry i is that of name i;
    with current addresses the answer is then the sequence of the names, and
    `CleanLookupFindsName` gives `GoodReadIsAttributed`, repeated names included.

  One lemma per conjunct shows that every step keeps it; `FlagsOnlyFall` and
  `CacheChange` say once for all actions what a step does to the buffer and to
  the cache. `LookupOfCompleteList` is about the list alone: if it is complete
  and repeats nothing, `getSymbolData` gives the slot of the name whether or not
  `_dirtyADSCom` is set. It rests on `FirstOfIsLeast` (a non-empty set of positions
  has a least one, from the library's well-foundedness of `<`).

- **`ConfigurationProofs`**: `ReadConfigDecides`, for files with any number of
  variables and additional metrics: the parser, which takes the fields one after
  the other and stops at the first that does not go on, goes on with exactly the
  files that `Valid` describes without an order. `FirstDecides` is the rule of the
  first outcome that is not `ok`; `ConcatElements` and the lemmas per block say
  that the blocks hold just the outcomes of their fields.
- **`StartupProofs`**:
  - `GroupsAtStartup`: the theorems about `ReadGroups` hold of a start-up with worker
    and endpoint running, by the lemma `GroupingImplemented`. This one is easy, as
    the actions of `Startup` conjoin those of `ReadGroups` or leave its variables
    alone; it is there to carry those theorems over.
  - `StartupTypeCorrect`.
  - `PublishedSymbolsAreReadCorrect`, from the invariant `PublishInv`: what is
    registered is a beginning of the file (`Registered`), registration is complete
    before the groups are and the groups before the endpoint exists (`Order`), and
    what is published is the first `added` names but the empty one. With the
    partition this says that all of them are in groups.
  - `PollsWithDeviceCorrect` and `RegistrationIsGuardedCorrect`, from `DeviceInv`: a
    check ends with a device, the worker takes it away only within a check and with
    the mutex, and so no later check begins without one, which is the only way to
    the marking without the mutex.
  - `OnlyValidFilesRunCorrect`, from `FileWasRead` (beyond `readConfig` there are
    only files whose outcome is `ok`) and `ReadConfigDecides`.
  - `InformationIsPrefixCorrect`, from `InfoInv`: there is one list per group that
    was read, and it is a beginning of the group. It stays one, as groups only
    grow at their ends (`GroupsGrow`, by the lemma `GroupingGrows`).
- **`PollScheduleProofs`**: `TypeCorrect` and `ReadInTimeCorrect`, for any number of
  groups and all times. The inductive invariant `Punctual` bounds how much longer
  ago than its scraping time a group was read, in two ways at once: by the clock
  (`lag`) and by the number of reads in the pass. A group that this pass has
  tested: less than `lag`, and less than the reads so far; one still to be tested:
  `Gap` and the reads so far; while the worker sleeps: `lag` and the period, and a
  whole pass. Both are needed, as the clock decides if the worker sleeps and the
  reads how long a late pass takes.

- **`AmsConnectionProofs`**: `TypeCorrect`, `SlotHasOneOwnerCorrect`,
  `ReceiverUsesLiveRequestCorrect` and the refinement `AdsCallImplemented`, for any
  number of threads, ports and ids. `SlotHasOneOwner` is inductive beside the
  types; the receiver needs more, and the conjuncts of `Inv` are
  - `IdsAreFresh`: no two callers have the same id, and none is beyond the last
    that was given out.
  - `OneAnswer`: requests and frames on the way come from calls that have written
    them; a request on the way is not answered yet, and a frame on the way is what
    its call was answered.
  - `Armed`: the id in a slot is that of a call to this port that writes or waits,
    or of nobody's call any more, and a request or a frame with this id belongs to
    a call that waits. This is what turns a late answer away.
  - `Collected`: a slot that was notified fits the answer that its owner gets.
  - `ReadsForCaller`: while the receiver reads a body, the owner of the slot cannot
    leave, as the receiver holds the id.

  The lemmas come in three sorts, for a step of a caller, of the receiver and of
  the remote side. In `AdsCallImplemented` taking the id is the abstract `Call`,
  the answer of the remote side is `Answer`, the receiver's copy into the buffer
  `Fill`, that of an answer with a failure in its body too, and the last step of a call, in each of its forms, `Return`; all other
  steps are stuttering.
- **`ScrapeProofs`**: `TypeCorrect`, `ValueHasItsTimeCorrect`,
  `GroupIsNotAheadCorrect`, `NumberIsNotAheadCorrect`, `TimesNeverGoBackCorrect`,
  for any number of symbols, groups and stores. `Grows` says what any step of the
  worker does to the data: times do not fall, and what counts as read was read or
  is new. `StoresAreTimed` adds that no value is newer than the clock and that the
  copies of the endpoint are not newer than the data; `GroupsAreStored` that the
  names of a group are stored before its metric is, of which the names behind
  the loop's index are the exception.
- **`PrometheusTextProofs`**: `TypeCorrect`, `LabelsReadBackCorrect`,
  `HelpReadsBackCorrect`, for texts of every length and any number of labels.
  `HeadsFlatten` unfolds the reference, which flattens a sequence of pieces, into
  appending one piece after the other. `Escapes` is the invariant of the loop: the
  string is the escaped form of the first k characters and then the rest of the
  text, and the index is behind the escaped part, or one further at the end of the
  text. The loop skips a character after an escaped one; that this is harmless is
  just what `Simple` says. `HelpWritten` and `LabelsWritten` say how far the text
  has got at each place of the program; after the type line something stands
  behind the help line, so that the comma that `generateLabel` takes back
  is never the help text's. That the string at most doubles holds of all texts:
  each inserted backslash moves the index by three (`Bounded`).

Every safety and action property and the refinement that a passing run checks are
thus proved. Only model-checked are the liveness properties (`Recovery`,
`LossIsPublished`, `CallsReturnUnlessCut`, `StartupEnds`, `CatchesUp`): liveness
under fairness needs ENABLED, which TLAPS does not handle.

## 5. Not modelled

- The root page `/`, a constant text.
- JSON itself, the command line and the texts of the configuration: input of the
  library, wording.
- `AmsRouter` routes and ports, `AdsDevice` and sockets below the outcomes of their
  calls: vendored code, of which the connector uses one route and one port at a
  time, and byte handling.
- The destructors: `main` never returns.
- Functions without a caller: `AdsVariableList::write`, `setSymbolData`,
  `getSymbolSize`, `getStateCode`; the deprecated accessors of
  `ProcessDataBuffer_t`; `serve` of the endpoint.
- ADS answers that are malformed or too short: `AdsDevice` throws a
  `std::runtime_error` (`external/ADS/AdsLib/AdsDevice.cpp:254`) that the catch clauses
  for `AdsException` let through, so that it ends the process. `Resolve` of
  `AdsProvider` has only the outcomes of a well-formed answer.
- JSON booleans where a number is expected: the library converts them. `wrong` stands
  for the types that it refuses.
- The wrap-around of invoke ids after 2^32 requests, and the text of the scraping time
  before it is cut to whole milliseconds.
- Members that are read before they are assigned (`src/ProcessDataBuffer.cpp:38`) and
  metric names that become equal when dots are replaced
  (`src/PrometheusEndpoint.cpp:52`): listed as hazards without a property.

## 6. Disagreements between code and comments

1. `provider_flag`: after a failed sum-up read, `readGroup` goes on to the store
   loop (`src/ADSProvidor.cpp:225`) and publishes zeros as successfully read;
   `src/ProcessDataBuffer.h:17` says the flag is true if the last read attempt was
   successful.
2. `provider_other`: a name that does not resolve shifts the data of the names
   after it (`src/AdsVariableList.h:41`); they are published under each other's
   names.
3. `provider_metric`: the success metric of a group never changes after its first
   read (`src/ProcessDataBuffer.cpp:47`).
4. `provider_crash`: a symbol that is not BOOL and has no data is read through
   `nullptr` (`src/ADSProvidor.cpp:119`), instead of being marked as failed.
5. `ams_hang`: a connection closed in the middle of an answer ends the receiver
   without notifying the waiting thread, whose second wait has no deadline
   (`external/ADS/AdsLib/standalone/AmsConnection.cpp:36`);
   `external/ADS/AdsLib/AmsConnection.h:58` says that it waits for the response or
   the timeout.

6. `poll_max`: `README.md:128` calls `pollTimeResolution` "in the worst case the
   allowed deviation of the scraping time" and gives t_max = t_s + t_p. Reads take
   time, `lastRead` is the time after them (`src/ADSProvidor.cpp:239`), and a group
   waits for those before it, so a group may be tested later than that, though
   every pass fits into the period. `ReadInTime` is the bound that holds. With a
   scraping time equal to the period, a read that takes any time at all makes the
   group miss every second pass.

`GoodReadIsAttributed`, `Recovery`, `CallsReturnUnlessCut` and `ReadInTime` say what
holds beside these.

Met while modelling, and not stated as runs:

- a group that the worker reads while `generateReadGroups` is still filling it
  keeps a list that is too short on the information page for ever
  (`src/ProcessDataBuffer.cpp:47`), where `src/ADSProvidor.h:59` says that "a symbol
  may only be read after" the groups were generated; `InformationIsPrefix` says
  what holds;
- `src/ADSProvidor.h:140` says that `checkADSConnection` returns "if the connection
  was lost or paused"; after the wait for the first connection it returns false
  (`src/ADSProvidor.cpp:305`), so passes follow one another without sleep until
  `next` has caught up (`CatchesUp`);
- `src/ADSProvidor.h:160` says of `_device` "expect this variable to ALWAYS have a
  device": a group that is due before the first connection ends the process
  (`src/ADSProvidor.cpp:210`); `PollsWithDevice` says from when on it holds;
- fields outside the try blocks (`src/Configuration.cpp:146`) end the process by an
  exception without the message that the others give, as does a net id that is
  not a number, since `std::stoi` throws no json exception
  (`src/Configuration.h:124`); a net id with fewer than six parts repeats its last
  one, and larger parts wrap around;
- the comments at `src/Configuration.cpp:14` and `src/Configuration.h:18` name the
  field `remoteIPv4`, which the code reads as `remoteIp`;
- an additional line takes its number from one copy of the symbol's data and its
  time stamp from a later one (`src/PrometheusEndpoint.cpp:70`), so they may belong
  to two reads; `NumberIsNotAhead` says what holds;
- for a symbol that was never read the durations of `symbolData_t` are printed
  without ever having been assigned (`src/ProcessDataBuffer.cpp:38`);
- the escaping loops skip the character after an escaped one and do not escape
  line breaks (`src/prometheusBuilder.cpp:21`), where
  `src/prometheusBuilder.h:78` says "properly escape the label text";
  `LabelsReadBack` and `HelpReadsBack` leave such texts out;
- the type is printed on a line of its own (`src/prometheusBuilder.cpp:56`), where
  `README.md:213` shows it behind the name.

## 7. Plan

The modules and the proofs of all checked safety properties are done. What is
left is to come closer to the liveness properties with proofs:

1. `PollSchedule`: the step behind `CatchesUp`, that a late pass that waits for
   nothing and takes less than the period lowers `lag`.
2. `AmsConnection`: the steps behind `CallsReturnUnlessCut`, that a call past its
   deadline is held up only by the receiver that reads its answer.
3. `AdsProvider`: the steps behind `Recovery`, that with the PLC in RUN and no new
   program a pass over fresh addresses leaves every symbol of a complete list
   read.
