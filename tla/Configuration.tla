--------------------------- MODULE Configuration ---------------------------
(***************************************************************************)
(* config_t: how the configuration file is read.                           *)
(*                                                                         *)
(* A file is represented by how each of its fields reads: "right",         *)
(* "absent", "wrong" (a JSON type that the library does not convert, as it *)
(* does a boolean to a number; for labels: the value of one), or "unknown" *)
(* (the right type with a text that the conversion does not accept; for    *)
(* labels: one of them has no value).  A step of the parser ends the       *)
(* process with a message ("exit"), or by a json or std exception that     *)
(* nothing catches ("abort"), or goes on ("ok"); the first step that does  *)
(* not go on decides.                                                      *)
(***************************************************************************)
EXTENDS Naturals, Sequences

Readings == {"right", "absent", "wrong", "unknown"}

(* A block such as "currentLastTime"; "show" is absent also when the block *)
(* is not an object.                                                       *)
AdditionalDataMetric ==
  [present : BOOLEAN, show : Readings, carryLabels : Readings,
   alias : Readings, customDescription : Readings, labels : Readings]

(* micros: the scraping time in millionths of a second. *)
Variable(names) ==
  [name : names, micros : Nat, alias : Readings, type : Readings,
   description : Readings, ADSDatatype : Readings, scrapingTime : Readings,
   labels : Readings, additional : Seq(AdditionalDataMetric)]

(* opens and parses: what the file system and the JSON library say of it.  *)
File(names) ==
  [opens : BOOLEAN, parses : BOOLEAN, hasGlobal : BOOLEAN,
   localNetId : Readings, remoteNetId : Readings, remoteIp : Readings,
   httpPort : Readings, pollTimeResolution : Readings,
   adsRemotePort : Readings, variables : Seq(Variable(names))]

Outcome(absent, wrong, unknown) ==
  [right |-> "ok", absent |-> absent, wrong |-> wrong, unknown |-> unknown]

(* Mistake: a missing mandatory field is taken for an optional one. *)
MandatoryForgotten == Outcome("ok", "exit", "exit")

(* Inside the try blocks, whose catch clause prints and exits, as do       *)
(* toPrometheusMetricType and toSymbolDataType.                            *)
Mandatory == Outcome("exit", "exit", "exit")
Optional == Outcome("ok", "exit", "exit")

(* ConfigNetId: std::stoi throws what is not a json::exception. *)
NetId == Outcome("exit", "exit", "abort")

(* Outside the try blocks. *)
Unguarded == Outcome("ok", "abort", "abort")
Labels == Outcome("ok", "abort", "exit")
Show == Outcome("exit", "abort", "abort")

First(outcomes) ==
  LET ends == {i \in DOMAIN outcomes : outcomes[i] # "ok"}
  IN IF ends = {} THEN "ok"
     ELSE outcomes[CHOOSE i \in ends : \A j \in ends : i <= j]

ParseAdditionalDataMetric(d) ==
  IF ~d.present THEN "ok"
  ELSE First(<<Show[d.show], Unguarded[d.carryLabels], Unguarded[d.alias],
               Unguarded[d.customDescription], Labels[d.labels]>>)

ParseSymbol(v) ==
  First(<<Optional[v.alias], Optional[v.type], Optional[v.description],
          Mandatory[v.ADSDatatype], Mandatory[v.scrapingTime],
          Labels[v.labels]>>
        \o [i \in DOMAIN v.additional |->
              ParseAdditionalDataMetric(v.additional[i])])

ProcessConfig(file) ==
  First(<<NetId[file.localNetId], NetId[file.remoteNetId],
          Mandatory[file.remoteIp], Mandatory[file.httpPort],
          Unguarded[file.pollTimeResolution], Unguarded[file.adsRemotePort]>>
        \o [i \in DOMAIN file.variables |-> ParseSymbol(file.variables[i])])

(* A file that does not parse leaves configData null, in which the global  *)
(* struct is then missed: readConfig goes on after the catch clause.       *)
ReadConfig(file) ==
  IF file.opens /\ file.parses /\ file.hasGlobal
  THEN ProcessConfig(file) ELSE "exit"

(* scrapingDuration: the product with 1000 is cut to whole milliseconds. *)
ScrapingDuration(v) == v.micros \div 1000

-----------------------------------------------------------------------------
(* The reference, without an order: which files README.md describes.       *)

ValidBlock(d) ==
  d.present => /\ d.show = "right"
               /\ {d.carryLabels, d.alias, d.customDescription, d.labels}
                    \subseteq {"right", "absent"}

ValidVariable(v) ==
  /\ v.ADSDatatype = "right" /\ v.scrapingTime = "right"
  /\ {v.alias, v.type, v.description, v.labels} \subseteq {"right", "absent"}
  /\ \A i \in DOMAIN v.additional : ValidBlock(v.additional[i])

Valid(file) ==
  /\ file.opens /\ file.parses /\ file.hasGlobal
  /\ {file.localNetId, file.remoteNetId, file.remoteIp, file.httpPort}
       = {"right"}
  /\ {file.pollTimeResolution, file.adsRemotePort}
       \subseteq {"right", "absent"}
  /\ \A i \in DOMAIN file.variables : ValidVariable(file.variables[i])

(* A field that is read outside the try blocks, or by std::stoi, is bad. *)
BadOutsideTry(file) ==
  \/ "unknown" \in {file.localNetId, file.remoteNetId}
  \/ {file.pollTimeResolution, file.adsRemotePort}
       \cap {"wrong", "unknown"} # {}
  \/ \E i \in DOMAIN file.variables : LET v == file.variables[i]
     IN \/ v.labels = "wrong"
        \/ \E j \in DOMAIN v.additional : LET d == v.additional[j]
           IN /\ d.present
              /\ {d.show, d.carryLabels, d.alias, d.customDescription,
                  d.labels} \cap {"wrong", "unknown"} # {}

=============================================================================
