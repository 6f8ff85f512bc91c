----------------------------- MODULE MCStartup -----------------------------
(* All sequences of scraping times for up to four symbols, which the       *)
(* parser visits in the order of their names; all files that differ from a *)
(* valid one in one field; and files that differ in two.                   *)
EXTENDS Startup

CONSTANTS a, b, c

Keys == <<Nameless, a, b, c>>

Block(show) ==
  [present |-> TRUE, show |-> show, carryLabels |-> "right",
   alias |-> "absent", customDescription |-> "absent", labels |-> "absent"]
NoBlock == [Block("absent") EXCEPT !.present = FALSE]

Plain(name, micros) ==
  [name |-> name, micros |-> micros, alias |-> "absent", type |-> "absent",
   description |-> "right", ADSDatatype |-> "right", scrapingTime |-> "right",
   labels |-> "absent", additional |-> <<>>]

FileOf(variables) ==
  [opens |-> TRUE, parses |-> TRUE, hasGlobal |-> TRUE, localNetId |-> "right",
   remoteNetId |-> "right", remoteIp |-> "right", httpPort |-> "right",
   pollTimeResolution |-> "absent", adsRemotePort |-> "absent",
   variables |-> variables]

(* With 500.9 ms and 500.1 ms a group gets both. *)
Micros == {500900, 500100, 1000000}
TimedFiles ==
  UNION {{FileOf([i \in 1..n |-> Plain(Keys[i], micros[i])]) :
            micros \in [1..n -> {500900, 1000000}]} : n \in 0..4}
  \cup {FileOf([i \in 1..2 |-> Plain(Keys[i], micros[i])]) :
          micros \in [1..2 -> Micros]}

(* Two symbols, one of them with an additional metric. *)
Base ==
  FileOf(<<[Plain(a, 500900) EXCEPT !.additional = <<Block("right"), NoBlock>>],
           Plain(b, 1000000)>>)

Texts == {"right", "absent", "wrong"}
GlobalChanges(f) ==
  UNION {{[f EXCEPT !.opens = FALSE], [f EXCEPT !.parses = FALSE],
          [f EXCEPT !.hasGlobal = FALSE]},
         {[f EXCEPT !.localNetId = r] : r \in Readings},
         {[f EXCEPT !.remoteNetId = r] : r \in Readings},
         {[f EXCEPT !.remoteIp = r] : r \in Texts},
         {[f EXCEPT !.httpPort = r] : r \in Texts},
         {[f EXCEPT !.pollTimeResolution = r] : r \in Texts},
         {[f EXCEPT !.adsRemotePort = r] : r \in Texts}}
BlockChanges(d) ==
  UNION {{[d EXCEPT !.show = r] : r \in Texts},
         {[d EXCEPT !.carryLabels = r] : r \in Texts},
         {[d EXCEPT !.alias = r] : r \in Texts},
         {[d EXCEPT !.customDescription = r] : r \in Texts},
         {[d EXCEPT !.labels = r] : r \in Readings}}
VariableChanges(v) ==
  UNION {{[v EXCEPT !.alias = r] : r \in Texts},
         {[v EXCEPT !.type = r] : r \in Readings},
         {[v EXCEPT !.description = r] : r \in Texts},
         {[v EXCEPT !.ADSDatatype = r] : r \in Readings},
         {[v EXCEPT !.scrapingTime = r] : r \in Texts},
         {[v EXCEPT !.labels = r] : r \in Readings},
         IF v.additional = <<>> THEN {}
         ELSE {[v EXCEPT !.additional[1] = d] :
                 d \in BlockChanges(v.additional[1])}}
Changes(f) ==
  GlobalChanges(f)
  \cup UNION {{[f EXCEPT !.variables[i] = v] :
                 v \in VariableChanges(f.variables[i])} : i \in 1..2}

(* One field is bad early or late, inside a try block or outside. *)
Few ==
  {Base,
   [Base EXCEPT !.localNetId = "unknown"],
   [Base EXCEPT !.httpPort = "absent"],
   [Base EXCEPT !.adsRemotePort = "wrong"],
   [Base EXCEPT !.variables[1].labels = "wrong"],
   [Base EXCEPT !.variables[1].additional[1].show = "absent"],
   [Base EXCEPT !.variables[1].additional[1].labels = "wrong"],
   [Base EXCEPT !.variables[2].scrapingTime = "absent"]}
ChangedFiles == UNION {Changes(f) : f \in Few}

AllFiles == TimedFiles \cup ChangedFiles
AllNames == {Keys[i] : i \in 1..4}
Milliseconds == {500, 1000}

=============================================================================
