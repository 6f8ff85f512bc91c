----------------------------- MODULE ReadGroups -----------------------------
(***************************************************************************)
(* How AdsProvider_t sorts the configured symbols into read groups.        *)
(*                                                                         *)
(* config_t::configureADSProvidor hands every variable of the              *)
(* configuration to AdsProvider_t::addSymbol and then calls                *)
(* AdsProvider_t::generateReadGroups once.  A read group is what one ADS   *)
(* sum-up read fetches, so its size is capped (200 in the code, GroupLimit *)
(* here) and all its symbols share one scraping time.                      *)
(***************************************************************************)
EXTENDS Naturals, Sequences

CONSTANTS
  Symbols,     \* ADS symbol names that a configuration may contain
  Times,       \* scraping times that a configuration may contain
  GroupLimit   \* a group accepts a symbol while it holds fewer than this

ASSUME GroupLimitAssumption == GroupLimit \in Nat \ {0}

VARIABLES
  symbolNames,   \* _symbolNames: [name, time] records in the order of addSymbol
  readGroups,    \* _readGroups: [time, members] records
  placed,        \* how many symbols the loop of generateReadGroups has handled
  stage          \* main thread: "add" -> "generate" -> "done"

vars == <<symbolNames, readGroups, placed, stage>>

Definition == [name : Symbols, time : Times]
Group == [time : Times, members : Seq(Symbols)]

Names == {symbolNames[i].name : i \in DOMAIN symbolNames}
Members(g) == {readGroups[g].members[i] : i \in DOMAIN readGroups[g].members}

Init ==
  /\ symbolNames = <<>>
  /\ readGroups = <<>>
  /\ placed = 0
  /\ stage = "add"

(* The keys of a JSON object are unique, so no name is added twice. *)
AddSymbol(s, t) ==
  /\ stage = "add"
  /\ s \notin Names
  /\ symbolNames' = Append(symbolNames, [name |-> s, time |-> t])
  /\ UNCHANGED <<readGroups, placed, stage>>

StartGenerate ==
  /\ stage = "add"
  /\ stage' = "generate"
  /\ readGroups' = <<>>
  /\ placed' = 0
  /\ UNCHANGED symbolNames

(* Mistake: the scraping time is not compared. *)
FitsAnyTime(group, symbol) == Len(group.members) < GroupLimit

(* Mistake: one symbol too many. *)
FitsOneMore(group, symbol) ==
  /\ group.time = symbol.time
  /\ Len(group.members) <= GroupLimit

(* groupRule: the group has the symbol's scraping time and room for it. *)
Fits(group, symbol) ==
  /\ group.time = symbol.time
  /\ Len(group.members) < GroupLimit

Fitting(symbol) == {g \in DOMAIN readGroups : Fits(readGroups[g], symbol)}

(* find_if returned a group: the first that fits takes the symbol. *)
JoinGroup ==
  /\ stage = "generate"
  /\ placed < Len(symbolNames)
  /\ LET symbol == symbolNames[placed + 1]
     IN \E g \in Fitting(symbol) :
          /\ \A h \in Fitting(symbol) : g <= h
          /\ readGroups' =
               [readGroups EXCEPT ![g].members = Append(@, symbol.name)]
  /\ placed' = placed + 1
  /\ UNCHANGED <<symbolNames, stage>>

(* Mistake: the group holds the definition instead of a pointer to it. *)
OpenGroupOfDefinitions ==
  /\ stage = "generate"
  /\ placed < Len(symbolNames)
  /\ LET symbol == symbolNames[placed + 1]
     IN /\ Fitting(symbol) = {}
        /\ readGroups' = Append(readGroups, [time |-> symbol.time,
                                             members |-> <<symbol>>])
  /\ placed' = placed + 1
  /\ UNCHANGED <<symbolNames, stage>>

(* find_if returned end(): a new group is opened behind the others. *)
OpenGroup ==
  /\ stage = "generate"
  /\ placed < Len(symbolNames)
  /\ LET symbol == symbolNames[placed + 1]
     IN /\ Fitting(symbol) = {}
        /\ readGroups' = Append(readGroups, [time |-> symbol.time,
                                             members |-> <<symbol.name>>])
  /\ placed' = placed + 1
  /\ UNCHANGED <<symbolNames, stage>>

EndGenerate ==
  /\ stage = "generate"
  /\ placed = Len(symbolNames)
  /\ stage' = "done"
  /\ UNCHANGED <<symbolNames, readGroups, placed>>

Next ==
  \/ \E s \in Symbols, t \in Times : AddSymbol(s, t)
  \/ StartGenerate
  \/ JoinGroup
  \/ OpenGroup
  \/ EndGenerate

Spec == Init /\ [][Next]_vars

-----------------------------------------------------------------------------

(* Every variable holds a value of its type. *)
TypeOK ==
  /\ symbolNames \in Seq(Definition)
  /\ readGroups \in Seq(Group)
  /\ placed \in 0..Len(symbolNames)
  /\ stage \in {"add", "generate", "done"}

(***************************************************************************)
(* Grouping loses no symbol, duplicates none and mixes no scraping times:  *)
(* each symbol the loop has handled is in exactly one place of the groups, *)
(* in a group of its own scraping time, and no other name is in a group.   *)
(***************************************************************************)
Partition ==
  /\ \A i \in 1..placed : \E g \in DOMAIN readGroups :
       /\ readGroups[g].time = symbolNames[i].time
       /\ symbolNames[i].name \in Members(g)
  /\ \A g \in DOMAIN readGroups :
       \A k \in DOMAIN readGroups[g].members : \E i \in 1..placed :
         /\ symbolNames[i].name = readGroups[g].members[k]
         /\ symbolNames[i].time = readGroups[g].time
  /\ \A g, h \in DOMAIN readGroups :
       \A k \in DOMAIN readGroups[g].members,
          l \in DOMAIN readGroups[h].members :
         readGroups[g].members[k] = readGroups[h].members[l]
           => g = h /\ k = l

(***************************************************************************)
(* No group exceeds the limit of one sum-up read, none is empty, and first *)
(* fit wastes no request: of the groups with one scraping time only the    *)
(* last may have room left, so their number is the least possible.         *)
(***************************************************************************)
TightGroups ==
  /\ \A g \in DOMAIN readGroups : Len(readGroups[g].members) \in 1..GroupLimit
  /\ \A g, h \in DOMAIN readGroups :
       g < h /\ readGroups[g].time = readGroups[h].time
         => Len(readGroups[g].members) = GroupLimit

=============================================================================
