-------------------------- MODULE ReadGroupsProofs --------------------------
(***************************************************************************)
(* Proofs of the invariants of ReadGroups for every set of symbols and     *)
(* scraping times and every limit.                                         *)
(***************************************************************************)
EXTENDS ReadGroups, TLAPS

(* The definition that the loop of generateReadGroups handles next. *)
Current == symbolNames[placed + 1]

(* The definition in hand is one, while the loop has not ended. *)
LEMMA CurrentIsDefinition ==
  ASSUME TypeOK, placed < Len(symbolNames)
  PROVE  /\ placed + 1 \in DOMAIN symbolNames
         /\ Current \in Definition
         /\ Current.name \in Symbols
         /\ Current.time \in Times
<1>1. placed + 1 \in 1..Len(symbolNames)
  BY DEF TypeOK
<1>2. Current \in Definition
  BY <1>1 DEF TypeOK, Current
<1> QED
  BY <1>1, <1>2 DEF TypeOK, Definition

(* Replacing the members of a group keeps its time. *)
LEMMA GroupExcept ==
  ASSUME NEW group \in Group, NEW m
  PROVE  [group EXCEPT !.members = m] = [time |-> group.time, members |-> m]
BY DEF Group

(* What JoinGroup does to the groups: the name of the definition in hand   *)
(* is appended to a group of its time that has room, and is the first such *)
(* group.                                                                  *)
LEMMA JoinEffect ==
  ASSUME TypeOK, JoinGroup
  PROVE  \E g \in DOMAIN readGroups :
           /\ readGroups[g] \in Group
           /\ readGroups[g].members \in Seq(Symbols)
           /\ readGroups[g].time = Current.time
           /\ Len(readGroups[g].members) < GroupLimit
           /\ Current \in Definition
           /\ readGroups' = [readGroups EXCEPT
                ![g] = [time |-> Current.time,
                        members |-> Append(readGroups[g].members,
                                           Current.name)]]
<1>1. /\ placed < Len(symbolNames)
      /\ Current \in Definition
  BY CurrentIsDefinition DEF JoinGroup
<1>2. PICK g \in Fitting(Current) :
        readGroups' = [readGroups EXCEPT
          ![g].members = Append(@, Current.name)]
  BY DEF JoinGroup, Current
<1>3. /\ g \in DOMAIN readGroups
      /\ readGroups[g].time = Current.time
      /\ Len(readGroups[g].members) < GroupLimit
  BY DEF Fitting, Fits
<1>4. readGroups[g] \in Group
  BY <1>3 DEF TypeOK
<1>5. [readGroups[g] EXCEPT !.members = Append(@, Current.name)]
        = [time |-> Current.time,
           members |-> Append(readGroups[g].members, Current.name)]
  BY <1>3, <1>4, GroupExcept
<1> QED
  BY <1>1, <1>2, <1>3, <1>4, <1>5 DEF Group

(* Typing: every variable of the grouping keeps its type. *)
LEMMA TypeStep == TypeOK /\ [Next]_vars => TypeOK'
<1> SUFFICES ASSUME TypeOK, [Next]_vars PROVE TypeOK'
  OBVIOUS
<1>1. ASSUME NEW s \in Symbols, NEW t \in Times, AddSymbol(s, t)
      PROVE TypeOK'
  BY <1>1 DEF AddSymbol, TypeOK, Definition
<1>2. CASE StartGenerate
  BY <1>2 DEF StartGenerate, TypeOK
<1>3. CASE JoinGroup
  <2>1. PICK g \in DOMAIN readGroups :
          /\ readGroups[g].members \in Seq(Symbols)
          /\ readGroups' = [readGroups EXCEPT
               ![g] = [time |-> Current.time,
                       members |-> Append(readGroups[g].members,
                                          Current.name)]]
    BY <1>3, JoinEffect
  <2>2. Current.name \in Symbols /\ Current.time \in Times
    BY <1>3, CurrentIsDefinition DEF JoinGroup
  <2>3. [time |-> Current.time,
         members |-> Append(readGroups[g].members, Current.name)] \in Group
    BY <2>1, <2>2 DEF Group
  <2>4. readGroups' \in Seq(Group)
    BY <2>1, <2>3 DEF TypeOK
  <2> QED
    BY <1>3, <2>4 DEF JoinGroup, TypeOK
<1>4. CASE OpenGroup
  <2>1. Current.name \in Symbols /\ Current.time \in Times
    BY <1>4, CurrentIsDefinition DEF OpenGroup
  <2>2. [time |-> Current.time, members |-> <<Current.name>>] \in Group
    BY <2>1 DEF Group
  <2>3. readGroups' \in Seq(Group)
    BY <1>4, <2>2 DEF OpenGroup, TypeOK, Current
  <2> QED
    BY <1>4, <2>3 DEF OpenGroup, TypeOK
<1>5. CASE EndGenerate
  BY <1>5 DEF EndGenerate, TypeOK
<1>6. CASE UNCHANGED vars
  BY <1>6 DEF vars, TypeOK
<1> QED
  BY <1>1, <1>2, <1>3, <1>4, <1>5, <1>6 DEF Next

(* Every variable of the grouping always holds a value of its type. *)
THEOREM TypeCorrect == Spec => []TypeOK
<1>1. Init => TypeOK
  BY DEF Init, TypeOK
<1> QED
  BY <1>1, TypeStep, PTL DEF Spec

-----------------------------------------------------------------------------
(* The inductive invariant.  Partition and TightGroups are inductive once  *)
(* it is known that names are added once and groups are empty before the   *)
(* loop of generateReadGroups starts.                                      *)

UniqueNames ==
  \A i, j \in DOMAIN symbolNames :
    symbolNames[i].name = symbolNames[j].name => i = j

EmptyBefore == stage = "add" => readGroups = <<>> /\ placed = 0

Inv == TypeOK /\ UniqueNames /\ EmptyBefore /\ Partition /\ TightGroups

(* JoinGroup, seen position by position. *)
LEMMA JoinPointwise ==
  ASSUME TypeOK, JoinGroup
  PROVE  \E g \in DOMAIN readGroups :
           /\ Len(readGroups[g].members) \in Nat
           /\ Len(readGroups[g].members) < GroupLimit
           /\ readGroups[g].time = Current.time
           /\ DOMAIN readGroups' = DOMAIN readGroups
           /\ \A h \in DOMAIN readGroups : readGroups'[h].time = readGroups[h].time
           /\ \A h \in DOMAIN readGroups \ {g} : readGroups'[h] = readGroups[h]
           /\ Len(readGroups'[g].members) = Len(readGroups[g].members) + 1
           /\ DOMAIN readGroups'[g].members = 1..Len(readGroups[g].members) + 1
           /\ DOMAIN readGroups[g].members = 1..Len(readGroups[g].members)
           /\ \A k \in DOMAIN readGroups[g].members :
                readGroups'[g].members[k] = readGroups[g].members[k]
           /\ readGroups'[g].members[Len(readGroups[g].members) + 1] = Current.name
<1>1. PICK g \in DOMAIN readGroups :
        /\ readGroups[g].members \in Seq(Symbols)
        /\ readGroups[g].time = Current.time
        /\ Len(readGroups[g].members) < GroupLimit
        /\ readGroups' = [readGroups EXCEPT
             ![g] = [time |-> Current.time,
                     members |-> Append(readGroups[g].members, Current.name)]]
  BY JoinEffect
<1>2. Current.name \in Symbols
  BY CurrentIsDefinition DEF JoinGroup
<1>3. readGroups \in Seq(Group)
  BY DEF TypeOK
<1> DEFINE m == readGroups[g].members
<1>4. /\ DOMAIN readGroups' = DOMAIN readGroups
      /\ \A h \in DOMAIN readGroups \ {g} : readGroups'[h] = readGroups[h]
      /\ readGroups'[g] = [time |-> Current.time,
                           members |-> Append(m, Current.name)]
  BY <1>1, <1>3
<1>5. /\ Len(m) \in Nat
      /\ DOMAIN m = 1..Len(m)
      /\ Len(Append(m, Current.name)) = Len(m) + 1
      /\ DOMAIN Append(m, Current.name) = 1..Len(m) + 1
      /\ \A k \in 1..Len(m) : Append(m, Current.name)[k] = m[k]
      /\ Append(m, Current.name)[Len(m) + 1] = Current.name
  BY <1>1, <1>2
<1>6. /\ readGroups'[g].time = Current.time
      /\ readGroups'[g].members = Append(m, Current.name)
  BY <1>4
<1> HIDE DEF m
<1>7. \A h \in DOMAIN readGroups : readGroups'[h].time = readGroups[h].time
  BY <1>1, <1>4, <1>6
<1> QED
  BY <1>1, <1>4, <1>5, <1>6, <1>7 DEF m

(* OpenGroup, seen position by position. *)
LEMMA OpenPointwise ==
  ASSUME TypeOK, OpenGroup
  PROVE  /\ Len(readGroups) \in Nat
         /\ DOMAIN readGroups = 1..Len(readGroups)
         /\ DOMAIN readGroups' = 1..Len(readGroups) + 1
         /\ \A h \in DOMAIN readGroups : readGroups'[h] = readGroups[h]
         /\ readGroups'[Len(readGroups) + 1].time = Current.time
         /\ readGroups'[Len(readGroups) + 1].members = <<Current.name>>
         /\ \A h \in DOMAIN readGroups :
              readGroups[h].time = Current.time
                => ~(Len(readGroups[h].members) < GroupLimit)
<1>1. readGroups \in Seq(Group)
  BY DEF TypeOK
<1>2. [time |-> Current.time, members |-> <<Current.name>>] \in Group
  BY CurrentIsDefinition DEF OpenGroup, Group
<1>3. readGroups' = Append(readGroups, [time |-> Current.time,
                                        members |-> <<Current.name>>])
  BY DEF OpenGroup, Current
<1>4. Fitting(Current) = {}
  BY DEF OpenGroup, Current
<1> QED
  BY <1>1, <1>2, <1>3, <1>4 DEF Fitting, Fits

(* No name placed so far is that of the definition in hand. *)
LEMMA CurrentIsNew ==
  ASSUME Inv, placed < Len(symbolNames)
  PROVE  \A g \in DOMAIN readGroups : \A k \in DOMAIN readGroups[g].members :
           readGroups[g].members[k] # Current.name
<1> SUFFICES ASSUME NEW g \in DOMAIN readGroups,
                    NEW k \in DOMAIN readGroups[g].members
             PROVE  readGroups[g].members[k] # Current.name
  OBVIOUS
<1>1. PICK i \in 1..placed : symbolNames[i].name = readGroups[g].members[k]
  BY DEF Inv, Partition
<1>2. i \in DOMAIN symbolNames /\ placed + 1 \in DOMAIN symbolNames
      /\ i # placed + 1
  BY DEF Inv, TypeOK
<1> QED
  BY <1>1, <1>2 DEF Inv, UniqueNames, Current

(* Joining a group keeps the symbols partitioned and the groups tight. *)
LEMMA JoinKeeps ==
  ASSUME Inv, JoinGroup
  PROVE  Partition' /\ TightGroups'
<1> TypeOK /\ Partition /\ TightGroups
  BY DEF Inv
<1>0. /\ placed \in Nat /\ placed' = placed + 1
      /\ placed < Len(symbolNames) /\ symbolNames' = symbolNames
  BY DEF JoinGroup, TypeOK
<1>1. PICK g \in DOMAIN readGroups :
        /\ Len(readGroups[g].members) \in Nat
        /\ Len(readGroups[g].members) < GroupLimit
        /\ readGroups[g].time = Current.time
        /\ DOMAIN readGroups' = DOMAIN readGroups
        /\ \A h \in DOMAIN readGroups : readGroups'[h].time = readGroups[h].time
        /\ \A h \in DOMAIN readGroups \ {g} : readGroups'[h] = readGroups[h]
        /\ Len(readGroups'[g].members) = Len(readGroups[g].members) + 1
        /\ DOMAIN readGroups'[g].members = 1..Len(readGroups[g].members) + 1
        /\ DOMAIN readGroups[g].members = 1..Len(readGroups[g].members)
        /\ \A k \in DOMAIN readGroups[g].members :
             readGroups'[g].members[k] = readGroups[g].members[k]
        /\ readGroups'[g].members[Len(readGroups[g].members) + 1] = Current.name
  BY JoinPointwise
<1>2. \A i \in 1..placed' : \E h \in DOMAIN readGroups' :
        /\ readGroups'[h].time = symbolNames'[i].time
        /\ \E k \in DOMAIN readGroups'[h].members :
             readGroups'[h].members[k] = symbolNames'[i].name
  <2> SUFFICES ASSUME NEW i \in 1..placed'
               PROVE  \E h \in DOMAIN readGroups' :
                        /\ readGroups'[h].time = symbolNames'[i].time
                        /\ \E k \in DOMAIN readGroups'[h].members :
                             readGroups'[h].members[k] = symbolNames'[i].name
    OBVIOUS
  <2>1. CASE i = placed + 1
    BY <1>0, <1>1, <2>1 DEF Current
  <2>2. CASE i \in 1..placed
    <3>1. PICK h \in DOMAIN readGroups :
            /\ readGroups[h].time = symbolNames[i].time
            /\ \E k \in DOMAIN readGroups[h].members :
                 readGroups[h].members[k] = symbolNames[i].name
      BY <2>2 DEF Partition, Members
    <3>2. PICK k \in DOMAIN readGroups[h].members :
            readGroups[h].members[k] = symbolNames[i].name
      BY <3>1
    <3>3. /\ k \in DOMAIN readGroups'[h].members
          /\ readGroups'[h].members[k] = symbolNames[i].name
      <4>1. CASE h = g
        BY <1>1, <3>2, <4>1
      <4>2. CASE h # g
        BY <1>1, <3>2, <4>2
      <4> QED
        BY <4>1, <4>2
    <3> QED
      BY <1>0, <1>1, <3>1, <3>3
  <2> QED
    BY <1>0, <2>1, <2>2
<1>3. \A h \in DOMAIN readGroups' : \A k \in DOMAIN readGroups'[h].members :
        \E i \in 1..placed' : /\ symbolNames'[i].name = readGroups'[h].members[k]
                               /\ symbolNames'[i].time = readGroups'[h].time
  <2> SUFFICES ASSUME NEW h \in DOMAIN readGroups',
                      NEW k \in DOMAIN readGroups'[h].members
               PROVE  \E i \in 1..placed' :
                        /\ symbolNames'[i].name = readGroups'[h].members[k]
                        /\ symbolNames'[i].time = readGroups'[h].time
    OBVIOUS
  <2>1. CASE h = g /\ k = Len(readGroups[g].members) + 1
    <3>1. placed + 1 \in 1..placed'
      BY <1>0
    <3> QED
      BY <1>0, <1>1, <2>1, <3>1 DEF Current
  <2>2. CASE ~(h = g /\ k = Len(readGroups[g].members) + 1)
    <3>1. /\ h \in DOMAIN readGroups
          /\ k \in DOMAIN readGroups[h].members
          /\ readGroups'[h].members[k] = readGroups[h].members[k]
      BY <1>1, <2>2
    <3>2. PICK i \in 1..placed :
            /\ symbolNames[i].name = readGroups[h].members[k]
            /\ symbolNames[i].time = readGroups[h].time
      BY <3>1 DEF Partition
    <3> QED
      BY <1>0, <1>1, <3>1, <3>2
  <2> QED
    BY <2>1, <2>2
<1>4. \A h1, h2 \in DOMAIN readGroups' :
        \A k \in DOMAIN readGroups'[h1].members,
           l \in DOMAIN readGroups'[h2].members :
          readGroups'[h1].members[k] = readGroups'[h2].members[l]
            => h1 = h2 /\ k = l
  <2> DEFINE new(h, k) == h = g /\ k = Len(readGroups[g].members) + 1
  <2> SUFFICES ASSUME NEW h1 \in DOMAIN readGroups', NEW h2 \in DOMAIN readGroups',
                      NEW k \in DOMAIN readGroups'[h1].members,
                      NEW l \in DOMAIN readGroups'[h2].members,
                      readGroups'[h1].members[k] = readGroups'[h2].members[l]
               PROVE  h1 = h2 /\ k = l
    OBVIOUS
  <2>1. ASSUME NEW h \in DOMAIN readGroups',
               NEW j \in DOMAIN readGroups'[h].members, ~new(h, j)
        PROVE  /\ h \in DOMAIN readGroups
               /\ j \in DOMAIN readGroups[h].members
               /\ readGroups'[h].members[j] = readGroups[h].members[j]
    BY <1>1, <2>1
  <2>2. \A h \in DOMAIN readGroups : \A j \in DOMAIN readGroups[h].members :
          readGroups[h].members[j] # Current.name
    BY <1>0, CurrentIsNew
  <2>3. CASE new(h1, k) /\ new(h2, l)
    BY <2>3
  <2>4. CASE new(h1, k) /\ ~new(h2, l)
    BY <1>1, <2>1, <2>2, <2>4
  <2>5. CASE ~new(h1, k) /\ new(h2, l)
    BY <1>1, <2>1, <2>2, <2>5
  <2>6. CASE ~new(h1, k) /\ ~new(h2, l)
    <3>1. /\ h1 \in DOMAIN readGroups /\ h2 \in DOMAIN readGroups
          /\ k \in DOMAIN readGroups[h1].members
          /\ l \in DOMAIN readGroups[h2].members
          /\ readGroups[h1].members[k] = readGroups[h2].members[l]
      BY <2>1, <2>6
    <3> QED
      BY <3>1 DEF Partition
  <2> QED
    BY <2>3, <2>4, <2>5, <2>6
<1>5. Partition'
  BY <1>2, <1>3, <1>4 DEF Partition, Members
<1>6. TightGroups'
  <2>1. DOMAIN readGroups = 1..Len(readGroups)
    BY DEF TypeOK
  <2>2. \A h \in DOMAIN readGroups' : Len(readGroups'[h].members) \in 1..GroupLimit
    BY <1>1, GroupLimitAssumption DEF TightGroups
  <2>3. \A h1, h2 \in DOMAIN readGroups' :
          h1 < h2 /\ readGroups'[h1].time = readGroups'[h2].time
            => Len(readGroups'[h1].members) = GroupLimit
    BY <1>1, <2>1, GroupLimitAssumption DEF TightGroups
  <2> QED
    BY <2>2, <2>3 DEF TightGroups
<1> QED
  BY <1>5, <1>6

(* Opening a group keeps the symbols partitioned and the groups tight. *)
LEMMA OpenKeeps ==
  ASSUME Inv, OpenGroup
  PROVE  Partition' /\ TightGroups'
<1> TypeOK /\ Partition /\ TightGroups
  BY DEF Inv
<1> DEFINE n == Len(readGroups) + 1
<1>0. /\ placed \in Nat /\ placed' = placed + 1
      /\ placed < Len(symbolNames) /\ symbolNames' = symbolNames
  BY DEF OpenGroup, TypeOK
<1>1. /\ Len(readGroups) \in Nat
      /\ DOMAIN readGroups = 1..Len(readGroups)
      /\ DOMAIN readGroups' = 1..n
      /\ \A h \in DOMAIN readGroups : readGroups'[h] = readGroups[h]
      /\ readGroups'[n].time = Current.time
      /\ readGroups'[n].members = <<Current.name>>
      /\ \A h \in DOMAIN readGroups :
           readGroups[h].time = Current.time
             => ~(Len(readGroups[h].members) < GroupLimit)
  BY OpenPointwise
<1>2. /\ DOMAIN readGroups'[n].members = {1}
      /\ readGroups'[n].members[1] = Current.name
      /\ Len(readGroups'[n].members) = 1
  BY <1>1
<1> HIDE DEF n
<1>3. /\ n \in DOMAIN readGroups' /\ n \notin DOMAIN readGroups
      /\ \A h \in DOMAIN readGroups' : h \in DOMAIN readGroups \/ h = n
      /\ \A h \in DOMAIN readGroups : h \in DOMAIN readGroups' /\ h < n
  BY <1>1 DEF n
<1>4. \A i \in 1..placed' : \E h \in DOMAIN readGroups' :
        /\ readGroups'[h].time = symbolNames'[i].time
        /\ \E k \in DOMAIN readGroups'[h].members :
             readGroups'[h].members[k] = symbolNames'[i].name
  <2> SUFFICES ASSUME NEW i \in 1..placed'
               PROVE  \E h \in DOMAIN readGroups' :
                        /\ readGroups'[h].time = symbolNames'[i].time
                        /\ \E k \in DOMAIN readGroups'[h].members :
                             readGroups'[h].members[k] = symbolNames'[i].name
    OBVIOUS
  <2>1. CASE i = placed + 1
    BY <1>0, <1>1, <1>2, <1>3, <2>1 DEF Current
  <2>2. CASE i \in 1..placed
    <3>1. PICK h \in DOMAIN readGroups :
            /\ readGroups[h].time = symbolNames[i].time
            /\ \E k \in DOMAIN readGroups[h].members :
                 readGroups[h].members[k] = symbolNames[i].name
      BY <2>2 DEF Partition, Members
    <3>2. readGroups'[h] = readGroups[h] /\ h \in DOMAIN readGroups'
      BY <1>1, <1>3
    <3> QED
      BY <1>0, <3>1, <3>2
  <2> QED
    BY <1>0, <2>1, <2>2
<1>5. \A h \in DOMAIN readGroups' : \A k \in DOMAIN readGroups'[h].members :
        \E i \in 1..placed' : /\ symbolNames'[i].name = readGroups'[h].members[k]
                               /\ symbolNames'[i].time = readGroups'[h].time
  <2> SUFFICES ASSUME NEW h \in DOMAIN readGroups',
                      NEW k \in DOMAIN readGroups'[h].members
               PROVE  \E i \in 1..placed' :
                        /\ symbolNames'[i].name = readGroups'[h].members[k]
                        /\ symbolNames'[i].time = readGroups'[h].time
    OBVIOUS
  <2>1. CASE h = n
    <3>1. placed + 1 \in 1..placed'
      BY <1>0
    <3> QED
      BY <1>0, <1>1, <1>2, <2>1, <3>1 DEF Current
  <2>2. CASE h \in DOMAIN readGroups
    <3>1. PICK i \in 1..placed :
            /\ symbolNames[i].name = readGroups[h].members[k]
            /\ symbolNames[i].time = readGroups[h].time
      BY <1>1, <2>2 DEF Partition
    <3> QED
      BY <1>0, <1>1, <2>2, <3>1
  <2> QED
    BY <1>3, <2>1, <2>2
<1>6. \A h1, h2 \in DOMAIN readGroups' :
        \A k \in DOMAIN readGroups'[h1].members,
           l \in DOMAIN readGroups'[h2].members :
          readGroups'[h1].members[k] = readGroups'[h2].members[l]
            => h1 = h2 /\ k = l
  <2>1. \A h \in DOMAIN readGroups : \A j \in DOMAIN readGroups[h].members :
          readGroups[h].members[j] # Current.name
    BY <1>0, CurrentIsNew
  <2> QED
    BY <1>1, <1>2, <1>3, <2>1 DEF Partition
<1>7. Partition'
  BY <1>4, <1>5, <1>6 DEF Partition, Members
<1>8. TightGroups'
  <2>1. \A h \in DOMAIN readGroups' : Len(readGroups'[h].members) \in 1..GroupLimit
    <3> SUFFICES ASSUME NEW h \in DOMAIN readGroups'
                 PROVE  Len(readGroups'[h].members) \in 1..GroupLimit
      OBVIOUS
    <3>1. CASE h = n
      <4>1. Len(readGroups'[h].members) = 1
        BY <1>2, <3>1
      <4>2. 1 \in 1..GroupLimit
        BY GroupLimitAssumption
      <4> QED
        BY <4>1, <4>2
    <3>2. CASE h \in DOMAIN readGroups
      <4>1. readGroups'[h] = readGroups[h]
        BY <1>1, <3>2
      <4> QED
        BY <3>2, <4>1 DEF TightGroups
    <3> QED
      BY <1>3, <3>1, <3>2
  <2>2. \A h1, h2 \in DOMAIN readGroups' :
          h1 < h2 /\ readGroups'[h1].time = readGroups'[h2].time
            => Len(readGroups'[h1].members) = GroupLimit
    <3> SUFFICES ASSUME NEW h1 \in DOMAIN readGroups', NEW h2 \in DOMAIN readGroups',
                        h1 < h2, readGroups'[h1].time = readGroups'[h2].time
                 PROVE  Len(readGroups'[h1].members) = GroupLimit
      OBVIOUS
    <3>1. h1 \in DOMAIN readGroups
      BY <1>1, <1>3 DEF n
    <3>2. CASE h2 = n
      BY <1>1, <3>1, <3>2, GroupLimitAssumption DEF TightGroups
    <3>3. CASE h2 \in DOMAIN readGroups
      BY <1>1, <3>1, <3>3 DEF TightGroups
    <3> QED
      BY <1>3, <3>2, <3>3
  <2> QED
    BY <2>1, <2>2 DEF TightGroups
<1> QED
  BY <1>7, <1>8

(* Every step keeps the inductive invariant. *)
LEMMA InvStep == Inv /\ [Next]_vars => Inv'
<1> SUFFICES ASSUME Inv, [Next]_vars PROVE Inv'
  OBVIOUS
<1>0. TypeOK /\ TypeOK' /\ UniqueNames /\ EmptyBefore /\ Partition /\ TightGroups
  BY TypeStep DEF Inv
<1>1. ASSUME NEW s \in Symbols, NEW t \in Times, AddSymbol(s, t)
      PROVE  Inv'
  <2>1. /\ readGroups = <<>> /\ readGroups' = <<>> /\ placed' = 0
        /\ symbolNames' = Append(symbolNames, [name |-> s, time |-> t])
    BY <1>0, <1>1 DEF AddSymbol, EmptyBefore
  <2>2. UniqueNames'
    BY <1>0, <1>1, <2>1 DEF AddSymbol, UniqueNames, Names, TypeOK
  <2>3. Partition' /\ TightGroups'
    BY <2>1 DEF Partition, TightGroups
  <2> QED
    BY <1>0, <2>1, <2>2, <2>3 DEF Inv, EmptyBefore
<1>2. CASE StartGenerate
  <2>1. readGroups' = <<>> /\ placed' = 0
    BY <1>2 DEF StartGenerate
  <2>2. Partition' /\ TightGroups'
    BY <2>1 DEF Partition, TightGroups
  <2> QED
    BY <1>0, <1>2, <2>2 DEF StartGenerate, Inv, UniqueNames, EmptyBefore
<1>3. CASE JoinGroup
  BY <1>0, <1>3, JoinKeeps DEF JoinGroup, Inv, UniqueNames, EmptyBefore
<1>4. CASE OpenGroup
  BY <1>0, <1>4, OpenKeeps DEF OpenGroup, Inv, UniqueNames, EmptyBefore
<1>5. CASE EndGenerate
  BY <1>0, <1>5 DEF EndGenerate, Inv, UniqueNames, EmptyBefore,
                    Partition, TightGroups, Members
<1>6. CASE UNCHANGED vars
  BY <1>0, <1>6 DEF vars, Inv, UniqueNames, EmptyBefore,
                    Partition, TightGroups, Members
<1> QED
  BY <1>1, <1>2, <1>3, <1>4, <1>5, <1>6 DEF Next

(* The strengthened invariant holds in every state. *)
THEOREM InvCorrect == Spec => []Inv
<1>1. Init => Inv
  BY DEF Init, Inv, TypeOK, UniqueNames, EmptyBefore, Partition, TightGroups
<1> QED
  BY <1>1, InvStep, PTL DEF Spec

(* generateReadGroups puts each symbol into exactly one group of its time. *)
THEOREM PartitionCorrect == Spec => []Partition
<1>1. Inv => Partition
  BY DEF Inv
<1> QED
  BY <1>1, InvCorrect, PTL

(* No group exceeds the limit, and no group more than needed is opened. *)
THEOREM TightGroupsCorrect == Spec => []TightGroups
<1>1. Inv => TightGroups
  BY DEF Inv
<1> QED
  BY <1>1, InvCorrect, PTL

=============================================================================
