------------------------- MODULE PollScheduleProofs -------------------------
(* ReadInTime for all numbers of groups, all times of reads and checks,    *)
(* and passes that do not fit into the period, too.                        *)
EXTENDS PollSchedule, TLAPS

-----------------------------------------------------------------------------

(* The starting values are of their types. *)
LEMMA InitTypeOK == Init => TypeOK
BY ScheduleAssumption DEF Init, TypeOK, Groups

(* Later gives times. *)
LEMMA LaterType ==
  ASSUME since \in [Groups -> Nat], NEW time \in Nat
  PROVE  Later(time) \in [Groups -> Nat]
BY DEF Later

(* The index of a group and the one after are values of turn. *)
LEMMA TurnType ==
  ASSUME turn \in Groups
  PROVE  turn + 1 \in 1..Len(ScrapingTime) + 1
BY ScheduleAssumption DEF Groups

(* Every step keeps the types. *)
LEMMA NextTypeOK == TypeOK /\ [Next]_vars => TypeOK'
<1> SUFFICES ASSUME TypeOK, [Next]_vars PROVE TypeOK'
  OBVIOUS
<1> USE ScheduleAssumption DEF TypeOK
<1>1. CASE SkipGroup
  BY <1>1, TurnType DEF SkipGroup
<1>2. ASSUME NEW time \in 0..MaxRead, ReadGroup(time) PROVE TypeOK'
  <2>1. Later(time) \in [Groups -> Nat]
    BY LaterType
  <2>2. since' \in [Groups -> Nat]
    BY <2>1, <1>2 DEF ReadGroup
  <2> QED BY <2>2, <1>2, TurnType DEF ReadGroup
<1>3. CASE EndPass
  BY <1>3 DEF EndPass
<1>4. ASSUME NEW time \in Nat, NEW start \in Int, EndCheck(time, start),
             waited' \in [Groups -> BOOLEAN]
      PROVE TypeOK'
  <2>1. Later(time) \in [Groups -> Nat]
    BY LaterType
  <2> QED BY <2>1, <1>4 DEF EndCheck
<1>5. ASSUME NEW time \in 0..MaxCheck, CheckRuns(time) PROVE TypeOK'
  BY <1>4, <1>5 DEF CheckRuns
<1>6. ASSUME NEW time \in Waits, CheckWaits(time) \/ CheckConnects(time)
      PROVE TypeOK'
  <2>1. waited' \in [Groups -> BOOLEAN]
    BY <1>6 DEF CheckWaits, CheckConnects, Waited
  <2> QED BY <2>1, <1>4, <1>6 DEF CheckWaits, CheckConnects
<1>7. CASE Sleep
  <2> DEFINE time == IF lag < 0 THEN -lag ELSE 0
  <2>1. time \in Nat
    OBVIOUS
  <2>2. Later(time) \in [Groups -> Nat]
    BY <2>1, LaterType
  <2> QED BY <2>1, <2>2, <1>7 DEF Sleep
<1>8. CASE UNCHANGED vars
  BY <1>8 DEF vars
<1> QED BY <1>1, <1>2, <1>3, <1>5, <1>6, <1>7, <1>8 DEF Next

(* Every variable of the schedule holds a value of its type. *)
THEOREM TypeCorrect == Spec => []TypeOK
BY InitTypeOK, NextTypeOK, PTL DEF Spec

-----------------------------------------------------------------------------
(***************************************************************************)
(* How long ago a group was read is bounded by its scraping time and by    *)
(* what has passed since it was tested: in the pass under way, and, while  *)
(* the worker sleeps, in the one that has ended.  Both the clock and the   *)
(* longest reads bound the length of a pass: the clock decides if the      *)
(* worker is to sleep, and the reads if it is late.                        *)
(***************************************************************************)
Free(g) == ~waited[g] /\ ScrapingTime[g] > 0

Tested(g) ==
  /\ since[g] < ScrapingTime[g] + lag
  /\ since[g] < ScrapingTime[g] + (turn - 1) * MaxRead

Untested(g) == since[g] < ScrapingTime[g] + Gap + (turn - 1) * MaxRead

Ended(g) ==
  /\ since[g] < ScrapingTime[g] + lag + Period
  /\ since[g] < ScrapingTime[g] + PassTime

Bounded(g) ==
  /\ pc = "groups" /\ g < turn => Tested(g)
  /\ pc = "groups" /\ turn <= g => Untested(g)
  /\ pc = "check" /\ connected => Tested(g)
  /\ pc = "sleep" => Ended(g)

Punctual ==
  /\ pc # "sleep" => lag >= 0
  /\ pc = "check" /\ connected => turn = Len(ScrapingTime) + 1
  /\ \A g \in Groups : Free(g) => Bounded(g)

(* A product with the next number. *)
LEMMA OneMore ==
  ASSUME NEW n \in Nat, NEW m \in Nat
  PROVE  /\ n * m \in Nat
         /\ (n + 1) * m = n * m + m
OBVIOUS

(* The bounds are numbers, and a pass or a period fits between two starts. *)
LEMMA GapBounds ==
  /\ PassTime \in Nat /\ Gap \in Nat
  /\ Period <= Gap /\ PassTime <= Gap
  /\ PassTime = Len(ScrapingTime) * MaxRead + MaxCheck
<1>1. Len(ScrapingTime) \in Nat /\ Len(ScrapingTime) * MaxRead \in Nat
  BY ScheduleAssumption, OneMore
<1> QED BY <1>1, ScheduleAssumption DEF PassTime, Gap

(* All groups start in time. *)
LEMMA InitPunctual == Init => Punctual
<1> SUFFICES ASSUME Init PROVE Punctual
  OBVIOUS
<1>1. \A g \in Groups : ScrapingTime[g] \in Nat
  BY ScheduleAssumption DEF Groups
<1>2. ASSUME NEW g \in Groups, Free(g) PROVE Bounded(g)
  <2>1. ScrapingTime[g] > 0 /\ since[g] = 0
    BY <1>2 DEF Free, Init
  <2> QED BY <1>1, <2>1, GapBounds, ScheduleAssumption
          DEF Init, Bounded, Ended
<1> QED BY <1>2 DEF Init, Punctual

(* Every step keeps the bounds. *)
LEMMA NextPunctual == TypeOK /\ Punctual /\ [Next]_vars => Punctual'
<1> SUFFICES ASSUME TypeOK, Punctual, [Next]_vars PROVE Punctual'
  OBVIOUS
<1>a. /\ Len(ScrapingTime) \in Nat /\ Groups = 1..Len(ScrapingTime)
      /\ MaxRead \in Nat /\ MaxCheck \in Nat /\ Period \in Nat
      /\ Waits \subseteq Nat
      /\ \A g \in Groups : ScrapingTime[g] \in Nat
  BY ScheduleAssumption DEF Groups
<1>b. /\ turn \in 1..Len(ScrapingTime) + 1 /\ lag \in Int
      /\ \A g \in Groups : since[g] \in Nat
  BY DEF TypeOK
<1> DEFINE reads == (turn - 1) * MaxRead
<1>c. /\ reads \in Nat
      /\ turn * MaxRead = reads + MaxRead
  <2>1. turn - 1 \in Nat /\ turn = turn - 1 + 1
    BY <1>a, <1>b
  <2> QED BY <2>1, <1>a, OneMore
<1>d. ASSUME NEW g \in Groups
      PROVE  /\ Tested(g) <=> /\ since[g] < ScrapingTime[g] + lag
                             /\ since[g] < ScrapingTime[g] + reads
             /\ Untested(g) <=> since[g] < ScrapingTime[g] + Gap + reads
  BY DEF Tested, Untested
<1>e. ASSUME NEW g \in Groups, turn' = turn + 1
      PROVE  /\ Tested(g)' <=>
                  /\ since'[g] < ScrapingTime[g] + lag'
                  /\ since'[g] < ScrapingTime[g] + (reads + MaxRead)
             /\ Untested(g)' <=>
                  since'[g] < ScrapingTime[g] + Gap + (reads + MaxRead)
  <2>1. (turn' - 1) * MaxRead = reads + MaxRead
    <3>1. turn' - 1 = turn
      BY <1>b, <1>e
    <3> QED BY <3>1, <1>c
  <2>2. Gap' = Gap
    BY DEF Gap, PassTime
  <2> HIDE DEF reads
  <2>3. Tested(g)' <=> /\ since'[g] < ScrapingTime[g] + lag'
                       /\ since'[g] < ScrapingTime[g] + (turn' - 1) * MaxRead
    BY DEF Tested
  <2>4. Untested(g)' <=>
          since'[g] < ScrapingTime[g] + Gap' + (turn' - 1) * MaxRead
    BY DEF Untested
  <2> QED BY <2>1, <2>2, <2>3, <2>4
<1>f. ASSUME turn = Len(ScrapingTime) + 1
      PROVE  reads = Len(ScrapingTime) * MaxRead
  BY <1>a, <1>f
<1> HIDE DEF reads
<1>1. CASE SkipGroup
  <2>1. ASSUME NEW g \in Groups, Free(g)' PROVE Bounded(g)'
    <3>1. Free(g) /\ Bounded(g)
      BY <1>1, <2>1 DEF Free, SkipGroup, Punctual
    <3>2. g = turn => since[g] < ScrapingTime[g]
      BY <1>1, <1>a, <1>b DEF SkipGroup, Due
    <3>3. pc = "groups" /\ lag >= 0
      BY <1>1 DEF SkipGroup, Punctual
    <3>4. CASE g < turn + 1
      <4>1. Tested(g) \/ since[g] < ScrapingTime[g]
        BY <3>1, <3>2, <3>3, <3>4, <1>a, <1>b DEF Bounded
      <4>2. turn' = turn + 1 /\ since' = since /\ lag' = lag /\ pc' = pc
        BY <1>1 DEF SkipGroup
      <4>3. Tested(g)'
        BY <4>1, <4>2, <3>3, <1>a, <1>b, <1>c, <1>d, <1>e
      <4> QED BY <3>3, <3>4, <4>2, <4>3, <1>a, <1>b DEF Bounded
    <3>5. CASE turn + 1 <= g
      <4>1. Untested(g)
        BY <3>1, <3>3, <3>5, <1>a, <1>b DEF Bounded
      <4>2. turn' = turn + 1 /\ since' = since /\ pc' = pc
        BY <1>1 DEF SkipGroup
      <4>3. Untested(g)'
        <5>1. since[g] < ScrapingTime[g] + Gap + reads
          BY <4>1, <1>d
        <5>2. since'[g] < ScrapingTime[g] + Gap + (reads + MaxRead)
          BY <5>1, <4>2, <1>a, <1>b, <1>c, GapBounds
        <5> QED BY <5>2, <4>2, <1>e
      <4> QED BY <3>3, <3>5, <4>2, <4>3, <1>a, <1>b DEF Bounded
    <3> QED BY <3>4, <3>5, <1>a, <1>b
  <2> QED BY <1>1, <2>1 DEF SkipGroup, Punctual
<1>2. ASSUME NEW time \in 0..MaxRead, ReadGroup(time) PROVE Punctual'
  <2>0. time \in Nat /\ time <= MaxRead
    BY <1>a
  <2>1. ASSUME NEW g \in Groups, Free(g)' PROVE Bounded(g)'
    <3>1. ScrapingTime[g] > 0 /\ (g # turn => Free(g) /\ Bounded(g))
      BY <1>2, <2>1 DEF Free, ReadGroup, TypeOK, Punctual
    <3>2. since'[g] = IF g = turn THEN 0 ELSE since[g] + time
      BY <1>2 DEF ReadGroup, Later
    <3>3. pc = "groups" /\ lag >= 0 /\ lag' = lag + time /\ turn' = turn + 1
          /\ pc' = "groups"
      BY <1>2 DEF ReadGroup, Punctual
    <3>4. CASE g < turn + 1
      <4>1. g = turn \/ Tested(g)
        BY <3>1, <3>3, <3>4, <1>a, <1>b DEF Bounded
      <4>2. Tested(g)'
        <5>1. \/ g = turn
              \/ /\ since[g] < ScrapingTime[g] + lag
                 /\ since[g] < ScrapingTime[g] + reads
          BY <4>1, <1>d
        <5>2. /\ since'[g] < ScrapingTime[g] + lag'
              /\ since'[g] < ScrapingTime[g] + (reads + MaxRead)
          BY <5>1, <3>1, <3>2, <3>3, <2>0, <1>a, <1>b, <1>c
        <5> QED BY <5>2, <3>3, <1>e
      <4> QED BY <3>3, <3>4, <4>2, <1>a, <1>b DEF Bounded
    <3>5. CASE turn + 1 <= g
      <4>1. g # turn /\ Untested(g)
        BY <3>1, <3>3, <3>5, <1>a, <1>b DEF Bounded
      <4>2. Untested(g)'
        BY <4>1, <3>2, <3>3, <2>0, <1>a, <1>b, <1>c, <1>d, <1>e, GapBounds
      <4> QED BY <3>3, <3>5, <4>2, <1>a, <1>b DEF Bounded
    <3> QED BY <3>4, <3>5, <1>a, <1>b
  <2> QED BY <1>2, <2>0, <2>1, <1>b DEF ReadGroup, Punctual
<1>3. CASE EndPass
  <2>1. turn = Len(ScrapingTime) + 1
    BY <1>3, <1>a, <1>b DEF EndPass
  <2>2. ASSUME NEW g \in Groups, Free(g)' PROVE Bounded(g)'
    <3>1. Free(g) /\ Bounded(g) /\ g < turn
      BY <1>3, <2>1, <2>2, <1>a DEF Free, EndPass, Punctual
    <3> QED BY <1>3, <3>1 DEF EndPass, Bounded, Tested
  <2> QED BY <1>3, <2>1, <2>2 DEF EndPass, Punctual
<1>4. ASSUME NEW time \in 0..MaxCheck, CheckRuns(time) PROVE Punctual'
  <2>0. time \in Nat /\ time <= MaxCheck
    BY <1>a
  <2>1. pc = "check" /\ connected /\ turn = Len(ScrapingTime) + 1
    BY <1>4 DEF CheckRuns, EndCheck, Punctual
  <2>2. reads = Len(ScrapingTime) * MaxRead
    BY <2>1, <1>f
  <2>3. ASSUME NEW g \in Groups, Free(g)' PROVE Bounded(g)'
    <3>1. Free(g) /\ Tested(g)
      BY <1>4, <2>1, <2>3 DEF Free, CheckRuns, Punctual, Bounded
    <3>2. since'[g] = since[g] + time
      BY <1>4 DEF CheckRuns, EndCheck, Later
    <3>3. lag' = lag + time - Period /\ pc' = "sleep"
      BY <1>4, <2>0, <1>a, <1>b DEF CheckRuns, EndCheck
    <3>4. /\ since[g] < ScrapingTime[g] + lag
          /\ since[g] < ScrapingTime[g] + reads
      BY <3>1, <1>d
    <3>5. PassTime = reads + MaxCheck
      BY <2>2, GapBounds
    <3>6. since'[g] < ScrapingTime[g] + lag' + Period
      BY <3>2, <3>3, <3>4, <2>0, <1>a, <1>b
    <3>7. since'[g] < ScrapingTime[g] + PassTime
      BY <3>2, <3>4, <3>5, <2>0, <1>a, <1>b, <1>c
    <3>8. Ended(g)'
      BY <3>6, <3>7 DEF Ended, PassTime
    <3> QED BY <3>3, <3>8 DEF Bounded
  <2> QED BY <1>4, <2>3 DEF CheckRuns, EndCheck, Punctual
<1>5. ASSUME NEW time \in Waits, CheckWaits(time) \/ CheckConnects(time)
      PROVE Punctual'
  BY <1>5 DEF CheckWaits, CheckConnects, EndCheck, Waited, Free, Punctual
<1>6. CASE Sleep
  <2> DEFINE time == IF lag < 0 THEN -lag ELSE 0
  <2>1. ASSUME NEW g \in Groups, Free(g)' PROVE Bounded(g)'
    <3>1. Ended(g)
      BY <1>6, <2>1 DEF Free, Sleep, Punctual, Bounded
    <3>2. since'[g] = since[g] + time
      BY <1>6 DEF Sleep, Later
    <3>3. pc' = "groups" /\ turn' = 1
      BY <1>6 DEF Sleep
    <3>4. since'[g] < ScrapingTime[g] + Gap
      BY <3>1, <3>2, <1>a, <1>b, GapBounds DEF Ended
    <3>5. (turn' - 1) * MaxRead = 0
      BY <3>3, <1>a
    <3>6. Untested(g)'
      BY <3>4, <3>5, <1>a, GapBounds DEF Untested
    <3> QED BY <3>3, <3>6, <1>a DEF Bounded
  <2>2. lag' >= 0
    BY <1>6, <1>b DEF Sleep
  <2> QED BY <1>6, <2>1, <2>2 DEF Sleep, Punctual
<1>7. CASE UNCHANGED vars
  BY <1>7 DEF vars, Punctual, Free, Bounded, Tested, Untested, Ended
<1> QED BY <1>1, <1>2, <1>3, <1>4, <1>5, <1>6, <1>7 DEF Next

(***************************************************************************)
(* Without a wait for the PLC no group is read later than its scraping     *)
(* time, one pass and the reads of the groups before it allow.             *)
(***************************************************************************)
THEOREM ReadInTimeCorrect == Spec => []ReadInTime
<1>1. TypeOK /\ Punctual => ReadInTime
  <2> SUFFICES ASSUME TypeOK, Punctual, pc = "groups", turn \in Groups,
                      ~waited[turn], ScrapingTime[turn] > 0
               PROVE  Untested(turn)
    BY DEF ReadInTime, Untested
  <2>1. Free(turn) /\ turn <= turn
    BY DEF Free, TypeOK
  <2> QED BY <2>1 DEF Punctual, Bounded
<1> QED BY <1>1, TypeCorrect, InitPunctual, NextPunctual, PTL DEF Spec

=============================================================================
