------------------------ MODULE ConfigurationProofs ------------------------
(***************************************************************************)
(* Which files config_t accepts, for files with any number of variables    *)
(* and additional metrics, each of whose fields may read in any way: the   *)
(* parser, which stops at the first field that does not go on, against the *)
(* description, which knows no order.                                      *)
(***************************************************************************)
EXTENDS Configuration, WellFoundedInduction, TLAPS

Outcomes == {"ok", "exit", "abort"}
Elements(s) == {s[i] : i \in DOMAIN s}

-----------------------------------------------------------------------------
(* Sequences of outcomes. *)

(* A non-empty set of positions has a least one. *)
LEMMA LeastPosition ==
  ASSUME NEW positions \in SUBSET Nat, positions # {}
  PROVE  \E i \in positions : \A j \in positions : i <= j
<1>1. PICK i \in positions :
        \A j \in positions : ~ (<<j, i>> \in OpToRel(<, Nat))
  BY NatLessThanWellFounded, WFMin
<1>2. ASSUME NEW j \in positions PROVE i <= j
  <2>1. i \in Nat /\ j \in Nat
    OBVIOUS
  <2>2. ~ (j < i)
    BY <1>1, <2>1 DEF OpToRel
  <2> QED BY <2>1, <2>2
<1> QED BY <1>2

(* The parser goes on if every step does, and ends as one of them does. *)
LEMMA FirstDecides ==
  ASSUME NEW s \in Seq(Outcomes)
  PROVE  /\ First(s) \in Outcomes
         /\ First(s) = "ok" <=> Elements(s) \subseteq {"ok"}
         /\ First(s) # "ok" => First(s) \in Elements(s)
<1> DEFINE ends == {i \in DOMAIN s : s[i] # "ok"}
           least == CHOOSE i \in ends : \A j \in ends : i <= j
<1>1. CASE ends = {}
  BY <1>1 DEF First, Elements, Outcomes
<1>2. CASE ends # {}
  <2>1. ends \in SUBSET Nat
    OBVIOUS
  <2>2. \E i \in ends : \A j \in ends : i <= j
    BY <1>2, <2>1, LeastPosition
  <2>3. least \in ends
    BY <2>2
  <2>4. First(s) = s[least]
    BY <1>2 DEF First
  <2> HIDE DEF least
  <2> QED BY <2>3, <2>4 DEF Elements
<1> QED BY <1>1, <1>2

(* What two sequences hold together. *)
LEMMA ConcatElements ==
  ASSUME NEW S, NEW a \in Seq(S), NEW b \in Seq(S)
  PROVE  /\ a \o b \in Seq(S)
         /\ Elements(a \o b) = Elements(a) \cup Elements(b)
<1>1. /\ Len(a) \in Nat /\ DOMAIN a = 1..Len(a)
      /\ Len(b) \in Nat /\ DOMAIN b = 1..Len(b)
      /\ a \o b \in Seq(S)
      /\ DOMAIN (a \o b) = 1..Len(a) + Len(b)
      /\ \A i \in 1..Len(a) + Len(b) :
           (a \o b)[i] = IF i <= Len(a) THEN a[i] ELSE b[i - Len(a)]
  OBVIOUS
<1> DEFINE c == a \o b
<1> HIDE DEF c
<1>2. ASSUME NEW x \in Elements(c) PROVE x \in Elements(a) \cup Elements(b)
  <2>1. PICK i \in 1..Len(a) + Len(b) : x = c[i]
    BY <1>1, <1>2 DEF Elements, c
  <2>2. CASE i <= Len(a)
    BY <1>1, <2>1, <2>2 DEF Elements, c
  <2>3. CASE ~(i <= Len(a))
    <3>1. i - Len(a) \in DOMAIN b /\ x = b[i - Len(a)]
      BY <1>1, <2>1, <2>3 DEF c
    <3> QED BY <3>1 DEF Elements
  <2> QED BY <2>2, <2>3
<1>3. ASSUME NEW x \in Elements(a) PROVE x \in Elements(c)
  <2>1. PICK i \in 1..Len(a) : x = a[i]
    BY <1>1, <1>3 DEF Elements
  <2>2. i \in DOMAIN c /\ x = c[i]
    BY <1>1, <2>1 DEF c
  <2> QED BY <2>2 DEF Elements
<1>4. ASSUME NEW x \in Elements(b) PROVE x \in Elements(c)
  <2>1. PICK i \in 1..Len(b) : x = b[i]
    BY <1>1, <1>4 DEF Elements
  <2>2. i + Len(a) \in DOMAIN c /\ x = c[i + Len(a)]
    BY <1>1, <2>1 DEF c
  <2> QED BY <2>2 DEF Elements
<1> QED BY <1>1, <1>2, <1>3, <1>4 DEF c

-----------------------------------------------------------------------------
(* How the kinds of fields read. *)

(* Each kind of field takes each reading to an outcome. *)
LEMMA FieldOutcomes ==
  ASSUME NEW r \in Readings
  PROVE  /\ {Mandatory[r], Optional[r], NetId[r], Unguarded[r], Labels[r],
             Show[r]} \subseteq Outcomes
         /\ Mandatory[r] = "ok" <=> r = "right"
         /\ NetId[r] = "ok" <=> r = "right"
         /\ Show[r] = "ok" <=> r = "right"
         /\ Optional[r] = "ok" <=> r \in {"right", "absent"}
         /\ Unguarded[r] = "ok" <=> r \in {"right", "absent"}
         /\ Labels[r] = "ok" <=> r \in {"right", "absent"}
         /\ "abort" \notin {Mandatory[r], Optional[r]}
         /\ NetId[r] = "abort" => r = "unknown"
         /\ Labels[r] = "abort" => r = "wrong"
         /\ Unguarded[r] = "abort" => r \in {"wrong", "unknown"}
         /\ Show[r] = "abort" => r \in {"wrong", "unknown"}
<1> USE DEF Readings, Outcomes, Outcome, Mandatory, Optional, NetId,
            Unguarded, Labels, Show
<1>1. CASE r = "right"
  BY <1>1
<1>2. CASE r = "absent"
  BY <1>2
<1>3. CASE r = "wrong"
  BY <1>3
<1>4. CASE r = "unknown"
  BY <1>4
<1> QED BY <1>1, <1>2, <1>3, <1>4

-----------------------------------------------------------------------------
(* The parser, from the inside out. *)

BadBlock(d) ==
  /\ d.present
  /\ {d.show, d.carryLabels, d.alias, d.customDescription, d.labels}
       \cap {"wrong", "unknown"} # {}

BadVariable(v) ==
  \/ v.labels = "wrong"
  \/ \E j \in DOMAIN v.additional : BadBlock(v.additional[j])

(* A block goes on when it is as described. *)
LEMMA BlockOutcome ==
  ASSUME NEW d \in AdditionalDataMetric
  PROVE  /\ ParseAdditionalDataMetric(d) \in Outcomes
         /\ ParseAdditionalDataMetric(d) = "ok" <=> ValidBlock(d)
         /\ ParseAdditionalDataMetric(d) = "abort" => BadBlock(d)
<1> DEFINE s == <<Show[d.show], Unguarded[d.carryLabels], Unguarded[d.alias],
                  Unguarded[d.customDescription], Labels[d.labels]>>
<1>0. /\ d.present \in BOOLEAN /\ d.show \in Readings
      /\ d.carryLabels \in Readings /\ d.alias \in Readings
      /\ d.customDescription \in Readings /\ d.labels \in Readings
  BY DEF AdditionalDataMetric
<1>1. CASE ~d.present
  BY <1>1 DEF ParseAdditionalDataMetric, ValidBlock, Outcomes
<1>2. CASE d.present
  <2>1. /\ Show[d.show] \in Outcomes /\ Unguarded[d.carryLabels] \in Outcomes
        /\ Unguarded[d.alias] \in Outcomes
        /\ Unguarded[d.customDescription] \in Outcomes
        /\ Labels[d.labels] \in Outcomes
    BY <1>0, FieldOutcomes
  <2>2. s \in Seq(Outcomes)
    BY <2>1
  <2>3. Elements(s) =
          {Show[d.show], Unguarded[d.carryLabels], Unguarded[d.alias],
           Unguarded[d.customDescription], Labels[d.labels]}
    BY DEF Elements
  <2>4. ParseAdditionalDataMetric(d) = First(s)
    BY <1>2 DEF ParseAdditionalDataMetric
  <2> HIDE DEF s
  <2>5. First(s) = "ok" <=> ValidBlock(d)
    <3>1. First(s) = "ok" <=>
            /\ Show[d.show] = "ok" /\ Unguarded[d.carryLabels] = "ok"
            /\ Unguarded[d.alias] = "ok"
            /\ Unguarded[d.customDescription] = "ok"
            /\ Labels[d.labels] = "ok"
      BY <2>2, <2>3, FirstDecides
    <3>2. /\ Show[d.show] = "ok" <=> d.show = "right"
          /\ \A r \in {d.carryLabels, d.alias, d.customDescription} :
               Unguarded[r] = "ok" <=> r \in {"right", "absent"}
          /\ Labels[d.labels] = "ok" <=> d.labels \in {"right", "absent"}
      BY <1>0, FieldOutcomes
    <3> QED BY <1>2, <3>1, <3>2 DEF ValidBlock
  <2>6. First(s) = "abort" => BadBlock(d)
    <3>1. First(s) = "abort" =>
            \/ Show[d.show] = "abort" \/ Unguarded[d.carryLabels] = "abort"
            \/ Unguarded[d.alias] = "abort"
            \/ Unguarded[d.customDescription] = "abort"
            \/ Labels[d.labels] = "abort"
      BY <2>2, <2>3, FirstDecides
    <3>2. /\ Show[d.show] = "abort" => d.show \in {"wrong", "unknown"}
          /\ \A r \in {d.carryLabels, d.alias, d.customDescription} :
               Unguarded[r] = "abort" => r \in {"wrong", "unknown"}
          /\ Labels[d.labels] = "abort" => d.labels \in {"wrong", "unknown"}
      BY <1>0, FieldOutcomes
    <3> QED BY <1>2, <3>1, <3>2 DEF BadBlock
  <2> QED BY <2>2, <2>4, <2>5, <2>6, FirstDecides
<1> QED BY <1>0, <1>1, <1>2

(* The outcomes of the blocks of a variable. *)
LEMMA BlocksOutcome ==
  ASSUME NEW blocks \in Seq(AdditionalDataMetric)
  PROVE  LET s == [i \in DOMAIN blocks |->
                     ParseAdditionalDataMetric(blocks[i])]
         IN /\ s \in Seq(Outcomes)
            /\ Elements(s) \subseteq {"ok"}
                 <=> \A i \in DOMAIN blocks : ValidBlock(blocks[i])
            /\ "abort" \in Elements(s)
                 => \E i \in DOMAIN blocks : BadBlock(blocks[i])
<1> DEFINE f(d) == ParseAdditionalDataMetric(d)
           s == [i \in DOMAIN blocks |-> f(blocks[i])]
<1>1. \A i \in DOMAIN blocks :
        /\ f(blocks[i]) \in Outcomes
        /\ f(blocks[i]) = "ok" <=> ValidBlock(blocks[i])
        /\ f(blocks[i]) = "abort" => BadBlock(blocks[i])
  BY BlockOutcome
<1> HIDE DEF f
<1>2. s \in Seq(Outcomes)
  <2>1. Len(blocks) \in Nat /\ DOMAIN blocks = 1..Len(blocks)
    OBVIOUS
  <2> QED BY <1>1, <2>1
<1>3. DOMAIN s = DOMAIN blocks /\ \A i \in DOMAIN s : s[i] = f(blocks[i])
  OBVIOUS
<1> HIDE DEF s
<1>4. Elements(s) \subseteq {"ok"}
        <=> \A i \in DOMAIN blocks : ValidBlock(blocks[i])
  BY <1>1, <1>3 DEF Elements
<1>5. "abort" \in Elements(s) => \E i \in DOMAIN blocks : BadBlock(blocks[i])
  BY <1>1, <1>3 DEF Elements
<1> QED BY <1>2, <1>4, <1>5 DEF s, f

(* A variable goes on when it is as described. *)
LEMMA VariableOutcome ==
  ASSUME NEW names, NEW v \in Variable(names)
  PROVE  /\ ParseSymbol(v) \in Outcomes
         /\ ParseSymbol(v) = "ok" <=> ValidVariable(v)
         /\ ParseSymbol(v) = "abort" => BadVariable(v)
<1> DEFINE a == <<Optional[v.alias], Optional[v.type],
                  Optional[v.description], Mandatory[v.ADSDatatype],
                  Mandatory[v.scrapingTime], Labels[v.labels]>>
           b == [i \in DOMAIN v.additional |->
                   ParseAdditionalDataMetric(v.additional[i])]
<1>0. /\ v.alias \in Readings /\ v.type \in Readings
      /\ v.description \in Readings /\ v.ADSDatatype \in Readings
      /\ v.scrapingTime \in Readings /\ v.labels \in Readings
      /\ v.additional \in Seq(AdditionalDataMetric)
  BY DEF Variable
<1>1. /\ Optional[v.alias] \in Outcomes /\ Optional[v.type] \in Outcomes
      /\ Optional[v.description] \in Outcomes
      /\ Mandatory[v.ADSDatatype] \in Outcomes
      /\ Mandatory[v.scrapingTime] \in Outcomes
      /\ Labels[v.labels] \in Outcomes
  BY <1>0, FieldOutcomes
<1>2. a \in Seq(Outcomes)
  BY <1>1
<1>3. Elements(a) =
        {Optional[v.alias], Optional[v.type], Optional[v.description],
         Mandatory[v.ADSDatatype], Mandatory[v.scrapingTime],
         Labels[v.labels]}
  BY DEF Elements
<1>4. /\ b \in Seq(Outcomes)
      /\ Elements(b) \subseteq {"ok"}
           <=> \A i \in DOMAIN v.additional : ValidBlock(v.additional[i])
      /\ "abort" \in Elements(b)
           => \E i \in DOMAIN v.additional : BadBlock(v.additional[i])
  BY <1>0, BlocksOutcome
<1>5. ParseSymbol(v) = First(a \o b)
  BY DEF ParseSymbol
<1> HIDE DEF a, b
<1>6. /\ a \o b \in Seq(Outcomes)
      /\ Elements(a \o b) = Elements(a) \cup Elements(b)
  BY <1>2, <1>4, ConcatElements
<1>7. Elements(a) \subseteq {"ok"} <=>
        /\ v.ADSDatatype = "right" /\ v.scrapingTime = "right"
        /\ {v.alias, v.type, v.description, v.labels}
             \subseteq {"right", "absent"}
  <2>1. /\ Mandatory[v.ADSDatatype] = "ok" <=> v.ADSDatatype = "right"
        /\ Mandatory[v.scrapingTime] = "ok" <=> v.scrapingTime = "right"
        /\ \A r \in {v.alias, v.type, v.description} :
             Optional[r] = "ok" <=> r \in {"right", "absent"}
        /\ Labels[v.labels] = "ok" <=> v.labels \in {"right", "absent"}
    BY <1>0, FieldOutcomes
  <2> QED BY <1>3, <2>1
<1>8. "abort" \in Elements(a) => v.labels = "wrong"
  <2>1. /\ "abort" \notin {Mandatory[v.ADSDatatype], Mandatory[v.scrapingTime]}
        /\ \A r \in {v.alias, v.type, v.description} : Optional[r] # "abort"
        /\ Labels[v.labels] = "abort" => v.labels = "wrong"
    BY <1>0, FieldOutcomes
  <2> QED BY <1>3, <2>1
<1>9. First(a \o b) = "ok" <=> ValidVariable(v)
  BY <1>4, <1>6, <1>7, FirstDecides DEF ValidVariable
<1>10. First(a \o b) = "abort" => BadVariable(v)
  BY <1>4, <1>6, <1>8, FirstDecides DEF BadVariable
<1> QED BY <1>5, <1>6, <1>9, <1>10, FirstDecides

(* The outcomes of the variables of a file. *)
LEMMA VariablesOutcome ==
  ASSUME NEW names, NEW variables \in Seq(Variable(names))
  PROVE  LET s == [i \in DOMAIN variables |-> ParseSymbol(variables[i])]
         IN /\ s \in Seq(Outcomes)
            /\ Elements(s) \subseteq {"ok"}
                 <=> \A i \in DOMAIN variables : ValidVariable(variables[i])
            /\ "abort" \in Elements(s)
                 => \E i \in DOMAIN variables : BadVariable(variables[i])
<1> DEFINE f(v) == ParseSymbol(v)
           s == [i \in DOMAIN variables |-> f(variables[i])]
<1>1. \A i \in DOMAIN variables :
        /\ f(variables[i]) \in Outcomes
        /\ f(variables[i]) = "ok" <=> ValidVariable(variables[i])
        /\ f(variables[i]) = "abort" => BadVariable(variables[i])
  BY VariableOutcome
<1> HIDE DEF f
<1>2. s \in Seq(Outcomes)
  <2>1. Len(variables) \in Nat /\ DOMAIN variables = 1..Len(variables)
    OBVIOUS
  <2> QED BY <1>1, <2>1
<1>3. DOMAIN s = DOMAIN variables /\ \A i \in DOMAIN s : s[i] = f(variables[i])
  OBVIOUS
<1> HIDE DEF s
<1>4. Elements(s) \subseteq {"ok"}
        <=> \A i \in DOMAIN variables : ValidVariable(variables[i])
  BY <1>1, <1>3 DEF Elements
<1>5. "abort" \in Elements(s)
        => \E i \in DOMAIN variables : BadVariable(variables[i])
  BY <1>1, <1>3 DEF Elements
<1> QED BY <1>2, <1>4, <1>5 DEF s, f

(***************************************************************************)
(* config_t goes on with exactly the files that are as described, and an   *)
(* exception escapes only where a field is bad that is read outside the    *)
(* try blocks: the order in which the fields are read, and that the parser *)
(* stops at the first bad one, make no difference to that.                 *)
(***************************************************************************)
THEOREM ReadConfigDecides ==
  ASSUME NEW names, NEW file \in File(names)
  PROVE  /\ ReadConfig(file) \in Outcomes
         /\ ReadConfig(file) = "ok" <=> Valid(file)
         /\ ReadConfig(file) = "abort" => BadOutsideTry(file)
<1> DEFINE a == <<NetId[file.localNetId], NetId[file.remoteNetId],
                  Mandatory[file.remoteIp], Mandatory[file.httpPort],
                  Unguarded[file.pollTimeResolution],
                  Unguarded[file.adsRemotePort]>>
           b == [i \in DOMAIN file.variables |->
                   ParseSymbol(file.variables[i])]
<1>0. /\ file.localNetId \in Readings /\ file.remoteNetId \in Readings
      /\ file.remoteIp \in Readings /\ file.httpPort \in Readings
      /\ file.pollTimeResolution \in Readings
      /\ file.adsRemotePort \in Readings
      /\ file.variables \in Seq(Variable(names))
  BY DEF File
<1>1. /\ NetId[file.localNetId] \in Outcomes
      /\ NetId[file.remoteNetId] \in Outcomes
      /\ Mandatory[file.remoteIp] \in Outcomes
      /\ Mandatory[file.httpPort] \in Outcomes
      /\ Unguarded[file.pollTimeResolution] \in Outcomes
      /\ Unguarded[file.adsRemotePort] \in Outcomes
  BY <1>0, FieldOutcomes
<1>2. a \in Seq(Outcomes)
  BY <1>1
<1>3. Elements(a) =
        {NetId[file.localNetId], NetId[file.remoteNetId],
         Mandatory[file.remoteIp], Mandatory[file.httpPort],
         Unguarded[file.pollTimeResolution], Unguarded[file.adsRemotePort]}
  BY DEF Elements
<1>4. /\ b \in Seq(Outcomes)
      /\ Elements(b) \subseteq {"ok"}
           <=> \A i \in DOMAIN file.variables :
                 ValidVariable(file.variables[i])
      /\ "abort" \in Elements(b)
           => \E i \in DOMAIN file.variables : BadVariable(file.variables[i])
  BY <1>0, VariablesOutcome
<1>5. ProcessConfig(file) = First(a \o b)
  BY DEF ProcessConfig
<1> HIDE DEF a, b
<1>6. /\ a \o b \in Seq(Outcomes)
      /\ Elements(a \o b) = Elements(a) \cup Elements(b)
  BY <1>2, <1>4, ConcatElements
<1>7. Elements(a) \subseteq {"ok"} <=>
        /\ {file.localNetId, file.remoteNetId, file.remoteIp, file.httpPort}
             = {"right"}
        /\ {file.pollTimeResolution, file.adsRemotePort}
             \subseteq {"right", "absent"}
  <2>1. /\ \A r \in {file.localNetId, file.remoteNetId} :
             NetId[r] = "ok" <=> r = "right"
        /\ \A r \in {file.remoteIp, file.httpPort} :
             Mandatory[r] = "ok" <=> r = "right"
        /\ \A r \in {file.pollTimeResolution, file.adsRemotePort} :
             Unguarded[r] = "ok" <=> r \in {"right", "absent"}
    BY <1>0, FieldOutcomes
  <2> QED BY <1>3, <2>1
<1>8. "abort" \in Elements(a) =>
        \/ "unknown" \in {file.localNetId, file.remoteNetId}
        \/ {file.pollTimeResolution, file.adsRemotePort}
             \cap {"wrong", "unknown"} # {}
  <2>1. /\ \A r \in {file.localNetId, file.remoteNetId} :
             NetId[r] = "abort" => r = "unknown"
        /\ \A r \in {file.remoteIp, file.httpPort} : Mandatory[r] # "abort"
        /\ \A r \in {file.pollTimeResolution, file.adsRemotePort} :
             Unguarded[r] = "abort" => r \in {"wrong", "unknown"}
    BY <1>0, FieldOutcomes
  <2> QED BY <1>3, <2>1
<1>9. /\ ProcessConfig(file) \in Outcomes
      /\ ProcessConfig(file) = "ok" <=>
           /\ Elements(a) \subseteq {"ok"}
           /\ \A i \in DOMAIN file.variables :
                ValidVariable(file.variables[i])
      /\ ProcessConfig(file) = "abort" =>
           \/ "abort" \in Elements(a)
           \/ \E i \in DOMAIN file.variables :
                BadVariable(file.variables[i])
  <2> DEFINE all == Elements(a \o b)
  <2>1. /\ First(a \o b) \in Outcomes
        /\ First(a \o b) = "ok" <=> all \subseteq {"ok"}
        /\ First(a \o b) # "ok" => First(a \o b) \in all
    BY <1>6, FirstDecides
  <2>2. all = Elements(a) \cup Elements(b)
    BY <1>6
  <2> HIDE DEF all
  <2> QED BY <1>4, <1>5, <2>1, <2>2
<1>10. (ReadConfig(file) = "ok") <=> Valid(file)
  BY <1>7, <1>9 DEF ReadConfig, Valid
<1>11. ReadConfig(file) = "abort" => BadOutsideTry(file)
  <2>1. ReadConfig(file) = "abort" => ProcessConfig(file) = "abort"
    BY DEF ReadConfig
  <2>2. ASSUME NEW i \in DOMAIN file.variables,
               BadVariable(file.variables[i])
        PROVE  BadOutsideTry(file)
    BY <2>2 DEF BadOutsideTry, BadVariable, BadBlock
  <2>3. "abort" \in Elements(a) => BadOutsideTry(file)
    BY <1>8 DEF BadOutsideTry
  <2> QED BY <1>9, <2>1, <2>2, <2>3
<1> QED BY <1>9, <1>10, <1>11 DEF ReadConfig, Outcomes

=============================================================================
