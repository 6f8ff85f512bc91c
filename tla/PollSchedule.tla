---------------------------- MODULE PollSchedule ----------------------------
(***************************************************************************)
(* threadLoop against the clock: how the times that reads, checks and      *)
(* waits take decide when the groups are read.                             *)
(*                                                                         *)
(* Every step takes time, which passes for all groups.  The clock itself   *)
(* is not kept, only the time since lastRead of each group, and how far    *)
(* the clock is ahead of `next', the start of the pass on the timetable.   *)
(* sleep_until is exact.  The groups are there from the start, and         *)
(* main's hold of the mutex takes no time.                                 *)
(***************************************************************************)
EXTENDS Integers, Sequences

CONSTANTS
  ScrapingTime, \* sequence of the scraping times of the groups
  Period,       \* _refreshTimeResolution
  MaxRead,      \* readGroup takes at most this
  MaxCheck,     \* checkADSConnection takes at most this if it need not wait
  Waits         \* what it may take if it must wait for the PLC

ASSUME ScheduleAssumption ==
  /\ ScrapingTime \in Seq(Nat)
  /\ Period \in Nat /\ MaxRead \in Nat /\ MaxCheck \in Nat
  /\ Waits \subseteq Nat

VARIABLES
  pc,        \* "groups", "check" or "sleep"
  turn,      \* index of the loop in readGroups
  since,     \* time since lastRead of each group
  lag,       \* the clock minus `next'
  connected, \* _device has had a value
  waited     \* ghost: the worker has waited for the PLC since the last read

vars == <<pc, turn, since, lag, connected, waited>>

Groups == DOMAIN ScrapingTime

(* The symbols are new.  Without a device the worker is in its first check. *)
Init ==
  /\ turn = 1
  /\ since = [g \in Groups |-> 0]
  /\ waited = [g \in Groups |-> FALSE]
  /\ connected \in BOOLEAN
  /\ pc = IF connected THEN "sleep" ELSE "check"
  /\ lag \in IF connected THEN -Period..0 ELSE {0}

Later(time) == [g \in Groups |-> since[g] + time]

(* Mistake: the group is not due at its scraping time. *)
DueLater(g) == since[g] > ScrapingTime[g]

Due(g) == since[g] >= ScrapingTime[g]

SkipGroup ==
  /\ pc = "groups"
  /\ turn \in Groups /\ ~Due(turn)
  /\ turn' = turn + 1
  /\ UNCHANGED <<pc, since, lag, connected, waited>>

(* Mistake: what is stored is when the group is due next. *)
ReadGroupStoresDue(time) ==
  /\ pc = "groups"
  /\ turn \in Groups /\ Due(turn)
  /\ turn' = turn + 1
  /\ since' = [Later(time) EXCEPT ![turn] = -ScrapingTime[turn]]
  /\ lag' = lag + time
  /\ waited' = [waited EXCEPT ![turn] = FALSE]
  /\ UNCHANGED <<pc, connected>>

(* lastRead is taken after the read. *)
ReadGroup(time) ==
  /\ pc = "groups"
  /\ turn \in Groups /\ Due(turn)
  /\ turn' = turn + 1
  /\ since' = [Later(time) EXCEPT ![turn] = 0]
  /\ lag' = lag + time
  /\ waited' = [waited EXCEPT ![turn] = FALSE]
  /\ UNCHANGED <<pc, connected>>

EndPass ==
  /\ pc = "groups"
  /\ turn \notin Groups
  /\ pc' = "check"
  /\ UNCHANGED <<turn, since, lag, connected, waited>>

(* The end of the check, the time that `next' is then set to, and the      *)
(* addition of the period.                                                 *)
EndCheck(time, start) ==
  /\ pc = "check"
  /\ pc' = "sleep"
  /\ since' = Later(time)
  /\ lag' = start - Period
  /\ connected' = TRUE
  /\ UNCHANGED turn

(* checkADSConnection returns false. *)
CheckRuns(time) ==
  /\ connected
  /\ EndCheck(time, lag + time)
  /\ UNCHANGED waited

Waited == waited' = [g \in Groups |-> TRUE]

(* It returns true, and `next' is set to now. *)
CheckWaits(time) == EndCheck(time, 0) /\ Waited

(* It returns false also if all it waited for was the first connection. *)
CheckConnects(time) == ~connected /\ EndCheck(time, lag + time) /\ Waited

(* Mistake: sleep_for, a period whatever time it is. *)
SleepFor ==
  /\ pc = "sleep"
  /\ since' = Later(Period)
  /\ lag' = lag + Period
  /\ pc' = "groups"
  /\ turn' = 1
  /\ UNCHANGED <<connected, waited>>

(* sleep_until returns at once if the time has passed; a new pass starts. *)
Sleep ==
  /\ pc = "sleep"
  /\ LET time == IF lag < 0 THEN -lag ELSE 0
     IN /\ since' = Later(time)
        /\ lag' = lag + time
  /\ pc' = "groups"
  /\ turn' = 1
  /\ UNCHANGED <<connected, waited>>

Next ==
  \/ SkipGroup
  \/ \E time \in 0..MaxRead : ReadGroup(time)
  \/ EndPass
  \/ \E time \in 0..MaxCheck : CheckRuns(time)
  \/ \E time \in Waits : CheckWaits(time) \/ CheckConnects(time)
  \/ Sleep

Spec == Init /\ [][Next]_vars

(* The worker is scheduled and its calls return. *)
FairSpec == Spec /\ WF_vars(Next)

-----------------------------------------------------------------------------

(* Every variable holds a value of its type. *)
TypeOK ==
  /\ pc \in {"groups", "check", "sleep"}
  /\ turn \in 1..Len(ScrapingTime) + 1
  /\ since \in [Groups -> Nat]
  /\ lag \in Int
  /\ connected \in BOOLEAN
  /\ waited \in [Groups -> BOOLEAN]

(* The time between the starts of two passes without a wait. *)
PassTime == Len(ScrapingTime) * MaxRead + MaxCheck
Gap == IF PassTime <= Period THEN Period ELSE PassTime

(***************************************************************************)
(* Unless the worker has waited for the PLC, a group whose turn it is was  *)
(* read no longer ago than its scraping time, one pass and the reads of    *)
(* the groups before it, however the times of reads and checks fall and    *)
(* though lastRead is taken after the read.  (A scraping time of zero asks *)
(* for a read in every pass.)                                              *)
(***************************************************************************)
ReadInTime ==
  pc = "groups" /\ turn \in Groups /\ ~waited[turn] /\ ScrapingTime[turn] > 0
    => since[turn] < ScrapingTime[turn] + Gap + (turn - 1) * MaxRead

(***************************************************************************)
(* Passes that follow one another without sleep, as they do after the wait *)
(* for the first connection, which leaves `next' behind, come to an end:   *)
(* the worker sleeps again, provided that a pass fits into the period.     *)
(***************************************************************************)
CatchesUp ==
  PassTime < Period => (pc = "sleep" /\ lag > 0 ~> pc = "sleep" /\ lag <= 0)

(***************************************************************************)
(* README.md, line 128, says that the poll time resolution is "in the      *)
(* worst case the allowed deviation of the scraping time", and line 131    *)
(* that no more than the sum of both passes between two reads.  A group    *)
(* waits for the reads of those before it, too.                            *)
(***************************************************************************)
DeviatesByPeriod ==
  pc = "groups" /\ turn \in Groups /\ ~waited[turn] /\ PassTime < Period
    => since[turn] <= ScrapingTime[turn] + Period

=============================================================================
