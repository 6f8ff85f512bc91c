--------------------------- MODULE MCPollSchedule ---------------------------
(* Three groups, due in every pass, in every second and in between.        *)
EXTENDS PollSchedule

ThreeTimes == <<4, 13, 9>>
SomeWaits == {0, 1, 7, 20}

=============================================================================
