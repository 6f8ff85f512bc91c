------------------------------ MODULE MCScrape ------------------------------
(* Two groups, one of them of two symbols, and a page in another order.    *)
EXTENDS Scrape

CONSTANTS a, b, c

ABC == {a, b, c}
TwoGroups == <<<<a, b>>, <<c>>>>
Page == <<c, a, b>>
TwoKinds == <<"current_last_time", "last_try_status">>

=============================================================================
