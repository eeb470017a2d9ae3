--------------------------- MODULE MCCalendarCheck ---------------------------
(***************************************************************************)
(* Real months of a common year (January to June) and real weeks, in days  *)
(* of three minutes of two ticks.                                          *)
(***************************************************************************)
EXTENDS CalendarCheck

\* Month starts of January to July.
MCMonthStart == [m \in 0..6 |-> <<0, 31, 59, 90, 120, 151, 181>>[m + 1]]

Of(frequency, dows, doms) ==
    [frequency : {frequency}, minute : {0, 2}, dow : dows, dom : doms,
     start : {0, 3, 40}, end : {Null, 33, 61}]

MCTimings ==
    Of("daily", {Null}, {Null}) \cup Of("weekly", {Null, 0, 2, 6}, {Null})
        \cup Of("monthly", {Null}, {Null, 1, 15, 28, 31}) \cup Of("other", {3}, {3})
=============================================================================
