-------------------------- MODULE MCMarketCalendar --------------------------
(* The calendar with two seconds to an hour: every hour of every kind of   *)
(* year, and every sequence of them.                                       *)
EXTENDS MarketCalendar
=============================================================================
