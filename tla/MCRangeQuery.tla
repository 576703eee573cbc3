---------------------------- MODULE MCRangeQuery ----------------------------
(* RangeQuery for TLC: hours of four units, two to the second; the market  *)
(* closes for one hour and opens again.                                    *)
EXTENDS RangeQuery

FiveHours == 0..4
TwoHours  == 0..1
NoHours   == {}
SomeFiles == {{}, {0}, {1}, {3}, {0, 2}, {1, 3}}
=============================================================================
