-------------------------- MODULE MCBatchDownload --------------------------
(* BatchDownload for TLC: two calls that may overlap, a list of two        *)
(* tickers, hours of two units with the second of them on a weekend, and   *)
(* rows at intervals of an hour.                                           *)
EXTENDS BatchDownload

TwoCalls   == {"A", "B"}
TwoTickers == 1..2
TheList    == <<1, 2>>
TheTicks   == <<{1, 3, 4, 5}, {1}>>
TheMoments == {1, 3, 5}
TheSpans   == [b \in TwoCalls |-> IF b = "A" THEN {2} ELSE {}]
TheLimits  == [b \in TwoCalls |-> IF b = "A" THEN {0, 2} ELSE {1}]
=============================================================================
