---------------------------- MODULE MCFetcherRun ----------------------------
(* FetcherRun for TLC: two symbols, four hours of two units with a weekend *)
(* of one hour, rows at intervals of an hour; a symbol that is quoted on   *)
(* the weekend and one that is not.                                        *)
EXTENDS FetcherRun

TwoSymbols  == 1..2
TwoFeeds    == {<<{1, 2, 7}, {1, 2, 3, 5, 6}>>}
FourMoments == {1, 3, 5, 7}
(* A file of an earlier release has the first row of each symbol.          *)
FirstRows == {<<1, 1>>, <<2, 1>>}
NoRows == {}
BothFormats == {"csv", "parquet"}
=============================================================================
