---------------------------- MODULE TickHistory ----------------------------
(***************************************************************************)
(* The ranges an incremental download asks for, after a checkpoint and     *)
(* without one, and the bound on time.                                     *)
(***************************************************************************)
EXTENDS HourFiles

CONSTANTS MaxTime,  \* the last time there is; times count from 1
          Interval  \* DownloadItem's and the fetcher's interval

ASSUME HistoryAssumption == MaxTime \in Nat \ {0} /\ Interval \in Nat \ {0}

Times == 1..MaxTime

(* A range without checkpoint reaches a lookback before its end; one with  *)
(* a checkpoint begins two intervals, the retry buffer, before it.         *)
Never == 0
IncrementalStart(mark, end, lookback) ==
    IF mark = Never THEN end - lookback ELSE mark - 2 * Interval
=============================================================================
