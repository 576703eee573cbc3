----------------------------- MODULE RateLookup -----------------------------
(***************************************************************************)
(* ConfiguredClient::get_exchange_rate: the rate at or before a timestamp, *)
(* searched backwards through the hourly files of the feed.  What          *)
(* fetch_cached answers for an hour is the feed's file, or an error.       *)
(***************************************************************************)
EXTENDS HourFiles

CONSTANTS Hours,    \* the hours for which the feed may have a file
          Files,    \* the files it may have: offsets of ticks
          Requests  \* the timestamps that are asked for

ASSUME LookupAssumption ==
    /\ Hours \subseteq Nat
    /\ Files \subseteq SUBSET (0..(HourLen - 1))
    /\ Requests \subseteq Nat

VARIABLES feed,      \* the file of each hour; a file without ticks is no file
          request,   \* the timestamp asked for
          query,     \* query_timestamp
          attempts,  \* fallback_attempts
          status,    \* where the lookup stands, or how it ended
          found      \* the time of the tick it answered with

lookupVars == <<feed, request, query, attempts, status, found>>

Offsets  == 0..(HourLen - 1)
Statuses == {"idle", "search", "ok", "notfound", "error"}

Ticks(hour) == IF hour \in Hours THEN feed[hour] ELSE {}

(* The ticks of t's hour at or before t, to the second; both               *)
(* find_tick_at_or_before and its twin on parsed ticks take the last one.  *)
AtOrBefore(t) == {HourStart(t) + o : o \in {p \in Ticks(HourOf(t)) : p <= TargetOf(t)}}

LookupInit ==
    /\ feed \in [Hours -> Files]
    /\ request = 0
    /\ query = 0
    /\ attempts = 0
    /\ status = "idle"
    /\ found = 0

-----------------------------------------------------------------------------
Ask(t) ==
    /\ status = "idle"
    /\ request' = t
    /\ query' = Effective(t)
    /\ attempts' = 0
    /\ status' = "search"
    /\ UNCHANGED <<feed, found>>

End(how) ==
    /\ status = "search"
    /\ status' = how
    /\ UNCHANGED <<feed, request, query, attempts>>

Answer ==
    /\ AtOrBefore(query) # {}
    /\ found' = Max(AtOrBefore(query))
    /\ End("ok")

(* The hour has no tick early enough, or no file at all; a missing file    *)
(* is passed over only once the search has left the hour it began in.      *)
MayStepBack == attempts > 0 \/ Ticks(HourOf(query)) # {}

(* Mutants of StepBack: the search resumes at the same minute and second   *)
(* of the hour before; the search has no bound.                            *)
StepBackAnHour ==
    /\ status = "search"
    /\ AtOrBefore(query) = {}
    /\ MayStepBack
    /\ attempts < MaxBacktrack
    /\ query' = query - HourLen
    /\ attempts' = attempts + 1
    /\ UNCHANGED <<feed, request, status, found>>

StepBackForever ==
    /\ status = "search"
    /\ AtOrBefore(query) = {}
    /\ MayStepBack
    /\ query' = HourStart(query) - 1
    /\ attempts' = attempts + 1
    /\ UNCHANGED <<feed, request, status, found>>

StepBack ==
    /\ status = "search"
    /\ AtOrBefore(query) = {}
    /\ MayStepBack
    /\ attempts < MaxBacktrack
    /\ query' = HourStart(query) - 1
    /\ attempts' = attempts + 1
    /\ UNCHANGED <<feed, request, status, found>>

(* Mutant of GiveUp: the bound is met one hour early.                      *)
GiveUpEarly ==
    /\ AtOrBefore(query) = {}
    /\ ~MayStepBack \/ attempts + 1 >= MaxBacktrack
    /\ End("notfound")
    /\ UNCHANGED found

GiveUp ==
    /\ AtOrBefore(query) = {}
    /\ ~MayStepBack \/ attempts >= MaxBacktrack
    /\ End("notfound")
    /\ UNCHANGED found

(* fetch_cached, or the parser, reports any other error.                   *)
FetchFails ==
    /\ End("error")
    /\ UNCHANGED found

Search == Answer \/ StepBack \/ GiveUp \/ FetchFails

LookupNext == Search \/ \E t \in Requests : Ask(t)

LookupSpec == LookupInit /\ [][LookupNext]_lookupVars
-----------------------------------------------------------------------------
(* The ticks a search from t may answer with: those of t's hour at or      *)
(* before t, to the second, and those of the MaxBacktrack hours before it, *)
(* but for the ticks after the last whole second of an hour.               *)
Reachable(t) ==
    AtOrBefore(t) \cup
        UNION {AtOrBefore(h * HourLen - 1) :
                   h \in (HourOf(t) - MaxBacktrack + 1)..HourOf(t)}

(* get_exchange_rate never looks ahead, and never answers with a tick when *)
(* a later one is within its reach.                                        *)
AnswerIsLatest ==
    status = "ok" => /\ found <= request
                     /\ found = Max(Reachable(Effective(request)))

(* It reports missing data only if the hour asked for has no file, or      *)
(* nothing is within its reach.                                            *)
NotFoundIsRight ==
    status = "notfound" =>
        LET t == Effective(request)
        IN  Ticks(HourOf(t)) = {} \/ Reachable(t) = {}
=============================================================================
