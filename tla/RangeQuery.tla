----------------------------- MODULE RangeQuery -----------------------------
(***************************************************************************)
(* ConfiguredClient::get_exchange_rates_range: one row per sample of a     *)
(* range, taken from the file of the sample's hour, from the row before,   *)
(* or from a lookup (RateLookup) of the rate just before the sample.       *)
(***************************************************************************)
EXTENDS RateLookup, SequencesExt

CONSTANTS Starts, Ends, Intervals   \* the ranges that are asked for

ASSUME RangeAssumption ==
    Starts \subseteq Nat /\ Ends \subseteq Nat /\ Intervals \subseteq Int

VARIABLES range,       \* where the query stands, or how it ended
          start, end,  \* its arguments
          interval,
          current,     \* the sample that is served next
          hourCache,   \* the hour whose ticks are held
          fallback,    \* hour_fallback_cache
          rows         \* the times of the rows gathered so far

rangeVars == <<range, start, end, interval, current, hourCache, fallback, rows>>
vars      == <<lookupVars, rangeVars>>

NoFallback == [hour |-> Nothing, first |-> Nothing, row |-> Nothing]

Init ==
    /\ LookupInit
    /\ range = "idle"
    /\ start = 0 /\ end = 0 /\ interval = 0 /\ current = 0
    /\ hourCache = Nothing
    /\ fallback = NoFallback
    /\ rows = <<>>

-----------------------------------------------------------------------------
(* find_tick_at_or_before_parsed on the ticks held; the row's time is      *)
(* reckoned from the sample's hour.                                        *)
InHour ==
    LET ticks == {o \in Ticks(hourCache) : o <= TargetOf(current)}
    IN  Latest({HourStart(current) + o : o \in ticks})

FirstHeld == IF Ticks(hourCache) = {} THEN Nothing ELSE Min(Ticks(hourCache))

(* The row before carries over, unless it lies ahead of the sample.        *)
CarriedOver ==
    IF rows # <<>> /\ Last(rows) <= current THEN Last(rows) ELSE Nothing

(* What the last fallback of the same hour found.                          *)
Remembered ==
    IF fallback.hour = HourOf(current) /\ fallback.first = FirstHeld
      THEN fallback.row ELSE Nothing

(* Mutant of Known: the row before is preferred to the ticks of the hour.  *)
KnownCarriedFirst ==
    IF CarriedOver # Nothing THEN CarriedOver
    ELSE IF InHour # Nothing THEN InHour ELSE Remembered

(* The row of the sample, as far as it is known without a lookup.          *)
Known ==
    IF InHour # Nothing THEN InHour
    ELSE IF CarriedOver # Nothing THEN CarriedOver ELSE Remembered

(* Mutant of Push: a row is pushed for every sample.                       *)
PushAlways(row) == rows' = IF row = Nothing THEN rows ELSE Append(rows, row)

(* A row is pushed unless it repeats the one before.                       *)
Push(row) ==
    rows' = IF row = Nothing \/ (rows # <<>> /\ Last(rows) = row)
              THEN rows ELSE Append(rows, row)

Advance ==
    /\ current' = current + interval
    /\ range' = "sample"

Query(s, e, i) ==
    /\ range = "idle" /\ status = "idle"
    /\ start' = s /\ end' = e /\ interval' = i /\ current' = s
    /\ range' = IF s >= e \/ i <= 0 THEN "invalid" ELSE "sample"
    /\ UNCHANGED <<lookupVars, hourCache, fallback, rows>>

(* In a closed market a sample is passed over.                             *)
SkipClosed ==
    /\ range = "sample"
    /\ current <= end
    /\ ~Wanted(current)
    /\ Advance
    /\ UNCHANGED <<lookupVars, start, end, interval, hourCache, fallback, rows>>

(* Mutant of HoldHour: an hour that is held is never replaced.             *)
HoldFirstHour ==
    /\ range = "sample"
    /\ current <= end
    /\ Wanted(current)
    /\ hourCache' = IF hourCache = Nothing THEN HourOf(current) ELSE hourCache
    /\ range' = "serve"
    /\ UNCHANGED <<lookupVars, start, end, interval, current, fallback, rows>>

(* The ticks of the sample's hour are held, after fetch_cached and         *)
(* get_or_parse_ticks if those of another hour were; an hour without a     *)
(* file is held as an hour without ticks.                                  *)
HoldHour ==
    /\ range = "sample"
    /\ current <= end
    /\ Wanted(current)
    /\ hourCache' = HourOf(current)
    /\ range' = "serve"
    /\ UNCHANGED <<lookupVars, start, end, interval, current, fallback, rows>>

HourFails ==
    /\ range = "sample"
    /\ current <= end
    /\ Wanted(current)
    /\ hourCache # HourOf(current)
    /\ range' = "error"
    /\ UNCHANGED <<lookupVars, start, end, interval, current, hourCache, fallback, rows>>

Serve ==
    /\ range = "serve"
    /\ Known # Nothing
    /\ Push(Known)
    /\ Advance
    /\ UNCHANGED <<lookupVars, start, end, interval, hourCache, fallback>>

(* Mutant of LookBack: a fallback that found nothing is not repeated.      *)
LookBackOnce ==
    /\ range = "serve"
    /\ Known = Nothing
    /\ IF fallback.hour = HourOf(current)
         THEN Advance /\ UNCHANGED lookupVars
         ELSE Ask(current - 1) /\ range' = "lookup" /\ UNCHANGED current
    /\ UNCHANGED <<start, end, interval, hourCache, fallback, rows>>

(* Mutant of LookBack: the lookup starts at the sample itself.             *)
LookBackAtSample ==
    /\ range = "serve"
    /\ Known = Nothing
    /\ Ask(current)
    /\ range' = "lookup"
    /\ UNCHANGED <<start, end, interval, current, hourCache, fallback, rows>>

(* The lookup starts one unit, a millisecond in the code, before the       *)
(* sample.                                                                 *)
LookBack ==
    /\ range = "serve"
    /\ Known = Nothing
    /\ Ask(current - 1)
    /\ range' = "lookup"
    /\ UNCHANGED <<start, end, interval, current, hourCache, fallback, rows>>

LookedBack ==
    /\ range = "lookup"
    /\ status \in {"ok", "notfound"}
    /\ LET row == IF status = "ok" THEN found ELSE Nothing
       IN  /\ fallback' = [hour |-> HourOf(current), first |-> FirstHeld, row |-> row]
           /\ Push(row)
    /\ Advance
    /\ status' = "idle"
    /\ UNCHANGED <<feed, request, query, attempts, found,
                   start, end, interval, hourCache>>

LookBackFails ==
    /\ range = "lookup"
    /\ status = "error"
    /\ range' = "error"
    /\ UNCHANGED <<lookupVars, start, end, interval, current, hourCache, fallback, rows>>

Finish ==
    /\ range = "sample"
    /\ current > end
    /\ range' = "done"
    /\ UNCHANGED <<lookupVars, start, end, interval, current, hourCache, fallback, rows>>

-----------------------------------------------------------------------------
RangeNext ==
    \/ \E s \in Starts, e \in Ends, i \in Intervals : Query(s, e, i)
    \/ SkipClosed \/ HoldHour \/ HourFails \/ Serve
    \/ LookBack \/ LookedBack \/ LookBackFails \/ Finish

(* get_exchange_rate is called by the range query, or on its own.          *)
Next ==
    \/ RangeNext
    \/ Search /\ UNCHANGED rangeVars
    \/ /\ range = "idle"
       /\ \E t \in Requests : Ask(t)
       /\ UNCHANGED rangeVars

Spec == Init /\ [][Next]_vars
-----------------------------------------------------------------------------
TypeOK ==
    /\ feed \in [Hours -> Files]
    /\ request \in Int /\ query \in Int
    /\ attempts \in 0..MaxBacktrack
    /\ status \in Statuses
    /\ found \in Nat
    /\ range \in {"idle", "invalid", "sample", "serve", "lookup", "done", "error"}
    /\ start \in Nat /\ end \in Nat /\ current \in Nat /\ interval \in Int
    /\ hourCache \in Nat \cup {Nothing}
    /\ fallback \in [hour : Nat \cup {Nothing}, first : Offsets \cup {Nothing},
                     row : Nat \cup {Nothing}]
    /\ rows \in Seq(Nat)

(* The samples that have been served.                                      *)
Samples == {t \in start..(current - 1) : (t - start) % interval = 0 /\ Wanted(t)}

(* Rows come out in strictly ascending order of time, none twice.          *)
RowsAscending == \A i, j \in DOMAIN rows : i < j => rows[i] < rows[j]

(* A sample whose own hour has a tick at or before it yields the last such *)
(* tick: the ticks held are never those of another hour, and no row that   *)
(* is not a repetition is suppressed.                                      *)
InHourSamplesServed ==
    \A t \in Samples : AtOrBefore(t) # {} => Max(AtOrBefore(t)) \in ToSet(rows)

(* The tick a lookup for t would answer with, if the feed answers.         *)
LookupFinds(t) ==
    LET from == Effective(t)
    IN  IF Ticks(HourOf(from)) = {} THEN Nothing ELSE Latest(Reachable(from))

(* Every row is the tick of some sample's hour, or the first row and the   *)
(* tick found by looking back from some sample: no row is made up from the *)
(* ticks of one hour and the start of another, nor looks ahead.            *)
RowsJustified ==
    \A i \in DOMAIN rows : \E t \in Samples :
        rows[i] = Latest(AtOrBefore(t)) \/ (i = 1 /\ rows[i] = LookupFinds(t - 1))

(* A query that ends without a row had none to give: a fallback that found *)
(* nothing for one sample does not silence a later sample of that hour.    *)
EmptyIsRight ==
    range = "done" /\ rows = <<>> =>
        \A t \in Samples : AtOrBefore(t) = {} /\ LookupFinds(t - 1) = Nothing

(* What the loop over samples, the hour held, the row before, the          *)
(* remembered fallback and the lookups amount to is the function that      *)
(* downloads are modelled with: a range that ends well yields just the     *)
(* rows of History, for any alignment of its samples and any weekend.      *)
TickTimes == UNION {{h * HourLen + o : o \in feed[h]} : h \in Hours}

RowsAreHistory ==
    range = "done" => ToSet(rows) = History(TickTimes, start, end, interval)
-----------------------------------------------------------------------------
(* The ticks at or before t within MaxBacktrack hours.                     *)
Past(t) == {u \in 0..t : /\ HourOf(u) >= HourOf(t) - MaxBacktrack
                         /\ u % HourLen \in Ticks(HourOf(u))}

(* CHANGELOG.md, 0.5.0: "Tick lookup now enforces strict at-or-before      *)
(* semantics ... with bounded backward fallback": every sample yields the  *)
(* last tick at or before it.                                              *)
SamplesAtOrBefore ==
    \A t \in Samples : Past(t) # {} => Max(Past(t)) \in ToSet(rows)
=============================================================================
