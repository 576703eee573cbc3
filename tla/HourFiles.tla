------------------------------ MODULE HourFiles ------------------------------
(***************************************************************************)
(* The hourly tick files, the hours of the market, and what the client     *)
(* reads from them, as functions of the times of the ticks: the tick one   *)
(* lookup finds and the rows one range query yields.  Time is counted in   *)
(* units finer than an hour: an hour is HourLen units, a second SecondLen, *)
(* as 3600000 and 1000 milliseconds are in the code.                       *)
(***************************************************************************)
EXTENDS Integers, FiniteSetsExt

CONSTANTS HourLen,             \* units of time in an hour
          SecondLen,           \* units of time in a second
          Closed,              \* the hours in which the market is closed
          RespectMarketHours,  \* ClientConfig::respect_market_hours
          MaxBacktrack         \* ClientConfig::max_at_or_before_backtrack_hours

(* Whole seconds make up an hour; time does not begin on a weekend.        *)
ASSUME HourAssumption ==
    /\ SecondLen \in Nat \ {0}
    /\ HourLen \in Nat \ {0}
    /\ HourLen % SecondLen = 0 /\ SecondLen < HourLen
    /\ Closed \subseteq Nat \ {0}
    /\ RespectMarketHours \in BOOLEAN
    /\ MaxBacktrack \in Nat

Nothing == -1  \* no tick, no hour, no row

Latest(times) == IF times = {} THEN Nothing ELSE Max(times)

HourOf(t)    == t \div HourLen
HourStart(t) == HourOf(t) * HourLen

(* timestamp_to_ms_from_hour counts minutes and whole seconds.             *)
TargetOf(t) == (t % HourLen) - (t % SecondLen)

IsOpen(t) == HourOf(t) \notin Closed

(* last_available_tick_time: in a closed market the last second of the     *)
(* last open hour.                                                         *)
LastAvailable(t) ==
    IF IsOpen(t) THEN t
    ELSE (Max({h \in 0..(HourOf(t) - 1) : h \notin Closed}) + 1) * HourLen - SecondLen

(* Where a lookup for t starts, and whether a range query serves a sample. *)
Effective(t) == IF RespectMarketHours THEN LastAvailable(t) ELSE t
Wanted(t)    == RespectMarketHours => IsOpen(t)

-----------------------------------------------------------------------------
(* The ticks in the file of t's hour; those of them at or before t, to the *)
(* second; those a search from t may answer with.                          *)
InFile(ticks, t) == {u \in ticks : HourOf(u) = HourOf(t)}

HeldBy(ticks, t) == {u \in InFile(ticks, t) : u <= HourStart(t) + TargetOf(t)}

Reach(ticks, t) ==
    HeldBy(ticks, t) \cup
        UNION {HeldBy(ticks, h * HourLen - 1) :
                   h \in (HourOf(t) - MaxBacktrack + 1)..HourOf(t)}

(* get_exchange_rate for t: an hour without a file is no place to start.   *)
Finds(ticks, t) ==
    LET from == Effective(t)
    IN  IF InFile(ticks, from) = {} THEN Nothing ELSE Latest(Reach(ticks, from))

(* The points at which a range is sampled.                                 *)
Points(first, end, interval) == {t \in first..end : (t - first) % interval = 0}

(* get_exchange_rates_range: a sample yields the last tick of its own hour *)
(* at or before it.  If there is none it repeats the row before, which     *)
(* adds no row, and only a sample that has no row before it looks back to  *)
(* earlier hours: a tick that no sample's own hour shows is passed over.   *)
History(ticks, first, end, interval) ==
    LET points   == {t \in Points(first, end, interval) : Wanted(t)}
        held     == {t \in points : HeldBy(ticks, t) # {}}
        lookedUp == {t \in points \ held : /\ Finds(ticks, t - 1) # Nothing
                                          /\ \A v \in held : t < v}
    IN  {Max(HeldBy(ticks, t)) : t \in held} \cup
            {Finds(ticks, t - 1) : t \in {v \in lookedUp : \A w \in lookedUp : v <= w}}

-----------------------------------------------------------------------------
(* For the properties: what samples at some points have made of the time   *)
(* from first to last.  No interval was left out, and every sample that    *)
(* its own hour had a tick for has given that tick.                        *)
Covered(ticks, points, interval, first, last, given) ==
    /\ \A u \in first..last : \E v \in points : u <= v /\ v < u + interval
    /\ \A v \in points :
           Wanted(v) /\ HeldBy(ticks, v) # {} => Max(HeldBy(ticks, v)) \in given
=============================================================================
