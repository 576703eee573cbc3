--------------------------- MODULE MarketCalendar ---------------------------
(***************************************************************************)
(* market.rs: when the market is open, when it opens next and when it was  *)
(* open last.  The code decides by the UTC date and hour, with a closing   *)
(* hour that depends on whether the date is in US daylight saving time.    *)
(* Days count from the first of January of a year, days of other years     *)
(* being negative or beyond its end; the weekday counts from Monday, 0.    *)
(***************************************************************************)
EXTENDS Integers

CONSTANT HourLen  \* seconds in an hour

ASSUME HourAssumption == HourLen \in Nat \ {0}

VARIABLES year,      \* the year: the weekday it begins on, whether it is a leap year
          now,       \* the time, in UTC
          status,    \* what get_market_status last said
          lastOpen   \* history: the last second at which the market traded

calendarVars == <<year, now, status, lastOpen>>

Years == [first: 0..6, leap: BOOLEAN]
Times == [day: Int, hour: 0..23, sec: 0..(HourLen - 1)]

Fri == 4
Sat == 5
Sun == 6

YearLen(y)    == IF y.leap THEN 366 ELSE 365
Weekday(y, d) == (y.first + d) % 7
At(d, h, s)   == [day |-> d, hour |-> h, sec |-> s]

t1 \prec t2 ==
    \/ t1.day < t2.day
    \/ t1.day = t2.day /\ t1.hour < t2.hour
    \/ t1.day = t2.day /\ t1.hour = t2.hour /\ t1.sec < t2.sec

t1 \preceq t2 == t1 = t2 \/ t1 \prec t2

-----------------------------------------------------------------------------
(* The day a month begins on; the code asks for two of them.               *)
FirstOfMonth(y, month) ==
    (IF month = "March" THEN 59 ELSE 304) + (IF y.leap THEN 1 ELSE 0)

NthWeekdayOfMonth(y, month, weekday, nth) ==
    LET first  == FirstOfMonth(y, month)
        offset == weekday - Weekday(y, first)
    IN  first + (IF offset < 0 THEN offset + 7 ELSE offset) + 7 * (nth - 1)

(* Mutant of IsUsDst: the first day of daylight saving time is not in it.  *)
IsUsDstDayAfter(y, d) ==
    /\ d > NthWeekdayOfMonth(y, "March", Sun, 2)
    /\ d < NthWeekdayOfMonth(y, "November", Sun, 1)

IsUsDst(y, d) ==
    /\ d >= NthWeekdayOfMonth(y, "March", Sun, 2)
    /\ d < NthWeekdayOfMonth(y, "November", Sun, 1)

CloseHour(y, d) == IF IsUsDst(y, d) THEN 21 ELSE 22

IsMarketOpen(y, t) ==
    LET w == Weekday(y, t.day)
    IN  /\ w # Sat
        /\ w = Sun => t.hour >= CloseHour(y, t.day)
        /\ w = Fri => t.hour < CloseHour(y, t.day)

(* Mutant of NextMarketOpen: the opening hour of the day asked on.         *)
NextMarketOpenSameHour(y, t) ==
    LET w    == Weekday(y, t.day)
        wait == IF w = Fri THEN 2 ELSE IF w = Sat THEN 1 ELSE 0
    IN  IF IsMarketOpen(y, t) THEN t
        ELSE At(t.day + wait, CloseHour(y, t.day), 0)

NextMarketOpen(y, t) ==
    LET w    == Weekday(y, t.day)
        wait == IF w = Fri THEN 2 ELSE IF w = Sat THEN 1 ELSE 0
    IN  IF IsMarketOpen(y, t) THEN t
        ELSE At(t.day + wait, CloseHour(y, t.day + wait), 0)

Open         == [kind |-> "open"]
Weekend(at)  == [kind |-> "weekend", reopensAt |-> at]

GetMarketStatus(y, t) ==
    IF IsMarketOpen(y, t) THEN Open ELSE Weekend(NextMarketOpen(y, t))

DaysToFriday(w) == IF w = Sat THEN 1 ELSE IF w = Sun THEN 2 ELSE 0

(* Mutant of LastAvailable: the closing hour of the day asked on.          *)
LastAvailableSameHour(y, t) ==
    LET friday == t.day - DaysToFriday(Weekday(y, t.day))
    IN  IF IsMarketOpen(y, t) THEN t
        ELSE At(friday, CloseHour(y, t.day) - 1, HourLen - 1)

(* last_available_tick_time                                                *)
LastAvailable(y, t) ==
    LET friday == t.day - DaysToFriday(Weekday(y, t.day))
    IN  IF IsMarketOpen(y, t) THEN t
        ELSE At(friday, CloseHour(y, friday) - 1, HourLen - 1)
-----------------------------------------------------------------------------
(* What the code's table of UTC hours stands for: the week of trading runs *)
(* from Sunday to Friday, 17:00 in New York.  The clocks there change at   *)
(* 2:00 local time, which is 7:00 UTC in March and 6:00 UTC in November.   *)
Daylight(y, t) ==
    \E s \in (FirstOfMonth(y, "March") + 7)..(FirstOfMonth(y, "March") + 13),
       e \in FirstOfMonth(y, "November")..(FirstOfMonth(y, "November") + 6) :
          /\ Weekday(y, s) = Sun /\ At(s, 7, 0) \preceq t
          /\ Weekday(y, e) = Sun /\ t \prec At(e, 6, 0)

Trading(y, t) ==
    LET behind == IF Daylight(y, t) THEN 4 ELSE 5
        early  == t.hour < behind
        w      == Weekday(y, IF early THEN t.day - 1 ELSE t.day)
        hour   == IF early THEN t.hour + 24 - behind ELSE t.hour - behind
    IN  /\ w # Sat
        /\ w = Sun => hour >= 17
        /\ w = Fri => hour < 17

(* The clock, and a caller that asks for the status every second.          *)
Midnight(d) == At(d, 0, 0)

Successor(t) ==
    IF t.sec + 1 < HourLen THEN At(t.day, t.hour, t.sec + 1)
    ELSE IF t.hour < 23 THEN At(t.day, t.hour + 1, 0)
    ELSE Midnight(t.day + 1)

CalendarInit ==
    /\ year \in Years
    /\ now = Midnight(0)
    /\ status = GetMarketStatus(year, now)
    /\ lastOpen = LastAvailable(year, now)

Tick ==
    /\ Successor(now).day < YearLen(year)
    /\ now' = Successor(now)
    /\ status' = GetMarketStatus(year, now')
    /\ lastOpen' = IF Trading(year, now') THEN now' ELSE lastOpen
    /\ UNCHANGED year

(* A new year: the days are counted from its beginning.                    *)
NewYear ==
    /\ Successor(now).day = YearLen(year)
    /\ \E leap \in BOOLEAN :
           year' = [first |-> Weekday(year, YearLen(year)), leap |-> leap]
    /\ now' = Midnight(0)
    /\ status' = GetMarketStatus(year', now')
    /\ lastOpen' = IF Trading(year', now') THEN now'
                   ELSE [lastOpen EXCEPT !.day = @ - YearLen(year)]

CalendarNext == Tick \/ NewYear

CalendarSpec == CalendarInit /\ [][CalendarNext]_calendarVars
-----------------------------------------------------------------------------
CalendarTypeOK ==
    /\ year \in Years
    /\ now \in Times
    /\ lastOpen \in Times
    /\ status \in {Open} \cup [kind : {"weekend"}, reopensAt : Times]

(* is_market_open agrees with the market: deciding by the UTC date when US *)
(* daylight saving time begins and ends makes no difference.               *)
OpenWhileTrading == IsMarketOpen(year, now) <=> Trading(year, now)

(* last_available_tick_time is the last second at which the market traded, *)
(* over the weekends on which the closing hour changes as well.            *)
LastAvailableIsLatest == LastAvailable(year, now) = lastOpen

(* A caller that was told when the market reopens is told the same until   *)
(* then, and the market opens at that very second.                         *)
ReopensAsAnnounced ==
    [][status.kind = "weekend" =>
          LET days == IF year' = year THEN 0 ELSE YearLen(year)
              at   == [status.reopensAt EXCEPT !.day = @ - days]
          IN  status' = IF now' = at THEN Open ELSE Weekend(at)]_calendarVars
=============================================================================
