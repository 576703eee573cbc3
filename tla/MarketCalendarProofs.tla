------------------------ MODULE MarketCalendarProofs ------------------------
(***************************************************************************)
(* The market calendar, proved for every number of seconds in an hour, for *)
(* every year and for every time of it.                                    *)
(***************************************************************************)
EXTENDS MarketCalendar, TLAPS

(* Days of the week are numbered from 0 to 6.                              *)
LEMMA WeekdayInRange ==
    ASSUME NEW y \in Years, NEW d \in Int
    PROVE  Weekday(y, d) \in 0..6
BY DEF Weekday, Years

(* The second Sunday of March and the first of November, by their dates.   *)
LEMMA NthSunday ==
    ASSUME NEW y \in Years
    PROVE  /\ NthWeekdayOfMonth(y, "March", Sun, 2) \in
                  (FirstOfMonth(y, "March") + 7)..(FirstOfMonth(y, "March") + 13)
           /\ NthWeekdayOfMonth(y, "November", Sun, 1) \in
                  FirstOfMonth(y, "November")..(FirstOfMonth(y, "November") + 6)
           /\ Weekday(y, NthWeekdayOfMonth(y, "March", Sun, 2)) = Sun
           /\ Weekday(y, NthWeekdayOfMonth(y, "November", Sun, 1)) = Sun
BY DEF NthWeekdayOfMonth, FirstOfMonth, Weekday, Years, Sun

(* Any seven days hold one Sunday.                                         *)
LEMMA OneSundayAWeek ==
    ASSUME NEW y \in Years, NEW b \in Int, NEW c \in b..(b + 6), NEW d \in b..(b + 6),
           Weekday(y, c) = Weekday(y, d)
    PROVE  c = d
BY DEF Weekday, Years

(* The calendar's daylight saving time is that of New York but for the     *)
(* first hours of the two Sundays on which it begins and ends.             *)
LEMMA DaylightIsDst ==
    ASSUME NEW y \in Years, NEW t \in Times, HourLen \in Nat \ {0},
           Weekday(y, t.day) = Sun => t.hour >= 7
    PROVE  Daylight(y, t) <=> IsUsDst(y, t.day)
<1> DEFINE s == NthWeekdayOfMonth(y, "March", Sun, 2)
           e == NthWeekdayOfMonth(y, "November", Sun, 1)
           march == FirstOfMonth(y, "March") + 7
           november == FirstOfMonth(y, "November")
<1>1. /\ march \in Int /\ november \in Int
      /\ s \in march..(march + 6) /\ e \in november..(november + 6)
      /\ Weekday(y, s) = Sun /\ Weekday(y, e) = Sun
  BY NthSunday DEF FirstOfMonth, Years
<1>2. \A u \in march..(march + 6) : Weekday(y, u) = Sun => u = s
  BY <1>1, OneSundayAWeek
<1>3. \A u \in november..(november + 6) : Weekday(y, u) = Sun => u = e
  BY <1>1, OneSundayAWeek
<1>4. Daylight(y, t) <=> At(s, 7, 0) \preceq t /\ t \prec At(e, 6, 0)
  <2>1. march + 6 = FirstOfMonth(y, "March") + 13
    BY <1>1 DEF FirstOfMonth, Years
  <2>2. Daylight(y, t) <=>
          \E u \in march..(march + 6), v \in november..(november + 6) :
             /\ Weekday(y, u) = Sun /\ At(u, 7, 0) \preceq t
             /\ Weekday(y, v) = Sun /\ t \prec At(v, 6, 0)
    BY <2>1, Zenon DEF Daylight
  <2> QED
    BY <1>1, <1>2, <1>3, <2>2, Zenon
<1>5. t.day \in Int /\ t.hour \in 0..23 /\ t.sec \in 0..(HourLen - 1)
  BY DEF Times
<1>6. At(s, 7, 0) \preceq t <=> t.day >= s
  <2>1. t.day = s => t.hour >= 7
    BY <1>1
  <2> HIDE DEF s
  <2> QED
    BY <1>1, <1>5, <2>1 DEF At, \prec, \preceq, Times
<1>7. t \prec At(e, 6, 0) <=> t.day < e
  <2>1. t.day = e => t.hour >= 7
    BY <1>1
  <2> HIDE DEF e
  <2> QED
    BY <1>1, <1>5, <2>1 DEF At, \prec
<1> QED
  BY <1>4, <1>6, <1>7 DEF IsUsDst

(* Deciding by the UTC date whether daylight saving time is in force gives *)
(* the hours of the market, in every year, at every time.                  *)
THEOREM OpenIffTrading ==
    ASSUME NEW y \in Years, NEW t \in Times, HourLen \in Nat \ {0}
    PROVE  IsMarketOpen(y, t) <=> Trading(y, t)
<1>1. t.day \in Int /\ t.hour \in 0..23
  BY DEF Times
<1>2. Weekday(y, t.day) \in 0..6
      /\ Weekday(y, t.day - 1) = (IF Weekday(y, t.day) = 0 THEN 6 ELSE Weekday(y, t.day) - 1)
  BY <1>1 DEF Weekday, Years
<1>3. CASE Weekday(y, t.day) = Sun => t.hour >= 7
  <2>1. Daylight(y, t) <=> IsUsDst(y, t.day)
    BY <1>3, DaylightIsDst
  <2> QED
    BY <1>1, <1>2, <2>1 DEF IsMarketOpen, Trading, CloseHour, Fri, Sat, Sun
<1>4. CASE Weekday(y, t.day) = Sun /\ t.hour < 7
  BY <1>1, <1>2, <1>4 DEF IsMarketOpen, Trading, CloseHour, Fri, Sat, Sun
<1> QED
  BY <1>1, <1>3, <1>4

-----------------------------------------------------------------------------
(* The times from the close on Friday f to the opening on the Sunday after.*)
InWeekend(y, f, t) ==
    \/ t.day = f /\ t.hour >= CloseHour(y, f)
    \/ t.day = f + 1
    \/ t.day = f + 2 /\ t.hour < CloseHour(y, f + 2)

(* What the code's answers are for a time on a weekend: the Friday before  *)
(* it and the Sunday after it, whatever the closing hour of each.          *)
LEMMA ClosedAround ==
    ASSUME NEW y \in Years, NEW t \in Times, HourLen \in Nat \ {0},
           ~IsMarketOpen(y, t)
    PROVE  \E f \in Int :
              /\ Weekday(y, f) = Fri /\ Weekday(y, f + 1) = Sat /\ Weekday(y, f + 2) = Sun
              /\ LastAvailable(y, t) = At(f, CloseHour(y, f) - 1, HourLen - 1)
              /\ NextMarketOpen(y, t) = At(f + 2, CloseHour(y, f + 2), 0)
              /\ InWeekend(y, f, t)
<1> DEFINE f == t.day - DaysToFriday(Weekday(y, t.day))
<1>1. t.day \in Int /\ t.hour \in 0..23
  BY DEF Times
<1>2. Weekday(y, t.day) \in {Fri, Sat, Sun}
  BY <1>1 DEF IsMarketOpen, Fri, Sat, Sun
<1>3. /\ f \in Int
      /\ Weekday(y, f) = Fri /\ Weekday(y, f + 1) = Sat /\ Weekday(y, f + 2) = Sun
      /\ t.day \in {f, f + 1, f + 2}
  BY <1>1, <1>2 DEF Weekday, Years, Fri, Sat, Sun, DaysToFriday
<1>4. LastAvailable(y, t) = At(f, CloseHour(y, f) - 1, HourLen - 1)
  BY Zenon DEF LastAvailable
<1>5. NextMarketOpen(y, t) = At(f + 2, CloseHour(y, f + 2), 0)
  <2>1. t.day + (IF Weekday(y, t.day) = Fri THEN 2 ELSE IF Weekday(y, t.day) = Sat THEN 1 ELSE 0)
            = f + 2
    BY <1>1, <1>2 DEF DaysToFriday, Fri, Sat, Sun
  <2> QED
    BY <2>1, Zenon DEF NextMarketOpen
<1>6. InWeekend(y, f, t)
  <2> HIDE DEF f
  <2> QED
    BY <1>1, <1>3 DEF IsMarketOpen, Fri, Sat, Sun, CloseHour, InWeekend
<1> QED
  BY <1>3, <1>4, <1>5, <1>6

(* The answers are times, a closing hour being one of the day.             *)
LEMMA AnswersAreTimes ==
    ASSUME NEW y \in Years, NEW t \in Times, HourLen \in Nat \ {0}
    PROVE  LastAvailable(y, t) \in Times /\ NextMarketOpen(y, t) \in Times
<1>1. CASE IsMarketOpen(y, t)
  BY <1>1 DEF LastAvailable, NextMarketOpen
<1>2. CASE ~IsMarketOpen(y, t)
  <2>1. PICK f \in Int : /\ LastAvailable(y, t) = At(f, CloseHour(y, f) - 1, HourLen - 1)
                         /\ NextMarketOpen(y, t) = At(f + 2, CloseHour(y, f + 2), 0)
    BY <1>2, ClosedAround
  <2> QED
    BY <2>1 DEF At, CloseHour, Times
<1> QED
  BY <1>1, <1>2

(* last_available_tick_time answers with an open second at or before t,    *)
(* and no open second lies between: get_exchange_rate and the updates that *)
(* end there miss no tick of a trading week.                               *)
THEOREM LastAvailableIsLast ==
    ASSUME NEW y \in Years, NEW t \in Times, HourLen \in Nat \ {0}
    PROVE  /\ LastAvailable(y, t) \preceq t
           /\ IsMarketOpen(y, LastAvailable(y, t))
           /\ \A u \in Times : u \preceq t /\ IsMarketOpen(y, u) => u \preceq LastAvailable(y, t)
<1>1. CASE IsMarketOpen(y, t)
  BY <1>1 DEF LastAvailable, \preceq
<1>2. CASE ~IsMarketOpen(y, t)
  <2>1. PICK f \in Int :
            /\ Weekday(y, f) = Fri /\ Weekday(y, f + 1) = Sat /\ Weekday(y, f + 2) = Sun
            /\ LastAvailable(y, t) = At(f, CloseHour(y, f) - 1, HourLen - 1)
            /\ InWeekend(y, f, t)
    BY <1>2, ClosedAround
  <2>2. CloseHour(y, f) \in {21, 22} /\ CloseHour(y, f + 2) \in {21, 22}
    BY DEF CloseHour
  <2>3. t.day \in Int /\ t.hour \in 0..23 /\ t.sec \in 0..(HourLen - 1)
    BY DEF Times
  <2>4. LastAvailable(y, t) \preceq t
    BY <2>1, <2>2, <2>3 DEF At, \prec, \preceq, InWeekend
  <2>5. IsMarketOpen(y, LastAvailable(y, t))
    BY <2>1, <2>2 DEF At, IsMarketOpen, Fri, Sat, Sun
  <2>6. ASSUME NEW u \in Times, u \preceq t, IsMarketOpen(y, u)
        PROVE  u \preceq LastAvailable(y, t)
    <3>1. /\ u.day \in Int /\ u.hour \in 0..23 /\ u.sec \in 0..(HourLen - 1)
          /\ u = At(u.day, u.hour, u.sec)
      BY DEF Times, At
    <3>2. u.day < f \/ u.day = f \/ u.day = f + 1 \/ u.day = f + 2
      BY <2>1, <2>3, <2>6, <3>1 DEF \prec, \preceq, InWeekend
    <3>3. u.day # f + 1
      BY <2>1, <2>6 DEF IsMarketOpen, Sat
    <3>4. u.day # f + 2
      BY <2>1, <2>2, <2>3, <2>6, <3>1 DEF IsMarketOpen, Sun, \prec, \preceq, InWeekend
    <3>5. u.day = f => u.hour <= CloseHour(y, f) - 1
      BY <2>1, <2>2, <2>6, <3>1 DEF IsMarketOpen, Fri
    <3> QED
      BY <2>1, <2>2, <3>1, <3>2, <3>3, <3>4, <3>5 DEF At, \prec, \preceq
  <2> QED
    BY <2>4, <2>5, <2>6
<1> QED
  BY <1>1, <1>2

-----------------------------------------------------------------------------
(* No time lies between a time and its successor.                          *)
LEMMA SuccessorIsNext ==
    ASSUME NEW t \in Times, HourLen \in Nat \ {0}
    PROVE  /\ Successor(t) \in Times /\ t \prec Successor(t)
           /\ Successor(t).day \in t.day..(t.day + 1)
           /\ \A u \in Times : u \prec Successor(t) => u \preceq t
<1>1. /\ t.day \in Int /\ t.hour \in 0..23 /\ t.sec \in 0..(HourLen - 1)
      /\ t = At(t.day, t.hour, t.sec)
  BY DEF Times, At
<1>2. Successor(t) \in Times /\ t \prec Successor(t)
  BY <1>1 DEF Successor, Midnight, At, Times, \prec
<1>3. Successor(t).day \in t.day..(t.day + 1)
  BY <1>1 DEF Successor, Midnight, At
<1>4. ASSUME NEW u \in Times, u \prec Successor(t)
      PROVE  u \preceq t
  <2>1. /\ u.day \in Int /\ u.hour \in 0..23 /\ u.sec \in 0..(HourLen - 1)
        /\ u = At(u.day, u.hour, u.sec)
    BY DEF Times, At
  <2> QED
    BY <1>1, <1>4, <2>1 DEF Successor, Midnight, At, \prec, \preceq
<1> QED
  BY <1>2, <1>3, <1>4

(* Of two times that differ one comes first.                               *)
LEMMA OrderIsTotal ==
    ASSUME NEW t \in Times, NEW u \in Times, t \preceq u, u \preceq t, HourLen \in Nat \ {0}
    PROVE  t = u
BY DEF Times, \prec, \preceq

(* One second later the last open second is that second, or the same.      *)
LEMMA LastAvailableStep ==
    ASSUME NEW y \in Years, NEW t \in Times, HourLen \in Nat \ {0}
    PROVE  LastAvailable(y, Successor(t)) =
               IF IsMarketOpen(y, Successor(t)) THEN Successor(t) ELSE LastAvailable(y, t)
<1> DEFINE n == Successor(t)
           a == LastAvailable(y, n)
           b == LastAvailable(y, t)
<1>1. n \in Times /\ t \prec n /\ \A u \in Times : u \prec n => u \preceq t
  BY SuccessorIsNext
<1>2. CASE IsMarketOpen(y, n)
  BY <1>2 DEF LastAvailable
<1>3. CASE ~IsMarketOpen(y, n)
  <2>1. a \in Times /\ b \in Times
    BY <1>1, AnswersAreTimes
  <2>2. /\ a \preceq n /\ IsMarketOpen(y, a)
        /\ \A u \in Times : u \preceq n /\ IsMarketOpen(y, u) => u \preceq a
    BY <1>1, LastAvailableIsLast
  <2>3. /\ b \preceq t /\ IsMarketOpen(y, b)
        /\ \A u \in Times : u \preceq t /\ IsMarketOpen(y, u) => u \preceq b
    BY LastAvailableIsLast
  <2>4. a \preceq t
    BY <1>1, <1>3, <2>1, <2>2 DEF \preceq
  <2>5. b \preceq n
    BY <1>1, <2>1, <2>3 DEF \prec, \preceq, Times
  <2> QED
    BY <1>3, <2>1, <2>2, <2>3, <2>4, <2>5, OrderIsTotal
<1> QED
  BY <1>2, <1>3

(* Within a weekend the time of reopening does not change, and the second  *)
(* after a closed one is open only if it is that time.                     *)
LEMMA NextMarketOpenStep ==
    ASSUME NEW y \in Years, NEW t \in Times, HourLen \in Nat \ {0},
           ~IsMarketOpen(y, t)
    PROVE  /\ IsMarketOpen(y, Successor(t)) <=> Successor(t) = NextMarketOpen(y, t)
           /\ ~IsMarketOpen(y, Successor(t)) =>
                  NextMarketOpen(y, Successor(t)) = NextMarketOpen(y, t)
<1> DEFINE n == Successor(t)
<1>1. PICK f \in Int :
          /\ Weekday(y, f) = Fri /\ Weekday(y, f + 1) = Sat /\ Weekday(y, f + 2) = Sun
          /\ NextMarketOpen(y, t) = At(f + 2, CloseHour(y, f + 2), 0)
          /\ InWeekend(y, f, t)
  BY ClosedAround
<1>2. CloseHour(y, f) \in {21, 22} /\ CloseHour(y, f + 2) \in {21, 22}
  BY DEF CloseHour
<1>3. /\ t.day \in Int /\ t.hour \in 0..23 /\ t.sec \in 0..(HourLen - 1)
      /\ t = At(t.day, t.hour, t.sec)
  BY DEF Times, At
<1>4. n \in Times /\ n.day \in Int /\ n.hour \in 0..23 /\ n.sec \in 0..(HourLen - 1)
  BY SuccessorIsNext DEF Times
<1>5. \/ n = At(f + 2, CloseHour(y, f + 2), 0)
      \/ InWeekend(y, f, n) /\ n # At(f + 2, CloseHour(y, f + 2), 0)
  <2> DEFINE r == At(f + 2, CloseHour(y, f + 2), 0)
  <2>1. \/ n = At(t.day, t.hour, t.sec + 1) /\ t.sec + 1 \in 1..(HourLen - 1)
        \/ n = At(t.day, t.hour + 1, 0) /\ t.hour < 23
        \/ n = At(t.day + 1, 0, 0) /\ t.hour = 23
    BY <1>3 DEF Successor, Midnight
  <2>2. \A d, h, s : /\ At(d, h, s).day = d /\ At(d, h, s).hour = h
                     /\ At(d, h, s).sec = s
    BY DEF At
  <2>3. r.day = f + 2 /\ r.hour = CloseHour(y, f + 2) /\ r.sec = 0
    BY <2>2 DEF At
  <2> HIDE DEF n, r
  <2>4. CASE n = At(t.day, t.hour, t.sec + 1) /\ t.sec + 1 \in 1..(HourLen - 1)
    <3>1. n.day = t.day /\ n.hour = t.hour /\ n.sec > 0
      BY <1>3, <2>2, <2>4
    <3>2. n # r
      BY <2>3, <3>1
    <3> QED
      BY <1>1, <3>1, <3>2 DEF r, InWeekend
  <2>5. CASE n = At(t.day, t.hour + 1, 0) /\ t.hour < 23
    <3>1. n.day = t.day /\ n.hour = t.hour + 1
      BY <2>2, <2>5
    <3>2. CASE t.day = f + 2 /\ t.hour + 1 = CloseHour(y, f + 2)
      BY <2>5, <3>2 DEF r, InWeekend
    <3>3. CASE ~(t.day = f + 2 /\ t.hour + 1 = CloseHour(y, f + 2))
      <4>1. n # r
        BY <2>3, <3>1, <3>3
      <4> QED
        BY <1>1, <1>2, <1>3, <3>1, <3>3, <4>1 DEF r, InWeekend
    <3> QED
      BY <3>2, <3>3
  <2>6. CASE n = At(t.day + 1, 0, 0) /\ t.hour = 23
    <3>1. n.day = t.day + 1 /\ n.hour = 0
      BY <2>2, <2>6
    <3>2. n # r
      BY <1>2, <2>3, <3>1
    <3> QED
      BY <1>1, <1>2, <1>3, <2>6, <3>1, <3>2 DEF r, InWeekend
  <2> QED
    BY <2>1, <2>4, <2>5, <2>6
<1>6. CASE n = At(f + 2, CloseHour(y, f + 2), 0)
  <2>1. IsMarketOpen(y, n)
    BY <1>1, <1>2, <1>6 DEF At, IsMarketOpen, Fri, Sat, Sun
  <2> QED
    BY <1>1, <1>6, <2>1
<1>7. CASE InWeekend(y, f, n) /\ n # At(f + 2, CloseHour(y, f + 2), 0)
  <2>1. ~IsMarketOpen(y, n)
    BY <1>1, <1>2, <1>4, <1>7 DEF IsMarketOpen, Fri, Sat, Sun, InWeekend
  <2>2. n.day + (IF Weekday(y, n.day) = Fri THEN 2 ELSE IF Weekday(y, n.day) = Sat THEN 1 ELSE 0)
            = f + 2
    BY <1>1, <1>4, <1>7 DEF Fri, Sat, Sun, InWeekend
  <2>3. NextMarketOpen(y, n) = At(f + 2, CloseHour(y, f + 2), 0)
    BY <2>1, <2>2, Zenon DEF NextMarketOpen
  <2> QED
    BY <1>1, <1>7, <2>1, <2>3
<1> QED
  BY <1>5, <1>6, <1>7

-----------------------------------------------------------------------------
(* The year after y, and a time told in the days of that year.             *)
Follows(z, y) == z \in Years /\ z.first = Weekday(y, YearLen(y))

Rebased(y, t) == [t EXCEPT !.day = @ - YearLen(y)]

(* Around the turn of a year both calendars say the same of every day.     *)
LEMMA TurnOfYear ==
    ASSUME NEW y \in Years, NEW z, Follows(z, y),
           NEW d \in (YearLen(y) - 20)..(YearLen(y) + 20)
    PROVE  /\ Weekday(z, d - YearLen(y)) = Weekday(y, d)
           /\ CloseHour(z, d - YearLen(y)) = CloseHour(y, d)
<1>1. z \in Years /\ YearLen(y) \in {365, 366} /\ d \in Int
  BY DEF Follows, YearLen
<1>2. Weekday(z, d - YearLen(y)) = Weekday(y, d)
  BY <1>1 DEF Follows, Weekday, Years
<1>3. ~IsUsDst(z, d - YearLen(y)) /\ ~IsUsDst(y, d)
  <2>1. /\ NthWeekdayOfMonth(z, "March", Sun, 2) > 20
        /\ NthWeekdayOfMonth(y, "November", Sun, 1) < YearLen(y) - 20
    BY <1>1, NthSunday DEF FirstOfMonth, Years, YearLen
  <2> QED
    BY <1>1, <2>1, NthSunday DEF IsUsDst, FirstOfMonth, Years
<1> QED
  BY <1>2, <1>3 DEF CloseHour

(* What the calendar answers is the same whichever year a time is counted  *)
(* in, if that is near the turn of the year.                               *)
LEMMA AnswersAtTurnOfYear ==
    ASSUME NEW y \in Years, NEW z, Follows(z, y), NEW t \in Times,
           t.day \in (YearLen(y) - 10)..(YearLen(y) + 10)
    PROVE  /\ IsMarketOpen(z, Rebased(y, t)) <=> IsMarketOpen(y, t)
           /\ LastAvailable(z, Rebased(y, t)) = Rebased(y, LastAvailable(y, t))
           /\ NextMarketOpen(z, Rebased(y, t)) = Rebased(y, NextMarketOpen(y, t))
<1> DEFINE l == YearLen(y)
           r == Rebased(y, t)
<1>1. /\ t = At(t.day, t.hour, t.sec) /\ l \in {365, 366} /\ t.day \in Int
      /\ r = At(t.day - l, t.hour, t.sec)
      /\ r.day = t.day - l /\ r.hour = t.hour
  BY DEF Times, At, YearLen, Rebased
<1>2. \A d \in (l - 20)..(l + 20) : /\ Weekday(z, d - l) = Weekday(y, d)
                                    /\ CloseHour(z, d - l) = CloseHour(y, d)
  BY TurnOfYear
<1>3. /\ Weekday(z, r.day) = Weekday(y, t.day)
      /\ CloseHour(z, r.day) = CloseHour(y, t.day)
  BY <1>1, <1>2
<1>4. IsMarketOpen(z, r) <=> IsMarketOpen(y, t)
  BY <1>1, <1>3, Zenon DEF IsMarketOpen
<1>5. \A d, h, s : Rebased(y, At(d, h, s)) = At(d - l, h, s)
  BY DEF Rebased, At
<1>6. LastAvailable(z, r) = Rebased(y, LastAvailable(y, t))
  <2>1. CASE IsMarketOpen(y, t)
    BY <1>4, <2>1 DEF LastAvailable
  <2>2. CASE ~IsMarketOpen(y, t)
    <3> DEFINE back == DaysToFriday(Weekday(y, t.day))
    <3>1. back \in 0..2
      BY DEF DaysToFriday
    <3>2. /\ CloseHour(z, r.day - back) = CloseHour(y, t.day - back)
          /\ r.day - back = (t.day - back) - l
      <4> HIDE DEF back
      <4>1. t.day - back \in (l - 20)..(l + 20) /\ r.day - back = (t.day - back) - l
        BY <1>1, <3>1
      <4> QED
        BY <1>2, <4>1
    <3>3. LastAvailable(y, t) = At(t.day - back, CloseHour(y, t.day - back) - 1, HourLen - 1)
      BY <2>2, Zenon DEF LastAvailable
    <3>4. LastAvailable(z, r) = At(r.day - back, CloseHour(z, r.day - back) - 1, HourLen - 1)
      BY <1>3, <1>4, <2>2, Zenon DEF LastAvailable
    <3> QED
      BY <1>5, <3>2, <3>3, <3>4
  <2> QED
    BY <2>1, <2>2
<1>7. NextMarketOpen(z, r) = Rebased(y, NextMarketOpen(y, t))
  <2>1. CASE IsMarketOpen(y, t)
    BY <1>4, <2>1 DEF NextMarketOpen
  <2>2. CASE ~IsMarketOpen(y, t)
    <3> DEFINE wait == IF Weekday(y, t.day) = Fri THEN 2
                       ELSE IF Weekday(y, t.day) = Sat THEN 1 ELSE 0
    <3>1. wait \in 0..2
      OBVIOUS
    <3>2. /\ CloseHour(z, r.day + wait) = CloseHour(y, t.day + wait)
          /\ r.day + wait = (t.day + wait) - l
      <4> HIDE DEF wait
      <4>1. t.day + wait \in (l - 20)..(l + 20) /\ r.day + wait = (t.day + wait) - l
        BY <1>1, <3>1
      <4> QED
        BY <1>2, <4>1
    <3>3. NextMarketOpen(y, t) = At(t.day + wait, CloseHour(y, t.day + wait), 0)
      BY <2>2, Zenon DEF NextMarketOpen
    <3>4. NextMarketOpen(z, r) = At(r.day + wait, CloseHour(z, r.day + wait), 0)
      BY <1>3, <1>4, <2>2, Zenon DEF NextMarketOpen
    <3> HIDE DEF wait
    <3> QED
      BY <1>5, <3>2, <3>3, <3>4
  <2> QED
    BY <2>1, <2>2
<1> QED
  BY <1>4, <1>6, <1>7

-----------------------------------------------------------------------------
(* The inductive invariant: what the caller was told and what the history  *)
(* says are what the code answers now.                                     *)
CalendarInv ==
    /\ year \in Years
    /\ now \in Times
    /\ now.day \in 0..(YearLen(year) - 1)
    /\ status = GetMarketStatus(year, now)
    /\ lastOpen = LastAvailable(year, now)

(* The invariant holds at the start.                                       *)
LEMMA CalendarInvInit == CalendarInit => CalendarInv
<1> SUFFICES ASSUME CalendarInit PROVE CalendarInv
  OBVIOUS
<1>1. Midnight(0) \in Times /\ Midnight(0).day = 0
  BY HourAssumption DEF Midnight, At, Times
<1> QED
  BY <1>1 DEF CalendarInit, CalendarInv, YearLen

(* A second that passes within a year keeps it.                            *)
LEMMA TickKeepsInv == CalendarInv /\ Tick => CalendarInv'
<1> SUFFICES ASSUME CalendarInv, Tick PROVE CalendarInv'
  OBVIOUS
<1>1. /\ year \in Years /\ now \in Times /\ year' = year /\ now' = Successor(now)
      /\ now.day \in 0..(YearLen(year) - 1) /\ now'.day < YearLen(year)
      /\ status' = GetMarketStatus(year, now')
      /\ lastOpen = LastAvailable(year, now)
      /\ lastOpen' = IF Trading(year, now') THEN now' ELSE lastOpen
  BY DEF CalendarInv, Tick
<1>2. now' \in Times /\ now'.day \in now.day..(now.day + 1)
  BY <1>1, SuccessorIsNext, HourAssumption
<1>3. now'.day \in 0..(YearLen(year) - 1)
  BY <1>1, <1>2 DEF YearLen
<1>4. lastOpen' = LastAvailable(year, now')
  BY <1>1, <1>2, LastAvailableStep, OpenIffTrading, HourAssumption
<1> QED
  BY <1>1, <1>2, <1>3, <1>4 DEF CalendarInv

(* The last second of a year is followed by the first of the next.         *)
LEMMA NewYearSetting ==
    ASSUME CalendarInv, NewYear
    PROVE  /\ year \in Years /\ now \in Times /\ Follows(year', year)
           /\ Successor(now) = Midnight(YearLen(year)) /\ Successor(now) \in Times
           /\ now' = Rebased(year, Successor(now)) /\ now' \in Times
           /\ now'.day = 0
<1>1. /\ year \in Years /\ now \in Times /\ now.day < YearLen(year)
      /\ YearLen(year) \in {365, 366}
      /\ Successor(now).day = YearLen(year) /\ now' = Midnight(0)
  BY DEF CalendarInv, NewYear, YearLen
<1>2. Follows(year', year)
  <2>1. Weekday(year, YearLen(year)) \in 0..6
    BY <1>1, WeekdayInRange
  <2>2. PICK leap \in BOOLEAN :
            year' = [first |-> Weekday(year, YearLen(year)), leap |-> leap]
    BY DEF NewYear
  <2> QED
    BY <2>1, <2>2 DEF Follows, Years
<1>3. Successor(now) = Midnight(YearLen(year))
  BY <1>1 DEF Successor, At, Midnight, Times
<1>4. /\ Midnight(YearLen(year)) \in Times /\ Midnight(0) \in Times
      /\ Rebased(year, Midnight(YearLen(year))) = Midnight(0) /\ Midnight(0).day = 0
  BY <1>1, HourAssumption DEF Midnight, At, Times, Rebased
<1> QED
  BY <1>1, <1>2, <1>3, <1>4

(* So does the last second of a year.                                      *)
LEMMA NewYearKeepsInv == CalendarInv /\ NewYear => CalendarInv'
<1> SUFFICES ASSUME CalendarInv, NewYear PROVE CalendarInv'
  OBVIOUS
<1> DEFINE n == Successor(now)
<1>1. /\ year \in Years /\ now \in Times /\ Follows(year', year) /\ year' \in Years
      /\ n = Midnight(YearLen(year)) /\ n \in Times
      /\ now' = Rebased(year, n) /\ now' \in Times
      /\ now'.day = 0
  BY NewYearSetting DEF Follows
<1>2. /\ status' = GetMarketStatus(year', now')
      /\ lastOpen = LastAvailable(year, now)
      /\ lastOpen' = IF Trading(year', now') THEN now' ELSE Rebased(year, lastOpen)
  BY DEF CalendarInv, NewYear, Rebased
<1>3. YearLen(year) \in {365, 366} /\ YearLen(year') \in {365, 366}
  BY DEF YearLen
<1>4. n.day \in (YearLen(year) - 10)..(YearLen(year) + 10)
  BY <1>1, <1>3 DEF Midnight, At
<1>5. /\ IsMarketOpen(year', now') <=> IsMarketOpen(year, n)
      /\ LastAvailable(year', now') = Rebased(year, LastAvailable(year, n))
  <2> HIDE DEF n
  <2> QED
    BY <1>1, <1>4, AnswersAtTurnOfYear
<1>6. Trading(year', now') <=> IsMarketOpen(year, n)
  BY <1>1, <1>5, OpenIffTrading, HourAssumption
<1>7. LastAvailable(year, n) = IF IsMarketOpen(year, n) THEN n ELSE lastOpen
  BY <1>1, <1>2, LastAvailableStep, HourAssumption
<1>8. lastOpen' = LastAvailable(year', now')
  BY <1>1, <1>2, <1>5, <1>6, <1>7
<1> QED
  BY <1>1, <1>2, <1>3, <1>8 DEF CalendarInv

(* Hence it holds throughout.                                              *)
LEMMA CalendarInvariant == CalendarSpec => []CalendarInv
<1>1. CalendarInv /\ [CalendarNext]_calendarVars => CalendarInv'
  <2> SUFFICES ASSUME CalendarInv, [CalendarNext]_calendarVars PROVE CalendarInv'
    OBVIOUS
  <2>1. CASE UNCHANGED calendarVars
    BY <2>1 DEF CalendarInv, calendarVars
  <2> QED
    BY <2>1, TickKeepsInv, NewYearKeepsInv DEF CalendarNext
<1> QED
  BY <1>1, CalendarInvInit, PTL DEF CalendarSpec

(* The clock, the history and the announcement keep their types.           *)
THEOREM CalendarTypes == CalendarSpec => []CalendarTypeOK
<1>1. CalendarInv => CalendarTypeOK
  <2> SUFFICES ASSUME CalendarInv PROVE CalendarTypeOK
    OBVIOUS
  <2>1. LastAvailable(year, now) \in Times /\ NextMarketOpen(year, now) \in Times
    BY AnswersAreTimes, HourAssumption DEF CalendarInv
  <2> QED
    BY <2>1 DEF CalendarInv, CalendarTypeOK, GetMarketStatus, Open, Weekend
<1> QED
  BY <1>1, CalendarInvariant, PTL

(* is_market_open agrees with the trading week of New York at every second *)
(* of every year.                                                          *)
THEOREM AlwaysOpenWhileTrading == CalendarSpec => []OpenWhileTrading
<1>1. CalendarInv => OpenWhileTrading
  BY OpenIffTrading, HourAssumption DEF CalendarInv, OpenWhileTrading
<1> QED
  BY <1>1, CalendarInvariant, PTL

(* last_available_tick_time is the last second of trading at every second  *)
(* of every year, across the end of the year too.                          *)
THEOREM AlwaysLastAvailable == CalendarSpec => []LastAvailableIsLatest
<1>1. CalendarInv => LastAvailableIsLatest
  BY DEF CalendarInv, LastAvailableIsLatest
<1> QED
  BY <1>1, CalendarInvariant, PTL

(* The announced reopening stands until the market opens at that second.   *)
THEOREM AlwaysReopensAsAnnounced == CalendarSpec => ReopensAsAnnounced
<1> DEFINE Kept == status.kind = "weekend" =>
                      LET days == IF year' = year THEN 0 ELSE YearLen(year)
                          at   == [status.reopensAt EXCEPT !.day = @ - days]
                      IN  status' = IF now' = at THEN Open ELSE Weekend(at)
<1>1. CalendarInv /\ [CalendarNext]_calendarVars => [Kept]_calendarVars
  <2> SUFFICES ASSUME CalendarInv, CalendarNext, status.kind = "weekend"
               PROVE  status' = LET days == IF year' = year THEN 0 ELSE YearLen(year)
                                    at   == [status.reopensAt EXCEPT !.day = @ - days]
                                IN  IF now' = at THEN Open ELSE Weekend(at)
    OBVIOUS
  <2> DEFINE n == Successor(now)
             r == NextMarketOpen(year, now)
  <2>1. /\ year \in Years /\ now \in Times /\ YearLen(year) \in {365, 366}
        /\ now.day \in 0..(YearLen(year) - 1)
    BY DEF CalendarInv, YearLen
  <2>2. ~IsMarketOpen(year, now) /\ status.reopensAt = r
    BY DEF CalendarInv, GetMarketStatus, Open, Weekend
  <2>3. /\ IsMarketOpen(year, n) <=> n = r
        /\ ~IsMarketOpen(year, n) => NextMarketOpen(year, n) = r
    BY <2>1, <2>2, NextMarketOpenStep, HourAssumption
  <2>4. r \in Times /\ n \in Times
    BY <2>1, AnswersAreTimes, SuccessorIsNext, HourAssumption
  <2>5. CASE Tick
    <3>1. year' = year /\ now' = n /\ status' = GetMarketStatus(year, n)
      BY <2>5 DEF Tick
    <3>2. [r EXCEPT !.day = @ - 0] = r
      BY <2>4 DEF Times
    <3>3. status' = IF n = r THEN Open ELSE Weekend(r)
      BY <2>3, <3>1 DEF GetMarketStatus
    <3> QED
      BY <2>2, <3>1, <3>2, <3>3
  <2>6. CASE NewYear
    <3>1. /\ Follows(year', year) /\ n = Midnight(YearLen(year)) /\ now' = Rebased(year, n)
      BY <2>6, NewYearSetting
    <3>2. n.day \in (YearLen(year) - 10)..(YearLen(year) + 10)
      BY <2>1, <3>1 DEF Midnight, At
    <3>3. /\ IsMarketOpen(year', now') <=> IsMarketOpen(year, n)
          /\ NextMarketOpen(year', now') = Rebased(year, NextMarketOpen(year, n))
      <4> HIDE DEF n
      <4> QED
        BY <2>1, <2>4, <3>1, <3>2, AnswersAtTurnOfYear
    <3>4. status' = GetMarketStatus(year', now')
      BY <2>6 DEF NewYear
    <3>5. \A t, u \in Times : Rebased(year, t) = Rebased(year, u) => t = u
      <4> SUFFICES ASSUME NEW t \in Times, NEW u \in Times,
                          Rebased(year, t) = Rebased(year, u)
                   PROVE  t = u
        OBVIOUS
      <4>1. t.day - YearLen(year) = u.day - YearLen(year) /\ t.hour = u.hour /\ t.sec = u.sec
        BY DEF Rebased, Times
      <4>2. t.day = u.day
        BY <2>1, <4>1 DEF Times
      <4> QED
        BY <4>1, <4>2 DEF Times
    <3>6. status' = IF now' = Rebased(year, r) THEN Open ELSE Weekend(Rebased(year, r))
      BY <2>3, <2>4, <3>1, <3>3, <3>4, <3>5 DEF GetMarketStatus
    <3>7. CASE year' # year
      BY <2>2, <3>6, <3>7 DEF Rebased
    <3>8. CASE year' = year
      <4>1. (year.first + YearLen(year)) % 7 = year.first
        BY <3>1, <3>8 DEF Follows, Weekday
      <4> QED
        BY <2>1, <4>1 DEF Years
    <3> QED
      BY <3>7, <3>8
  <2> QED
    BY <2>5, <2>6 DEF CalendarNext
<1> QED
  BY <1>1, CalendarInvariant, PTL DEF CalendarSpec, ReopensAsAnnounced
=============================================================================
