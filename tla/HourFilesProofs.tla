--------------------------- MODULE HourFilesProofs ---------------------------
(* Facts about HourFiles for the modules that use it: the last and the     *)
(* first of a set of numbers, hours and their times, and what a history    *)
(* holds and covers.                                                       *)
EXTENDS HourFiles, WellFoundedInduction, TLAPS

(* A set of natural numbers has a least element.                           *)
LEMMA LeastOf ==
    ASSUME NEW S, S \subseteq Nat, S # {}
    PROVE  \E x \in S : \A y \in S : x <= y
<1> DEFINE R == OpToRel(<, Nat)
<1>1. IsWellFoundedOn(R, Nat)
      BY NatLessThanWellFounded
<1>2. \A x, y \in Nat : x < y => <<x, y>> \in R
      BY DEF OpToRel
<1> HIDE DEF R
<1>3. PICK x \in S : \A y \in S : ~(<<y, x>> \in R)
      BY <1>1, WFMin
<1>4. \A y \in S : ~(y < x)
      BY <1>2, <1>3
<1> QED BY <1>3, <1>4

(* Min of a set of naturals is the least of them.                          *)
LEMMA MinOf ==
    ASSUME NEW S, S \subseteq Nat, S # {}
    PROVE  Min(S) \in S /\ \A y \in S : Min(S) <= y
BY LeastOf, Zenon DEF Min

(* A bounded one has a greatest.                                           *)
LEMMA MaxOf ==
    ASSUME NEW n \in Nat, NEW S, S \subseteq 0..n, S # {}
    PROVE  Max(S) \in S /\ \A y \in S : Max(S) >= y
<1> DEFINE T == {n - x : x \in S}
<1>1. \A x \in S : n - x \in Nat
      OBVIOUS
<1>2. T \subseteq Nat
      BY <1>1
<1>3. PICK w \in S : TRUE
      OBVIOUS
<1>4. n - w \in T
      BY <1>3
<1>5. PICK z \in T : \A y \in T : z <= y
      BY <1>2, <1>4, LeastOf
<1>6. PICK x \in S : z = n - x
      BY <1>5
<1>7. \A y \in S : x >= y
      BY <1>5, <1>6
<1> QED BY <1>6, <1>7, Zenon DEF Max

(* A set of integers with a bound has a greatest element.                  *)
LEMMA GreatestOf ==
    ASSUME NEW n \in Int, NEW S, S \subseteq Int, S # {}, \A y \in S : y <= n
    PROVE  Max(S) \in S /\ \A y \in S : Max(S) >= y
<1> DEFINE T == {n - x : x \in S}
           R == OpToRel(<, Nat)
<1>1. IsWellFoundedOn(R, Nat)
  BY NatLessThanWellFounded
<1>2. \A x, y \in Nat : x < y => <<x, y>> \in R
  BY DEF OpToRel
<1> HIDE DEF R
<1>3. \A x \in S : n - x \in Nat
  OBVIOUS
<1>4. T \subseteq Nat /\ T # {}
  BY <1>3
<1>5. PICK z \in T : \A y \in T : ~(<<y, z>> \in R)
  BY <1>1, <1>4, WFMin
<1>6. \A y \in T : ~(y < z)
  <2>1. z \in Nat /\ \A y \in T : y \in Nat
    BY <1>4
  <2> HIDE DEF T
  <2> QED
    BY <1>2, <1>5, <2>1
<1>7. PICK x \in S : z = n - x
  OBVIOUS
<1>8. \A y \in S : x >= y
  <2> SUFFICES ASSUME NEW y \in S PROVE x >= y
    OBVIOUS
  <2>1. n - y \in T
    OBVIOUS
  <2>2. ~(n - y < n - x)
    BY <1>6, <1>7, <2>1
  <2>3. x \in Int /\ y \in Int
    OBVIOUS
  <2> HIDE DEF T
  <2> QED
    BY <2>2, <2>3
<1> QED
  BY <1>7, <1>8, Zenon DEF Max

LEMMA GreatestIs ==
    ASSUME NEW S, S \subseteq Int, NEW x \in S, \A y \in S : y <= x PROVE Max(S) = x
<1>1. x \in Int
  OBVIOUS
<1>2. Max(S) \in S /\ \A y \in S : Max(S) >= y
  BY <1>1, GreatestOf
<1>3. Max(S) \in Int /\ Max(S) >= x /\ Max(S) <= x
  BY <1>2
<1> QED
  BY <1>1, <1>3

-----------------------------------------------------------------------------
(* Hours: an hour begins at or before its times, and the unit of time      *)
(* before it is in the hour before.                                        *)
LEMMA HourOfTime ==
    ASSUME NEW t \in Int
    PROVE  /\ HourOf(t) \in Int /\ HourStart(t) = HourOf(t) * HourLen /\ HourStart(t) \in Int
           /\ HourStart(t) <= t /\ t % HourLen = t - HourStart(t) /\ t % HourLen \in 0..(HourLen - 1)
           /\ TargetOf(t) \in Int /\ TargetOf(t) <= t % HourLen
<1>1. HourLen \in Nat \ {0} /\ SecondLen \in Nat \ {0}
  BY HourAssumption
<1>2. /\ t \div HourLen \in Int /\ t % HourLen \in 0..(HourLen - 1)
      /\ t = (t \div HourLen) * HourLen + (t % HourLen)
  BY <1>1
<1>3. t % SecondLen \in 0..(SecondLen - 1)
  BY <1>1
<1> QED
  BY <1>1, <1>2, <1>3 DEF HourOf, HourStart, TargetOf

LEMMA HourBefore ==
    ASSUME NEW h \in Int
    PROVE  h * HourLen - 1 \in Int /\ HourOf(h * HourLen - 1) = h - 1
<1>1. HourLen \in Nat \ {0}
  BY HourAssumption
<1>2. \A q \in Int : \A r \in 0..(HourLen - 1) : (q * HourLen + r) \div HourLen = q
  BY <1>1
<1>3. (h - 1) * HourLen + (HourLen - 1) = h * HourLen - 1
  BY <1>1
<1>4. ((h - 1) * HourLen + (HourLen - 1)) \div HourLen = h - 1
  BY <1>1, <1>2
<1> QED
  BY <1>1, <1>3, <1>4 DEF HourOf

LEMMA HoursInOrder ==
    ASSUME NEW h \in Int, NEW k \in Int, h <= k
    PROVE  h * HourLen \in Int /\ k * HourLen \in Int /\ h * HourLen <= k * HourLen
BY HourAssumption

(* The last available time is the time itself or lies before it, and there *)
(* is one: the hours before the first closed one are open.                 *)
LEMMA LastAvailableBefore ==
    ASSUME NEW t \in Int
    PROVE  /\ LastAvailable(t) \in Int /\ LastAvailable(t) <= t
           /\ t >= 1 => LastAvailable(t) >= 1
<1>1. CASE IsOpen(t)
  BY <1>1 DEF LastAvailable
<1>2. CASE ~IsOpen(t)
  <2> DEFINE open == {h \in 0..(HourOf(t) - 1) : h \notin Closed}
             last == Max(open) + 1
  <2>1. HourOf(t) \in Int /\ HourOf(t) * HourLen <= t
    BY HourOfTime
  <2>2. HourOf(t) \in Nat \ {0}
    BY <1>2, HourAssumption DEF IsOpen
  <2>3. 0 \in open /\ open \subseteq Int /\ \A h \in open : 0 <= h /\ h <= HourOf(t) - 1
    BY <2>2, HourAssumption
  <2>4. LastAvailable(t) = last * HourLen - SecondLen
    BY <1>2 DEF LastAvailable
  <2> HIDE DEF open
  <2>5. Max(open) \in open
    <3>1. HourOf(t) - 1 \in Int /\ open # {} /\ \A h \in open : h <= HourOf(t) - 1
      BY <2>2, <2>3
    <3> QED BY <2>3, <3>1, GreatestOf
  <2>6. last \in Int /\ 1 <= last /\ last <= HourOf(t)
    <3>1. Max(open) \in Int /\ 0 <= Max(open) /\ Max(open) <= HourOf(t) - 1
      BY <2>3, <2>5
    <3> QED BY <2>1, <3>1
  <2> HIDE DEF last
  <2>7. last * HourLen \in Int /\ 1 * HourLen <= last * HourLen /\ last * HourLen <= HourOf(t) * HourLen
    BY <2>1, <2>6, HoursInOrder
  <2>8. SecondLen \in Nat /\ HourLen \in Nat /\ SecondLen < HourLen /\ HourOf(t) * HourLen \in Int
    BY <2>1, HourAssumption
  <2> QED BY <2>1, <2>4, <2>7, <2>8
<1> QED BY <1>1, <1>2

(* A lookup starts at the time asked for, or before it.                    *)
LEMMA EffectiveBefore ==
    ASSUME NEW t \in Int PROVE Effective(t) \in Int /\ Effective(t) <= t
BY LastAvailableBefore DEF Effective

-----------------------------------------------------------------------------
(* What a time's own hour holds is at or before it, and so is the last;    *)
LEMMA HeldBefore ==
    ASSUME NEW ticks, ticks \subseteq Int, NEW t \in Int
    PROVE  /\ HeldBy(ticks, t) \subseteq ticks
           /\ \A u \in HeldBy(ticks, t) : u \in Int /\ u <= t
           /\ HeldBy(ticks, t) # {} =>
                  /\ Max(HeldBy(ticks, t)) \in HeldBy(ticks, t)
                  /\ \A u \in HeldBy(ticks, t) : Max(HeldBy(ticks, t)) >= u
<1>1. /\ HourStart(t) \in Int /\ t % HourLen = t - HourStart(t) /\ t % HourLen \in Int
      /\ TargetOf(t) \in Int /\ TargetOf(t) <= t % HourLen
  BY HourOfTime
<1>2. HeldBy(ticks, t) \subseteq ticks
  BY DEF HeldBy, InFile
<1>3. \A u \in HeldBy(ticks, t) : u \in Int /\ u <= t
  BY <1>1 DEF HeldBy, InFile
<1>4. HeldBy(ticks, t) \subseteq Int
  BY <1>3
<1> QED BY <1>2, <1>3, <1>4, GreatestOf

(* so is whatever a lookup finds.                                          *)
LEMMA FindsBefore ==
    ASSUME NEW ticks, ticks \subseteq Int, NEW t \in Int, Finds(ticks, t) # Nothing
    PROVE  Finds(ticks, t) \in ticks /\ Finds(ticks, t) <= t
<1> DEFINE from == Effective(t)
           reach == Reach(ticks, from)
<1>1. from \in Int /\ from <= t
  BY EffectiveBefore
<1>2. reach # {} /\ Finds(ticks, t) = Max(reach)
  BY DEF Finds, Latest
<1> HIDE DEF from
<1>3. HourOf(from) \in Int /\ HourOf(from) * HourLen <= from /\ MaxBacktrack \in Nat
  BY <1>1, HourOfTime, HourAssumption
<1>4. \A u \in reach : u \in ticks /\ u \in Int /\ u <= from
  <2> SUFFICES ASSUME NEW u \in reach PROVE u \in ticks /\ u \in Int /\ u <= from
    OBVIOUS
  <2>1. CASE u \in HeldBy(ticks, from)
    BY <1>1, <2>1, HeldBefore
  <2>2. CASE u \notin HeldBy(ticks, from)
    <3>1. PICK h \in (HourOf(from) - MaxBacktrack + 1)..HourOf(from) : u \in HeldBy(ticks, h * HourLen - 1)
      BY <2>2 DEF Reach
    <3>2. h \in Int /\ h <= HourOf(from)
      BY <1>3, <3>1
    <3>3. h * HourLen \in Int /\ HourOf(from) * HourLen \in Int /\ h * HourLen <= HourOf(from) * HourLen
      BY <1>3, <3>2, HoursInOrder
    <3>4. h * HourLen - 1 \in Int /\ h * HourLen - 1 <= from
      BY <1>1, <1>3, <3>3
    <3>5. u \in ticks /\ u \in Int /\ u <= h * HourLen - 1
      BY <3>1, <3>4, HeldBefore
    <3> QED BY <1>1, <3>4, <3>5
  <2> QED BY <2>1, <2>2
<1>5. Max(reach) \in reach
  <2>1. reach \subseteq Int /\ \A u \in reach : u <= from
    BY <1>4
  <2> HIDE DEF reach
  <2> QED BY <1>1, <1>2, <2>1, GreatestOf
<1> HIDE DEF reach
<1>6. Max(reach) \in ticks /\ Max(reach) \in Int /\ Max(reach) <= from
  BY <1>4, <1>5
<1> QED BY <1>1, <1>2, <1>6

(* The rows of a history are ticks, and each is at or before some point.   *)
LEMMA HistoryIsTicks ==
    ASSUME NEW ticks \in SUBSET Int, NEW first, NEW end, NEW interval
    PROVE  \A r \in History(ticks, first, end, interval) :
               r \in ticks /\ \E v \in Points(first, end, interval) : r <= v
<1> SUFFICES ASSUME NEW r \in History(ticks, first, end, interval)
             PROVE  r \in ticks /\ \E v \in Points(first, end, interval) : r <= v
  OBVIOUS
<1> DEFINE points == Points(first, end, interval)
<1>1. points \subseteq Int
  BY DEF Points
<1>2. \/ \E t \in points : HeldBy(ticks, t) # {} /\ r = Max(HeldBy(ticks, t))
      \/ \E t \in points : Finds(ticks, t - 1) # Nothing /\ r = Finds(ticks, t - 1)
  BY DEF History
<1>3. ASSUME NEW t \in points, HeldBy(ticks, t) # {}, r = Max(HeldBy(ticks, t))
      PROVE  r \in ticks /\ r <= t
  <2>1. t \in Int
    BY <1>1
  <2> QED BY <1>3, <2>1, HeldBefore
<1>4. ASSUME NEW t \in points, Finds(ticks, t - 1) # Nothing, r = Finds(ticks, t - 1)
      PROVE  r \in ticks /\ r <= t
  <2>1. t \in Int /\ t - 1 \in Int
    BY <1>1
  <2>2. r \in ticks /\ r <= t - 1 /\ r \in Int
    BY <1>4, <2>1, FindsBefore
  <2> QED BY <2>1, <2>2
<1> QED BY <1>2, <1>3, <1>4

(* It holds the row of every point that its own hour had a tick for.       *)
LEMMA HistoryHolds ==
    ASSUME NEW ticks, NEW first, NEW end, NEW interval,
           NEW v \in Points(first, end, interval), Wanted(v), HeldBy(ticks, v) # {}
    PROVE  Max(HeldBy(ticks, v)) \in History(ticks, first, end, interval)
BY DEF History

(* Up to the last of its points no interval is without one.                *)
LEMMA PointsInStep ==
    ASSUME NEW first \in Int, NEW end \in Int, NEW interval \in Nat \ {0},
           NEW w \in Points(first, end, interval), NEW u \in first..w
    PROVE  \E v \in Points(first, end, interval) : u <= v /\ v < u + interval
<1> DEFINE q == (u - first) \div interval
           r == (u - first) % interval
           k == (w - first) \div interval
           v == IF r = 0 THEN u ELSE u + (interval - r)
<1>1. u \in Int /\ w \in Int /\ first <= u /\ u <= w /\ w <= end /\ (w - first) % interval = 0
  BY DEF Points
<1>2. \A x \in Int : /\ x \div interval \in Int /\ x % interval \in 0..(interval - 1)
                     /\ x = (x \div interval) * interval + (x % interval)
  OBVIOUS
<1>3. \A x \in Int : (x * interval) % interval = 0
  OBVIOUS
<1>4. q \in Int /\ k \in Int /\ r \in 0..(interval - 1) /\ u - first = q * interval + r /\ w - first = k * interval
  BY <1>1, <1>2
<1>5. CASE r = 0
  BY <1>1, <1>5 DEF Points
<1>6. CASE r # 0
  <2> HIDE DEF q, k, r
  <2>1. q * interval \in Int /\ k * interval \in Int /\ (q + 1) * interval = q * interval + interval
    BY <1>4
  <2>2. q * interval < k * interval
    BY <1>1, <1>4, <1>6, <2>1
  <2>3. q + 1 <= k
    <3>1. k <= q => k * interval <= q * interval
      BY <1>4
    <3> QED BY <1>4, <2>1, <2>2, <3>1
  <2>4. (q + 1) * interval <= k * interval
    BY <1>4, <2>3
  <2>5. v - first = (q + 1) * interval /\ v \in Int
    BY <1>1, <1>4, <1>6, <2>1
  <2>6. (v - first) % interval = 0
    BY <1>3, <1>4, <2>5
  <2>7. u <= v /\ v < u + interval
    BY <1>1, <1>4, <1>6
  <2>8. v <= w
    BY <1>1, <1>4, <2>1, <2>4, <2>5
  <2> HIDE DEF v
  <2>9. v \in first..end
    BY <1>1, <2>5, <2>7, <2>8
  <2> QED BY <2>6, <2>7, <2>9 DEF Points
<1> QED BY <1>5, <1>6

(* What a history that has rows says of its range up to the last row.      *)
LEMMA HistoryCovers ==
    ASSUME NEW n \in Nat, NEW ticks, ticks \subseteq 1..n, NEW first \in Int, NEW end \in Int,
           NEW interval \in Nat \ {0}, History(ticks, first, end, interval) # {}
    PROVE  /\ History(ticks, first, end, interval) \subseteq 1..n
           /\ Max(History(ticks, first, end, interval)) \in History(ticks, first, end, interval)
           /\ \A u \in first..Max(History(ticks, first, end, interval)) :
                  \E v \in Points(first, end, interval) : u <= v /\ v < u + interval
<1> DEFINE rows == History(ticks, first, end, interval)
<1>1. rows \subseteq ticks /\ \A r \in rows : \E v \in Points(first, end, interval) : r <= v
  <2>1. ticks \in SUBSET Int
    OBVIOUS
  <2>2. \A r \in History(ticks, first, end, interval) :
            r \in ticks /\ \E v \in Points(first, end, interval) : r <= v
    BY <2>1, HistoryIsTicks
  <2> QED BY <2>2
<1>2. rows \subseteq 1..n
  BY <1>1
<1> HIDE DEF rows
<1>3. rows \subseteq 0..n /\ rows # {}
  BY <1>2 DEF rows
<1>4. Max(rows) \in rows
  BY <1>3, MaxOf
<1>5. ASSUME NEW u \in first..Max(rows)
      PROVE  \E v \in Points(first, end, interval) : u <= v /\ v < u + interval
  <2>1. PICK w \in Points(first, end, interval) : Max(rows) <= w
    BY <1>1, <1>4
  <2>2. w \in Int /\ w <= end /\ Max(rows) \in Int
    <3>1. w \in first..end
      BY DEF Points
    <3>2. Max(rows) \in 0..n
      BY <1>3, <1>4
    <3> QED BY <3>1, <3>2
  <2>3. u \in first..w
    BY <2>1, <2>2
  <2> QED BY <2>3, PointsInStep
<1> QED BY <1>2, <1>4, <1>5 DEF rows

-----------------------------------------------------------------------------
(* What samples cover stays covered when there are more rows.              *)
LEMMA CoveredGrows ==
    ASSUME NEW ticks, NEW points, NEW interval, NEW first, NEW last, NEW given, NEW more,
           Covered(ticks, points, interval, first, last, given), given \subseteq more
    PROVE  Covered(ticks, points, interval, first, last, more)
BY DEF Covered

(* Two stretches that meet are covered by the points of both.              *)
LEMMA CoveredJoins ==
    ASSUME NEW ticks, NEW points, NEW later, NEW interval, NEW given,
           NEW first \in Int, NEW middle \in Int, NEW begin \in Int, NEW last \in Int,
           begin <= middle,
           Covered(ticks, points, interval, first, middle, given),
           Covered(ticks, later, interval, begin, last, given)
    PROVE  Covered(ticks, points \cup later, interval, first, last, given)
<1>1. ASSUME NEW u \in first..last
      PROVE  \E v \in points \cup later : u <= v /\ v < u + interval
  <2>1. u \in first..middle \/ u \in begin..last
    OBVIOUS
  <2> QED BY <2>1 DEF Covered
<1>2. ASSUME NEW v \in points \cup later, Wanted(v), HeldBy(ticks, v) # {}
      PROVE  Max(HeldBy(ticks, v)) \in given
  BY <1>2 DEF Covered
<1> QED BY <1>1, <1>2 DEF Covered

(* Points that are added leave no gap where there was none.                *)
LEMMA CoveredWith ==
    ASSUME NEW ticks, NEW points, NEW more, NEW interval, NEW given,
           NEW first \in Int, NEW start \in Int, NEW last \in Int, first <= start,
           Covered(ticks, points, interval, first, last, given),
           NEW begin, NEW end, Covered(ticks, more, interval, begin, end, given)
    PROVE  Covered(ticks, points \cup more, interval, start, last, given)
<1>1. ASSUME NEW u \in start..last
      PROVE  \E v \in points \cup more : u <= v /\ v < u + interval
  <2>1. u \in first..last
    OBVIOUS
  <2> QED BY <2>1 DEF Covered
<1>2. ASSUME NEW v \in points \cup more, Wanted(v), HeldBy(ticks, v) # {}
      PROVE  Max(HeldBy(ticks, v)) \in given
  BY <1>2 DEF Covered
<1> QED BY <1>1, <1>2 DEF Covered

(* The rows of a range cover it up to the last of them.                    *)
LEMMA HistoryCoversRange ==
    ASSUME NEW n \in Nat, NEW ticks, ticks \subseteq 1..n, NEW first \in Int, NEW end \in Int,
           NEW interval \in Nat \ {0}, NEW rows, rows = History(ticks, first, end, interval),
           rows # {}, NEW given, rows \subseteq given
    PROVE  Covered(ticks, Points(first, end, interval), interval, first, Max(rows), given)
<1>1. \A u \in first..Max(rows) :
          \E v \in Points(first, end, interval) : u <= v /\ v < u + interval
  BY HistoryCovers
<1>2. \A v \in Points(first, end, interval) :
          Wanted(v) /\ HeldBy(ticks, v) # {} => Max(HeldBy(ticks, v)) \in rows
  BY HistoryHolds
<1> QED BY <1>1, <1>2 DEF Covered

(* The rows of a history are times of ticks.                               *)
LEMMA HistoryIsTimes ==
    ASSUME NEW n \in Nat, NEW ticks, ticks \subseteq 1..n, NEW first, NEW end, NEW interval
    PROVE  History(ticks, first, end, interval) \subseteq 1..n
<1>1. ticks \in SUBSET Int
  OBVIOUS
<1>2. \A r \in History(ticks, first, end, interval) : r \in ticks
  BY <1>1, HistoryIsTicks
<1> QED BY <1>2
=============================================================================
