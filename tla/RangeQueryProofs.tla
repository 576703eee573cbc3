-------------------------- MODULE RangeQueryProofs --------------------------
(* Theorems about RangeQuery and the lookups of RateLookup within it, for  *)
(* every feed, any length of hours and seconds, and any bound of the       *)
(* search.                                                                 *)
EXTENDS RangeQuery, HourFilesProofs

-----------------------------------------------------------------------------
FeedOK == feed \in [Hours -> Files]

(* The ticks of an hour up to a time lie between the two,                  *)
LEMMA AtOrBeforeWithin ==
    ASSUME FeedOK, NEW t \in Int, NEW u \in AtOrBefore(t)
    PROVE  u \in Int /\ HourStart(t) <= u /\ u <= t
<1>1. PICK p \in Ticks(HourOf(t)) : p <= TargetOf(t) /\ u = HourStart(t) + p
  BY DEF AtOrBefore
<1>2. p \in 0..(HourLen - 1) /\ HourLen \in Nat
  BY LookupAssumption, HourAssumption DEF FeedOK, Ticks
<1>3. /\ HourStart(t) \in Int /\ t % HourLen = t - HourStart(t)
      /\ TargetOf(t) \in Int /\ TargetOf(t) <= t % HourLen
  BY HourOfTime
<1>4. p \in Int /\ 0 <= p
  BY <1>2
<1> QED
  BY <1>1, <1>3, <1>4

(* the last of them is one,                                                *)
LEMMA LatestOfHour ==
    ASSUME FeedOK, NEW t \in Int, AtOrBefore(t) # {}
    PROVE  /\ Max(AtOrBefore(t)) \in AtOrBefore(t)
           /\ \A u \in AtOrBefore(t) : u <= Max(AtOrBefore(t))
<1>1. AtOrBefore(t) \subseteq Int /\ \A u \in AtOrBefore(t) : u <= t
  BY AtOrBeforeWithin
<1>2. /\ Max(AtOrBefore(t)) \in AtOrBefore(t)
      /\ \A u \in AtOrBefore(t) : Max(AtOrBefore(t)) >= u
  BY <1>1, GreatestOf
<1> QED
  BY <1>1, <1>2

(* and those of earlier hours come before them.                            *)
LEMMA EarlierHours ==
    ASSUME FeedOK, NEW t \in Int, NEW h \in Int, h <= HourOf(t),
           NEW u \in AtOrBefore(h * HourLen - 1), NEW v \in AtOrBefore(t)
    PROVE  u < v
<1>1. HourOf(t) \in Int /\ HourStart(t) = HourOf(t) * HourLen
  BY HourOfTime
<1>2. h * HourLen \in Int /\ HourStart(t) \in Int /\ h * HourLen <= HourStart(t)
  BY <1>1, HoursInOrder
<1>3. u \in Int /\ u <= h * HourLen - 1
  BY <1>2, AtOrBeforeWithin
<1>4. v \in Int /\ HourStart(t) <= v
  BY AtOrBeforeWithin
<1> QED
  BY <1>2, <1>3, <1>4

-----------------------------------------------------------------------------
LookupTypes ==
    /\ FeedOK
    /\ request \in Int /\ query \in Int /\ attempts \in Nat /\ status \in Statuses
    /\ current \in Int /\ interval \in Int

(* What a search has passed over is empty: the hour it began in, which has *)
(* a file, and each hour before it down to that of the query.              *)
Searched ==
    status = "search" =>
        LET from == Effective(request)
        IN  /\ attempts <= MaxBacktrack
            /\ attempts = 0 => query = from
            /\ attempts > 0 => /\ query = (HourOf(from) - attempts + 1) * HourLen - 1
                               /\ AtOrBefore(from) = {}
                               /\ Ticks(HourOf(from)) # {}
            /\ \A h \in (HourOf(from) - attempts + 2)..HourOf(from) :
                   AtOrBefore(h * HourLen - 1) = {}

LookupInv == LookupTypes /\ Searched /\ AnswerIsLatest /\ NotFoundIsRight

LEMMA LookupStarts == Init => LookupInv
BY DEF Init, LookupInit, LookupInv, LookupTypes, FeedOK, Searched, AnswerIsLatest,
       NotFoundIsRight, Statuses

(* A lookup begins,                                                        *)
LEMMA AskStep ==
    ASSUME LookupInv, NEW t \in Int, Ask(t), current' \in Int, interval' \in Int
    PROVE  LookupInv'
<1>1. Effective(t) \in Int /\ HourOf(Effective(t)) \in Int
  BY EffectiveBefore, HourOfTime
<1>2. /\ request' = t /\ query' = Effective(t) /\ attempts' = 0 /\ status' = "search"
      /\ feed' = feed
  BY DEF Ask
<1>3. LookupTypes'
  BY <1>1, <1>2 DEF LookupInv, LookupTypes, FeedOK, Statuses
<1>4. Searched'
  <2>1. Effective(request)' = Effective(t)
    BY <1>2 DEF Effective, LastAvailable, IsOpen, HourOf
  <2>2. \A h \in (HourOf(Effective(t)) - 0 + 2)..HourOf(Effective(t)) : FALSE
    BY <1>1
  <2>3. MaxBacktrack \in Nat
    BY LookupAssumption, HourAssumption
  <2> QED
    BY <1>2, <2>1, <2>2, <2>3 DEF Searched
<1> QED
  BY <1>2, <1>3, <1>4 DEF LookupInv, AnswerIsLatest, NotFoundIsRight

(* steps back,                                                             *)
LEMMA StepBackStep ==
    ASSUME LookupInv, StepBack, UNCHANGED <<current, interval>>
    PROVE  LookupInv'
<1> DEFINE from == Effective(request)
           H == HourOf(from)
<1>1. /\ status = "search" /\ AtOrBefore(query) = {} /\ MayStepBack
      /\ attempts < MaxBacktrack
      /\ query' = HourStart(query) - 1 /\ attempts' = attempts + 1
      /\ UNCHANGED <<feed, request, status, found>>
  BY DEF StepBack
<1>2. /\ query \in Int /\ attempts \in Nat /\ request \in Int /\ MaxBacktrack \in Nat
      /\ from \in Int /\ H \in Int
  BY LookupAssumption, HourAssumption, EffectiveBefore, HourOfTime DEF LookupInv, LookupTypes
<1>3. LookupTypes'
  BY <1>1, <1>2, HourOfTime DEF LookupInv, LookupTypes, FeedOK, Statuses
<1>4. /\ attempts = 0 => query = from
      /\ attempts > 0 => /\ query = (H - attempts + 1) * HourLen - 1
                         /\ AtOrBefore(from) = {} /\ Ticks(H) # {}
      /\ \A h \in (H - attempts + 2)..H : AtOrBefore(h * HourLen - 1) = {}
  BY <1>1 DEF LookupInv, Searched
<1>5. HourOf(query) = H - attempts
  <2>1. CASE attempts = 0
    BY <1>2, <1>4, <2>1
  <2>2. CASE attempts > 0
    <3> HIDE DEF H, from
    <3> DEFINE k == H - attempts + 1
    <3>1. k \in Int /\ k - 1 = H - attempts
      BY <1>2
    <3>2. query = k * HourLen - 1
      BY <1>4, <2>2
    <3> HIDE DEF k
    <3>3. HourOf(k * HourLen - 1) = k - 1
      BY <3>1, HourBefore
    <3> QED
      BY <3>1, <3>2, <3>3
  <2> QED
    BY <1>2, <2>1, <2>2
<1>6. /\ query' = (H - (attempts + 1) + 1) * HourLen - 1
      /\ AtOrBefore(from) = {} /\ Ticks(H) # {}
  <2>1. query' = (H - attempts) * HourLen - 1
    BY <1>1, <1>2, <1>5, HourOfTime
  <2>2. H - (attempts + 1) + 1 = H - attempts
    BY <1>2
  <2>3. AtOrBefore(from) = {} /\ Ticks(H) # {}
    BY <1>1, <1>2, <1>4, <1>5 DEF MayStepBack
  <2> QED
    BY <2>1, <2>2, <2>3
<1>7. ASSUME NEW h \in (H - (attempts + 1) + 2)..H PROVE AtOrBefore(h * HourLen - 1) = {}
  <2>1. CASE h = H - attempts + 1
    <3>1. attempts > 0
      BY <1>2, <1>7, <2>1
    <3> QED
      BY <1>1, <1>4, <2>1, <3>1
  <2>2. CASE h # H - attempts + 1
    <3>1. h \in (H - attempts + 2)..H
      BY <1>2, <1>7, <2>2
    <3> QED
      BY <1>4, <3>1
  <2> QED
    BY <2>1, <2>2
<1>8. Searched'
  <2>1. /\ Effective(request)' = from /\ HourOf(Effective(request))' = H
        /\ AtOrBefore(Effective(request))' = AtOrBefore(from)
        /\ Ticks(HourOf(Effective(request)))' = Ticks(H)
        /\ \A h : AtOrBefore(h * HourLen - 1)' = AtOrBefore(h * HourLen - 1)
    BY <1>1 DEF Effective, LastAvailable, IsOpen, HourOf, Ticks, AtOrBefore, HourStart, TargetOf
  <2>2. attempts' > 0 /\ attempts' # 0 /\ attempts' <= MaxBacktrack
    BY <1>1, <1>2
  <2> HIDE DEF from, H
  <2> QED
    BY <1>1, <1>6, <1>7, <2>1, <2>2 DEF Searched
<1> QED
  BY <1>1, <1>3, <1>8 DEF LookupInv, AnswerIsLatest, NotFoundIsRight

(* finds the latest tick there is,                                         *)
LEMMA ReachableIsInt == ASSUME FeedOK, NEW t \in Int PROVE Reachable(t) \subseteq Int
<1>1. HourOf(t) \in Int /\ MaxBacktrack \in Nat
  BY HourOfTime, LookupAssumption, HourAssumption
<1>2. \A h \in (HourOf(t) - MaxBacktrack + 1)..HourOf(t) : h * HourLen - 1 \in Int
  BY <1>1, HourBefore
<1> QED
  BY <1>2, AtOrBeforeWithin DEF Reachable

LEMMA FoundIsLatest ==
    ASSUME LookupInv, status = "search", AtOrBefore(query) # {}
    PROVE  /\ Max(AtOrBefore(query)) <= request /\ query <= request
           /\ Max(AtOrBefore(query)) = Max(Reachable(Effective(request)))
<1> DEFINE from == Effective(request)
           H == HourOf(from)
           m == Max(AtOrBefore(query))
<1>1. /\ FeedOK /\ query \in Int /\ attempts \in Nat /\ request \in Int /\ MaxBacktrack \in Nat
      /\ from \in Int /\ from <= request /\ H \in Int /\ H * HourLen \in Int
      /\ H * HourLen <= from
  BY LookupAssumption, HourAssumption, EffectiveBefore, HourOfTime DEF LookupInv, LookupTypes
<1>2. /\ attempts <= MaxBacktrack
      /\ attempts = 0 => query = from
      /\ attempts > 0 => query = (H - attempts + 1) * HourLen - 1 /\ AtOrBefore(from) = {}
      /\ \A h \in (H - attempts + 2)..H : AtOrBefore(h * HourLen - 1) = {}
  BY DEF LookupInv, Searched
<1>3. m \in AtOrBefore(query) /\ \A u \in AtOrBefore(query) : u <= m
  BY <1>1, LatestOfHour
<1>4. m \in Int /\ m <= query
  BY <1>1, <1>3, AtOrBeforeWithin
<1>5. Reachable(from) = AtOrBefore(from) \cup
          UNION {AtOrBefore(h * HourLen - 1) : h \in (H - MaxBacktrack + 1)..H}
  BY DEF Reachable
<1>6. Reachable(from) \subseteq Int
  BY <1>1, ReachableIsInt
<1> HIDE DEF from, H, m
<1>7. query <= from /\ m \in Reachable(from) /\ \A u \in Reachable(from) : u <= m
  <2>1. CASE attempts = 0
    <3>1. query = from /\ m \in Reachable(from)
      BY <1>2, <1>3, <1>5, <2>1
    <3>2. ASSUME NEW h \in (H - MaxBacktrack + 1)..H, NEW u \in AtOrBefore(h * HourLen - 1)
          PROVE  u <= m
      <4>1. h \in Int /\ h <= HourOf(from) /\ h * HourLen - 1 \in Int
        BY <1>1, HourBefore DEF H
      <4>2. u < m
        BY <1>1, <1>3, <3>1, <4>1, EarlierHours
      <4>3. u \in Int
        BY <1>1, <4>1, AtOrBeforeWithin
      <4> QED
        BY <1>4, <4>2, <4>3
    <3> QED
      BY <1>1, <1>3, <1>5, <3>1, <3>2
  <2>2. CASE attempts > 0
    <3> DEFINE k == H - attempts + 1
    <3>1. k \in (H - MaxBacktrack + 1)..H /\ k \in Int
      BY <1>1, <1>2, <2>2
    <3>2. \A h \in (H - MaxBacktrack + 1)..H : h > k => h \in (H - attempts + 2)..H
      BY <1>1
    <3>3. query = k * HourLen - 1 /\ AtOrBefore(from) = {}
      BY <1>2, <2>2
    <3> HIDE DEF k
    <3>4. HourOf(query) = k - 1 /\ k * HourLen \in Int /\ k * HourLen <= H * HourLen
      BY <1>1, <3>1, <3>3, HourBefore, HoursInOrder
    <3>5. query <= from
      BY <1>1, <3>3, <3>4
    <3>6. m \in Reachable(from)
      BY <1>3, <1>5, <3>1, <3>3
    <3>7. ASSUME NEW h \in (H - MaxBacktrack + 1)..H, NEW u \in AtOrBefore(h * HourLen - 1)
          PROVE  u <= m
      <4>1. h \in Int /\ h * HourLen - 1 \in Int
        BY <1>1, HourBefore
      <4>2. CASE h > k
        BY <1>2, <3>2, <3>7, <4>2
      <4>3. CASE h = k
        BY <1>3, <3>3, <3>7, <4>3
      <4>4. CASE h < k
        <5>1. h <= HourOf(query)
          BY <3>1, <3>4, <4>1, <4>4
        <5>2. u < m
          BY <1>1, <1>3, <3>7, <4>1, <5>1, EarlierHours
        <5>3. u \in Int
          BY <1>1, <3>7, <4>1, AtOrBeforeWithin
        <5> QED
          BY <1>4, <5>2, <5>3
      <4> QED
        BY <3>1, <4>1, <4>2, <4>3, <4>4
    <3> QED
      BY <1>5, <3>3, <3>5, <3>6, <3>7
  <2> QED
    BY <1>1, <2>1, <2>2
<1>8. m = Max(Reachable(from))
  BY <1>6, <1>7, GreatestIs
<1>9. m <= request /\ query <= request
  BY <1>1, <1>4, <1>7
<1> QED
  BY <1>8, <1>9 DEF m, from

LEMMA AnswerStep ==
    ASSUME LookupInv, Answer, UNCHANGED <<current, interval>> PROVE LookupInv'
<1>1. /\ status = "search" /\ AtOrBefore(query) # {} /\ found' = Max(AtOrBefore(query))
      /\ status' = "ok" /\ UNCHANGED <<feed, request, query, attempts>>
  BY DEF Answer, End
<1>2. found' <= request /\ found' = Max(Reachable(Effective(request)))
  BY <1>1, FoundIsLatest
<1>3. Reachable(Effective(request))' = Reachable(Effective(request))
  BY <1>1 DEF Reachable, Effective, LastAvailable, IsOpen, HourOf, Ticks, AtOrBefore,
              HourStart, TargetOf
<1>4. AnswerIsLatest'
  BY <1>1, <1>2, <1>3 DEF AnswerIsLatest
<1> QED
  BY <1>1, <1>4 DEF LookupInv, LookupTypes, FeedOK, Statuses, Searched, NotFoundIsRight

(* gives up,                                                               *)
LEMMA NothingReachable ==
    ASSUME LookupInv, status = "search", AtOrBefore(query) = {},
           ~MayStepBack \/ attempts >= MaxBacktrack
    PROVE  Ticks(HourOf(Effective(request))) = {} \/ Reachable(Effective(request)) = {}
<1> DEFINE from == Effective(request)
           H == HourOf(from)
<1>1. /\ attempts \in Nat /\ MaxBacktrack \in Nat /\ request \in Int /\ from \in Int /\ H \in Int
  BY LookupAssumption, HourAssumption, EffectiveBefore, HourOfTime DEF LookupInv, LookupTypes
<1>2. /\ attempts <= MaxBacktrack
      /\ attempts = 0 => query = from
      /\ attempts > 0 => query = (H - attempts + 1) * HourLen - 1 /\ AtOrBefore(from) = {}
      /\ \A h \in (H - attempts + 2)..H : AtOrBefore(h * HourLen - 1) = {}
  BY DEF LookupInv, Searched
<1>3. CASE ~MayStepBack
  <2>1. attempts = 0 /\ Ticks(HourOf(query)) = {}
    BY <1>1, <1>3 DEF MayStepBack
  <2> QED
    BY <1>2, <2>1
<1>4. CASE attempts >= MaxBacktrack
  <2>1. AtOrBefore(from) = {}
    BY <1>1, <1>2
  <2>2. ASSUME NEW h \in (H - MaxBacktrack + 1)..H PROVE AtOrBefore(h * HourLen - 1) = {}
    <3>1. CASE h = H - attempts + 1
      <4>1. attempts > 0
        BY <1>1, <2>2, <3>1
      <4> QED
        BY <1>2, <3>1, <4>1
    <3>2. CASE h # H - attempts + 1
      <4>1. h \in (H - attempts + 2)..H
        BY <1>1, <1>2, <1>4, <2>2, <3>2
      <4> QED
        BY <1>2, <4>1
    <3> QED
      BY <3>1, <3>2
  <2> QED
    BY <2>1, <2>2 DEF Reachable
<1> QED
  BY <1>3, <1>4

LEMMA GiveUpStep ==
    ASSUME LookupInv, GiveUp, UNCHANGED <<current, interval>> PROVE LookupInv'
<1>1. /\ status = "search" /\ AtOrBefore(query) = {}
      /\ ~MayStepBack \/ attempts >= MaxBacktrack
      /\ status' = "notfound" /\ UNCHANGED <<feed, request, query, attempts>>
  BY DEF GiveUp, End
<1>2. Ticks(HourOf(Effective(request))) = {} \/ Reachable(Effective(request)) = {}
  BY <1>1, NothingReachable
<1>3. /\ Reachable(Effective(request))' = Reachable(Effective(request))
      /\ Ticks(HourOf(Effective(request)))' = Ticks(HourOf(Effective(request)))
  BY <1>1 DEF Reachable, Effective, LastAvailable, IsOpen, HourOf, Ticks, AtOrBefore,
              HourStart, TargetOf
<1>4. NotFoundIsRight'
  BY <1>1, <1>2, <1>3 DEF NotFoundIsRight
<1> QED
  BY <1>1, <1>4 DEF LookupInv, LookupTypes, FeedOK, Statuses, Searched, AnswerIsLatest

(* or fails; and a range query goes on.                                    *)
LEMMA LookupOver ==
    ASSUME LookupInv, status' \in {"idle", "error"},
           UNCHANGED <<feed, request, query, attempts>>, current' \in Int, interval' \in Int
    PROVE  LookupInv'
BY DEF LookupInv, LookupTypes, FeedOK, Statuses, Searched, AnswerIsLatest, NotFoundIsRight

LEMMA LookupAsItWas ==
    ASSUME LookupInv, UNCHANGED lookupVars, current' \in Int, interval' \in Int
    PROVE  LookupInv'
<1>1. UNCHANGED <<feed, request, query, attempts, status, found>>
  BY DEF lookupVars
<1>2. LookupTypes'
  BY <1>1 DEF LookupInv, LookupTypes, FeedOK
<1>3. Searched'
  <2>1. Searched
    BY DEF LookupInv
  <2> QED BY <1>1, <2>1 DEF Searched, Ticks, AtOrBefore
<1>4. /\ Reachable(Effective(request))' = Reachable(Effective(request))
      /\ Ticks(HourOf(Effective(request)))' = Ticks(HourOf(Effective(request)))
  BY <1>1 DEF Reachable, Effective, LastAvailable, IsOpen, HourOf, Ticks, AtOrBefore,
              HourStart, TargetOf
<1>5. AnswerIsLatest' /\ NotFoundIsRight'
  BY <1>1, <1>4 DEF LookupInv, AnswerIsLatest, NotFoundIsRight
<1> QED
  BY <1>2, <1>3, <1>5 DEF LookupInv

LEMMA LookupNextInv == LookupInv /\ [Next]_vars => LookupInv'
<1> SUFFICES ASSUME LookupInv, [Next]_vars PROVE LookupInv'
  OBVIOUS
<1>1. current \in Int /\ interval \in Int /\ current + interval \in Int /\ current - 1 \in Int
  BY DEF LookupInv, LookupTypes
<1>2. ASSUME Search, UNCHANGED rangeVars PROVE LookupInv'
  <2>1. UNCHANGED <<current, interval>>
    BY <1>2 DEF rangeVars
  <2>2. CASE FetchFails
    BY <1>1, <2>1, <2>2, LookupOver DEF FetchFails, End
  <2> QED
    BY <1>2, <2>1, <2>2, AnswerStep, StepBackStep, GiveUpStep DEF Search
<1>3. ASSUME NEW t \in Requests, Ask(t), UNCHANGED rangeVars PROVE LookupInv'
  <2>1. UNCHANGED <<current, interval>> /\ t \in Int
    BY <1>3, LookupAssumption, HourAssumption DEF rangeVars
  <2> QED
    BY <1>1, <1>3, <2>1, AskStep
<1>4. ASSUME NEW s \in Starts, NEW e \in Ends, NEW i \in Intervals, Query(s, e, i)
      PROVE  LookupInv'
  <2>1. s \in Int /\ i \in Int
    BY RangeAssumption
  <2> QED
    BY <1>4, <2>1, LookupAsItWas DEF Query
<1>5. ASSUME SkipClosed \/ Serve PROVE LookupInv'
  BY <1>1, <1>5, LookupAsItWas DEF SkipClosed, Serve, Advance
<1>6. ASSUME HoldHour \/ HourFails \/ LookBackFails \/ Finish PROVE LookupInv'
  BY <1>1, <1>6, LookupAsItWas DEF HoldHour, HourFails, LookBackFails, Finish
<1>7. ASSUME LookBack PROVE LookupInv'
  BY <1>1, <1>7, AskStep DEF LookBack
<1>8. ASSUME LookedBack PROVE LookupInv'
  BY <1>1, <1>8, LookupOver DEF LookedBack, Advance
<1>9. ASSUME UNCHANGED vars PROVE LookupInv'
  BY <1>1, <1>9, LookupAsItWas DEF vars, rangeVars
<1> QED
  BY <1>2, <1>3, <1>4, <1>5, <1>6, <1>7, <1>8, <1>9 DEF Next, RangeNext

(* get_exchange_rate, on its own or within a range query, answers with the *)
(* last tick within its reach, and never with one after the time asked for.*)
THEOREM LookupAnswersLatest == Spec => []AnswerIsLatest
<1>1. LookupInv => AnswerIsLatest
  BY DEF LookupInv
<1> QED
  BY <1>1, LookupStarts, LookupNextInv, PTL DEF Spec

(* It reports missing data only when the hour asked for has no file, or    *)
(* nothing is within its reach.                                            *)
THEOREM LookupMissesRightly == Spec => []NotFoundIsRight
<1>1. LookupInv => NotFoundIsRight
  BY DEF LookupInv
<1> QED
  BY <1>1, LookupStarts, LookupNextInv, PTL DEF Spec

-----------------------------------------------------------------------------
(* Within an hour the target of a later time is not before that of an      *)
(* earlier one,                                                            *)
LEMMA TargetsGrow ==
    ASSUME NEW s \in Int, NEW t \in Int, s <= t, HourOf(s) = HourOf(t)
    PROVE  TargetOf(s) <= TargetOf(t)
<1>1. SecondLen \in Nat \ {0} /\ HourLen \in Nat \ {0}
  BY LookupAssumption, HourAssumption
<1>2. /\ s \div SecondLen \in Int /\ s = (s \div SecondLen) * SecondLen + (s % SecondLen)
      /\ t \div SecondLen \in Int /\ t = (t \div SecondLen) * SecondLen + (t % SecondLen)
      /\ s % SecondLen \in 0..(SecondLen - 1) /\ t % SecondLen \in 0..(SecondLen - 1)
  <2>1. ASSUME NEW v \in Int
        PROVE  /\ v \div SecondLen \in Int /\ v = (v \div SecondLen) * SecondLen + (v % SecondLen)
               /\ v % SecondLen \in 0..(SecondLen - 1)
    <3>1. v % SecondLen \in 0..(SecondLen - 1)
      BY <1>1
    <3>2. v \div SecondLen \in Int /\ v = (v \div SecondLen) * SecondLen + (v % SecondLen)
      BY <1>1
    <3> QED
      BY <3>1, <3>2
  <2> QED
    BY <2>1
<1>3. s - (s % SecondLen) <= t - (t % SecondLen)
  <2> DEFINE a == s \div SecondLen
             c == t \div SecondLen
  <2>1. a \in Int /\ c \in Int /\ s - (s % SecondLen) = a * SecondLen
        /\ t - (t % SecondLen) = c * SecondLen
    BY <1>1, <1>2
  <2>2. a <= c
    <3>1. s = a * SecondLen + (s % SecondLen) /\ t = c * SecondLen + (t % SecondLen)
      BY <1>2
    <3> HIDE DEF a, c
    <3> SUFFICES ASSUME c + 1 <= a PROVE FALSE
      BY <2>1
    <3>2. (c + 1) * SecondLen <= a * SecondLen
      BY <1>1, <2>1
    <3>3. (c + 1) * SecondLen = c * SecondLen + SecondLen
      BY <1>1, <2>1
    <3> QED
      BY <1>1, <1>2, <2>1, <3>1, <3>2, <3>3
  <2> HIDE DEF a, c
  <2>3. a * SecondLen <= c * SecondLen
    BY <1>1, <2>1, <2>2
  <2> QED
    BY <2>1, <2>3
<1>4. s % HourLen = s - HourStart(s) /\ t % HourLen = t - HourStart(t)
      /\ HourStart(s) = HourStart(t) /\ HourStart(t) \in Int
  BY HourOfTime
<1>5. s % SecondLen \in Int /\ t % SecondLen \in Int
  BY <1>2
<1>6. TargetOf(s) = (s - HourStart(t)) - (s % SecondLen)
  BY <1>4 DEF TargetOf
<1>7. TargetOf(t) = (t - HourStart(t)) - (t % SecondLen)
  BY <1>4 DEF TargetOf
<1> QED
  BY <1>3, <1>4, <1>5, <1>6, <1>7

(* and so the last tick at or before a time is not before that of an       *)
(* earlier time.                                                           *)
LEMMA LatestGrows ==
    ASSUME FeedOK, NEW x \in Int, NEW t \in Int, x <= t, NEW u \in AtOrBefore(x),
           AtOrBefore(t) # {}
    PROVE  u <= Max(AtOrBefore(t))
<1>1. /\ HourOf(x) \in Int /\ HourOf(t) \in Int /\ HourLen \in Nat \ {0}
      /\ HourStart(x) = HourOf(x) * HourLen /\ HourStart(t) = HourOf(t) * HourLen
      /\ x % HourLen = x - HourStart(x) /\ x % HourLen \in 0..(HourLen - 1)
      /\ HourStart(x) \in Int /\ HourStart(t) \in Int /\ HourStart(t) <= t
  BY HourOfTime, LookupAssumption, HourAssumption
<1>2. /\ Max(AtOrBefore(t)) \in AtOrBefore(t)
      /\ \A v \in AtOrBefore(t) : v <= Max(AtOrBefore(t))
  BY LatestOfHour
<1>3. CASE HourOf(x) = HourOf(t)
  <2>1. TargetOf(x) <= TargetOf(t) /\ TargetOf(x) \in Int /\ TargetOf(t) \in Int
    BY <1>3, TargetsGrow, HourOfTime
  <2>2. PICK p \in Ticks(HourOf(x)) : p <= TargetOf(x) /\ u = HourStart(x) + p
    BY DEF AtOrBefore
  <2>3. p \in Int
    BY LookupAssumption, HourAssumption DEF FeedOK, Ticks
  <2>4. p \in Ticks(HourOf(t)) /\ p <= TargetOf(t) /\ u = HourStart(t) + p
    BY <1>1, <1>3, <2>1, <2>2, <2>3
  <2>5. u \in AtOrBefore(t)
    BY <2>4 DEF AtOrBefore
  <2> QED
    BY <1>2, <2>5
<1>4. CASE HourOf(x) < HourOf(t)
  <2>1. HourOf(x) + 1 <= HourOf(t) /\ HourOf(x) + 1 \in Int
    BY <1>1, <1>4
  <2>2. (HourOf(x) + 1) * HourLen <= HourOf(t) * HourLen
    BY <1>1, <2>1, HoursInOrder
  <2>3. (HourOf(x) + 1) * HourLen = HourOf(x) * HourLen + HourLen
    BY <1>1
  <2>4. x < HourStart(t)
    BY <1>1, <2>2, <2>3
  <2>5. u \in Int /\ u <= x
    BY AtOrBeforeWithin
  <2>6. Max(AtOrBefore(t)) \in Int /\ HourStart(t) <= Max(AtOrBefore(t))
    BY <1>2, AtOrBeforeWithin
  <2> QED
    BY <1>1, <2>4, <2>5, <2>6
<1>5. HourOf(x) <= HourOf(t)
  <2> SUFFICES ASSUME HourOf(t) + 1 <= HourOf(x) PROVE FALSE
    BY <1>1
  <2>0. HourOf(t) + 1 \in Int
    BY <1>1
  <2>1. (HourOf(t) + 1) * HourLen <= HourOf(x) * HourLen
    BY <1>1, <2>0, HoursInOrder
  <2>2. (HourOf(t) + 1) * HourLen = HourOf(t) * HourLen + HourLen
    BY <1>1
  <2>3. t % HourLen = t - HourStart(t) /\ t % HourLen \in 0..(HourLen - 1)
    BY HourOfTime
  <2> QED
    BY <1>1, <2>1, <2>2, <2>3
<1> QED
  BY <1>1, <1>3, <1>4, <1>5

(* The feed has nothing before its first hour.                             *)
LEMMA TicksAreNotNegative ==
    ASSUME FeedOK, NEW t \in Int, NEW u \in AtOrBefore(t) PROVE u \in Nat
<1>1. HourOf(t) \in Nat
  BY LookupAssumption, HourAssumption DEF AtOrBefore, Ticks
<1>2. HourStart(t) \in Int /\ HourStart(t) = HourOf(t) * HourLen
  BY HourOfTime
<1>3. 0 <= HourStart(t)
  BY <1>1, <1>2, LookupAssumption, HourAssumption
<1>4. u \in Int /\ HourStart(t) <= u
  BY AtOrBeforeWithin
<1> QED
  BY <1>2, <1>3, <1>4

-----------------------------------------------------------------------------
Running == range \in {"sample", "serve", "lookup"}

(* What holds between the rows so far and the sample that is next: the     *)
(* last row is a tick of the feed found at or before it, the ticks held    *)
(* are those of its hour when they are used, and nothing is looked up or   *)
(* remembered once there is a row.                                         *)
QueryInv ==
    /\ rows \in Seq(Int) /\ start \in Int
    /\ Running => interval > 0 /\ start <= current /\ (current - start) % interval = 0
    /\ range = "idle" => rows = <<>>
    /\ range = "serve" => hourCache = HourOf(current)
    /\ range = "lookup" =>
           rows = <<>> /\ AtOrBefore(current) = {} /\ request = current - 1
    /\ status = "ok" => \E x \in Int : x <= request /\ found \in AtOrBefore(x)
    /\ rows # <<>> => \E x \in Int : x <= current /\ Last(rows) \in AtOrBefore(x)
    /\ rows = <<>> => fallback.row = Nothing

SampleInv == LookupInv /\ QueryInv /\ RowsAscending /\ InHourSamplesServed

LEMMA QueryStarts == Init => SampleInv
<1> SUFFICES ASSUME Init PROVE SampleInv
  OBVIOUS
<1>1. LookupInv
  BY LookupStarts
<1>2. /\ rows = <<>> /\ range = "idle" /\ status = "idle" /\ start = 0 /\ current = 0
      /\ fallback.row = Nothing
  BY DEF Init, LookupInit, NoFallback
<1>3. QueryInv
  BY <1>2 DEF QueryInv, Running
<1>4. RowsAscending
  BY <1>2 DEF RowsAscending
<1>5. InHourSamplesServed
  BY <1>2 DEF InHourSamplesServed, Samples
<1> QED
  BY <1>1, <1>3, <1>4, <1>5 DEF SampleInv

(* The ticks held answer for the sample as the feed would.                 *)
LEMMA InHourIsLatest ==
    ASSUME FeedOK, current \in Int, hourCache = HourOf(current)
    PROVE  /\ AtOrBefore(current) = {} => InHour = Nothing
           /\ AtOrBefore(current) # {} => InHour = Max(AtOrBefore(current)) /\ InHour # Nothing
<1>1. AtOrBefore(current) =
          {HourStart(current) + o : o \in {p \in Ticks(hourCache) : p <= TargetOf(current)}}
  BY DEF AtOrBefore
<1>2. InHour = Latest(AtOrBefore(current))
  BY <1>1 DEF InHour
<1>3. AtOrBefore(current) # {} => Max(AtOrBefore(current)) \in Nat
  BY LatestOfHour, TicksAreNotNegative
<1> QED
  BY <1>2, <1>3 DEF Latest, Nothing

(* A row that is pushed is the last, and comes after the others.           *)
LEMMA PushStep ==
    ASSUME rows \in Seq(Int), RowsAscending, NEW row \in Int, row # Nothing, Push(row),
           rows # <<>> => Last(rows) <= row
    PROVE  /\ rows' \in Seq(Int) /\ rows' # <<>> /\ Last(rows') = row
           /\ RowsAscending'
           /\ ToSet(rows) \subseteq ToSet(rows') /\ row \in ToSet(rows')
<1> DEFINE n == Len(rows)
<1>1. n \in Nat /\ DOMAIN rows = 1..n
  OBVIOUS
<1>2. CASE rows # <<>> /\ Last(rows) = row
  <2>1. rows' = rows
    BY <1>2 DEF Push
  <2>2. n \in DOMAIN rows /\ rows[n] = row
    BY <1>1, <1>2 DEF Last
  <2> QED
    BY <1>2, <2>1, <2>2 DEF RowsAscending, ToSet, Last
<1>3. CASE ~(rows # <<>> /\ Last(rows) = row)
  <2>1. rows' = Append(rows, row)
    BY <1>3 DEF Push
  <2>2. /\ rows' \in Seq(Int) /\ Len(rows') = n + 1 /\ DOMAIN rows' = 1..(n + 1)
        /\ rows'[n + 1] = row /\ \A i \in 1..n : rows'[i] = rows[i]
    BY <2>1
  <2>3. rows' # <<>> /\ Last(rows') = row
    BY <1>1, <2>2 DEF Last
  <2>4. ToSet(rows) \subseteq ToSet(rows') /\ row \in ToSet(rows')
    <3>1. \A i \in 1..n : i \in 1..(n + 1)
      BY <1>1
    <3>2. n + 1 \in 1..(n + 1)
      BY <1>1
    <3> HIDE DEF n
    <3> QED
      BY <1>1, <2>2, <3>1, <3>2 DEF ToSet
  <2>5. \A i \in 1..n : rows[i] \in Int /\ rows[i] < row
    <3> SUFFICES ASSUME NEW i \in 1..n PROVE rows[i] \in Int /\ rows[i] < row
      OBVIOUS
    <3>1. n \in 1..n /\ rows # <<>> /\ Last(rows) = rows[n]
      BY <1>1 DEF Last
    <3>2. rows[n] < row
      BY <1>3, <3>1
    <3>3. rows[i] \in Int /\ rows[n] \in Int
      BY <1>1, <3>1
    <3>4. CASE i = n
      BY <3>2, <3>4
    <3>5. CASE i # n
      <4>1. i \in DOMAIN rows /\ n \in DOMAIN rows
        BY <1>1, <3>1
      <4>2. i < n => rows[i] < rows[n]
        BY <4>1 DEF RowsAscending
      <4> HIDE DEF n
      <4>3. i < n
        BY <1>1, <3>5
      <4> QED
        BY <3>2, <3>3, <4>2, <4>3
    <3> QED
      BY <3>4, <3>5
  <2>6. ASSUME NEW i \in DOMAIN rows', NEW k \in DOMAIN rows', i < k
        PROVE  rows'[i] < rows'[k]
    <3>1. i \in 1..n
      BY <1>1, <2>2, <2>6
    <3>2. CASE k = n + 1
      BY <2>2, <2>5, <3>1, <3>2
    <3>3. CASE k # n + 1
      <4>1. k \in 1..n
        BY <1>1, <2>2, <3>3
      <4> QED
        BY <1>1, <2>2, <2>6, <3>1, <4>1 DEF RowsAscending
    <3> QED
      BY <3>2, <3>3
  <2>7. RowsAscending'
    BY <2>6 DEF RowsAscending
  <2> QED
    BY <2>2, <2>3, <2>4, <2>7
<1> QED
  BY <1>2, <1>3

(* The sample that is passed is the only new one among those served.       *)
LEMMA SamplesGrow ==
    ASSUME current \in Int, start \in Int, interval \in Int, interval > 0, start <= current,
           (current - start) % interval = 0,
           current' = current + interval, UNCHANGED <<start, interval>>
    PROVE  /\ Samples' \subseteq Samples \cup {current}
           /\ Wanted(current) \/ Samples' \subseteq Samples
           /\ Samples \subseteq Samples'
           /\ Wanted(current) => current \in Samples'
           /\ start <= current' /\ (current' - start) % interval = 0
<1>1. (current + interval - start) % interval = 0
  <2> DEFINE d == current - start
             q == d \div interval
  <2>1. d \in Int /\ d = q * interval + (d % interval) /\ q \in Int
    OBVIOUS
  <2>2. d = q * interval /\ (q + 1) * interval = q * interval + interval
    BY <2>1
  <2>3. current + interval - start = (q + 1) * interval + 0
    BY <2>2
  <2>4. \A k \in Int : (k * interval + 0) % interval = 0
    OBVIOUS
  <2> HIDE DEF q
  <2> QED
    BY <2>1, <2>3, <2>4
<1>2. ASSUME NEW t \in current..(current + interval - 1), (t - start) % interval = 0
      PROVE  t = current
  <2> DEFINE a == (t - start) \div interval
             c == (current - start) \div interval
  <2>1. a \in Int /\ c \in Int /\ t - start = a * interval /\ current - start = c * interval
    BY <1>2
  <2> HIDE DEF a, c
  <2>2. a * interval < c * interval + interval /\ c * interval <= a * interval
    BY <1>2, <2>1
  <2>3. a <= c
    <3> SUFFICES ASSUME c + 1 <= a PROVE FALSE
      BY <2>1
    <3>1. (c + 1) * interval <= a * interval
      BY <2>1
    <3>2. (c + 1) * interval = c * interval + interval
      BY <2>1
    <3> QED
      BY <2>1, <2>2, <3>1, <3>2
  <2>4. a * interval <= c * interval
    BY <2>1, <2>3
  <2> QED
    BY <1>2, <2>1, <2>2, <2>4
<1>3. Samples' = {t \in start..(current + interval - 1) : (t - start) % interval = 0 /\ Wanted(t)}
  BY DEF Samples, Wanted, IsOpen, HourOf
<1>4. ASSUME NEW t \in Samples' PROVE t \in Samples \/ (t = current /\ Wanted(t))
  <2>1. t \in start..(current + interval - 1) /\ (t - start) % interval = 0 /\ Wanted(t)
    BY <1>3, <1>4
  <2>2. CASE t >= current
    BY <1>2, <2>1, <2>2
  <2>3. CASE t < current
    <3>1. t \in start..(current - 1)
      BY <2>1, <2>3
    <3> QED
      BY <2>1, <3>1 DEF Samples
  <2> QED
    BY <2>1, <2>2, <2>3
<1>5. ASSUME NEW t \in Samples PROVE t \in Samples'
  <2>1. t \in start..(current - 1) /\ (t - start) % interval = 0 /\ Wanted(t)
    BY <1>5 DEF Samples
  <2>2. t \in start..(current + interval - 1)
    BY <2>1
  <2> QED
    BY <1>3, <2>1, <2>2
<1>6. Wanted(current) => current \in Samples'
  <2>1. current \in start..(current + interval - 1)
    OBVIOUS
  <2> QED
    BY <1>3, <2>1
<1> QED
  BY <1>1, <1>4, <1>5, <1>6

-----------------------------------------------------------------------------
(* The feed does not change, and so what an hour holds does not.           *)
LEMMA FeedAsItWas ==
    ASSUME feed' = feed PROVE \A t \in Int : AtOrBefore(t)' = AtOrBefore(t)
BY DEF AtOrBefore, Ticks, HourStart, HourOf, TargetOf

(* A step that passes neither a sample nor a row leaves what was served.   *)
LEMMA ServedAsItWas ==
    ASSUME SampleInv, UNCHANGED <<feed, start, interval, current, rows>>
    PROVE  RowsAscending' /\ InHourSamplesServed'
<1>1. RowsAscending'
  BY DEF SampleInv, RowsAscending
<1>2. Samples' = Samples
  BY DEF Samples, Wanted, IsOpen, HourOf
<1>3. \A t \in Samples : t \in Int
  BY DEF Samples, SampleInv, LookupInv, LookupTypes, QueryInv
<1>4. \A t \in Int : AtOrBefore(t)' = AtOrBefore(t)
  BY FeedAsItWas
<1>5. InHourSamplesServed'
  BY <1>2, <1>3, <1>4 DEF SampleInv, InHourSamplesServed
<1> QED
  BY <1>1, <1>5

(* The sample that is next is passed, with or without a row of its own.    *)
LEMMA PassStep ==
    ASSUME SampleInv, Running, UNCHANGED <<feed, start, interval>>, Advance,
           rows' \in Seq(Int), RowsAscending', ToSet(rows) \subseteq ToSet(rows'),
           Wanted(current) /\ AtOrBefore(current) # {} =>
               Max(AtOrBefore(current)) \in ToSet(rows'),
           rows' # <<>> => \E x \in Int : x <= current /\ Last(rows') \in AtOrBefore(x),
           rows' = <<>> => fallback'.row = Nothing,
           status' = "ok" => status = "ok" /\ UNCHANGED <<request, found>>
    PROVE  QueryInv' /\ RowsAscending' /\ InHourSamplesServed'
<1>1. /\ current \in Int /\ start \in Int /\ interval \in Int /\ interval > 0
      /\ start <= current /\ (current - start) % interval = 0
      /\ current' = current + interval /\ range' = "sample"
  BY DEF SampleInv, LookupInv, LookupTypes, QueryInv, Advance
<1>2. /\ Samples' \subseteq Samples \cup {current}
      /\ Wanted(current) \/ Samples' \subseteq Samples
      /\ start <= current' /\ (current' - start) % interval = 0
  BY <1>1, SamplesGrow
<1>3. \A t \in Int : AtOrBefore(t)' = AtOrBefore(t)
  BY FeedAsItWas
<1>4. \A t \in Samples : t \in Int
  BY <1>1 DEF Samples
<1>5. ASSUME NEW t \in Samples', AtOrBefore(t)' # {}
      PROVE  Max(AtOrBefore(t)') \in ToSet(rows')
  <2>1. CASE t \in Samples
    <3>1. AtOrBefore(t)' = AtOrBefore(t)
      BY <1>3, <1>4, <2>1
    <3>2. Max(AtOrBefore(t)) \in ToSet(rows)
      BY <1>5, <2>1, <3>1 DEF SampleInv, InHourSamplesServed
    <3> QED
      BY <3>1, <3>2
  <2>2. CASE t \notin Samples
    <3>1. t = current /\ Wanted(current)
      BY <1>2, <1>5, <2>2
    <3>2. AtOrBefore(t)' = AtOrBefore(current)
      <4>1. AtOrBefore(t)' = AtOrBefore(t)
        BY <1>1, <1>3, <3>1
      <4> QED
        BY <3>1, <4>1
    <3> QED
      BY <1>5, <3>1, <3>2
  <2> QED
    BY <2>1, <2>2
<1>6. InHourSamplesServed'
  <2> SUFFICES ASSUME NEW t \in Samples', AtOrBefore(t)' # {}
               PROVE  Max(AtOrBefore(t)') \in ToSet(rows')
    BY DEF InHourSamplesServed
  <2> QED
    BY <1>5
<1>7. status' = "ok" => \E x \in Int : x <= request' /\ found' \in AtOrBefore(x)'
  BY <1>3 DEF SampleInv, QueryInv
<1>8. rows' # <<>> => \E x \in Int : x <= current' /\ Last(rows') \in AtOrBefore(x)'
  <2> SUFFICES ASSUME rows' # <<>>
               PROVE  \E x \in Int : x <= current' /\ Last(rows') \in AtOrBefore(x)'
    OBVIOUS
  <2>1. PICK x \in Int : x <= current /\ Last(rows') \in AtOrBefore(x)
    OBVIOUS
  <2>2. x <= current' /\ AtOrBefore(x)' = AtOrBefore(x)
    BY <1>1, <1>3, <2>1
  <2> QED
    BY <2>1, <2>2
<1>9. QueryInv'
  BY <1>1, <1>2, <1>7, <1>8 DEF QueryInv, Running
<1> QED
  BY <1>6, <1>9

(* Steps that serve no sample.                                             *)
LEMMA QueryStep ==
    ASSUME SampleInv, NEW s \in Starts, NEW e \in Ends, NEW i \in Intervals, Query(s, e, i)
    PROVE  QueryInv' /\ RowsAscending' /\ InHourSamplesServed'
<1>1. /\ range = "idle" /\ status = "idle" /\ start' = s /\ interval' = i /\ current' = s
      /\ range' = IF s >= e \/ i <= 0 THEN "invalid" ELSE "sample"
      /\ UNCHANGED <<feed, status, rows, fallback>>
  BY DEF Query, lookupVars
<1>2. s \in Int /\ e \in Int /\ i \in Int
  BY RangeAssumption
<1>3. rows = <<>> /\ fallback.row = Nothing
  BY <1>1 DEF SampleInv, QueryInv
<1>4. Samples' = {}
  BY <1>1, <1>2 DEF Samples
<1>5. InHourSamplesServed' /\ RowsAscending'
  BY <1>1, <1>3, <1>4 DEF InHourSamplesServed, RowsAscending
<1>6. Running' => interval' > 0 /\ start' <= current' /\ (current' - start') % interval' = 0
  <2> SUFFICES ASSUME Running' PROVE i > 0 /\ s <= s /\ (s - s) % i = 0
    BY <1>1
  <2>1. i > 0
    BY <1>1, <1>2 DEF Running
  <2> QED
    BY <1>2, <2>1
<1>7. QueryInv'
  BY <1>1, <1>2, <1>3, <1>6 DEF QueryInv
<1> QED
  BY <1>5, <1>7

LEMMA WaitStep ==
    ASSUME SampleInv, UNCHANGED <<feed, start, interval, current, rows, fallback>>,
           status' = "ok" => status = "ok" /\ UNCHANGED <<request, found>>,
           \/ range' \in {"done", "error"}
           \/ range = "sample" /\ range' = "serve" /\ hourCache' = HourOf(current)
           \/ /\ range = "serve" /\ range' = "lookup" /\ rows = <<>>
              /\ AtOrBefore(current) = {} /\ request' = current - 1
    PROVE  QueryInv' /\ RowsAscending' /\ InHourSamplesServed'
<1>1. RowsAscending' /\ InHourSamplesServed'
  BY ServedAsItWas
<1>2. \A t \in Int : AtOrBefore(t)' = AtOrBefore(t)
  BY FeedAsItWas
<1>3. current \in Int
  BY DEF SampleInv, LookupInv, LookupTypes
<1>4. AtOrBefore(current)' = AtOrBefore(current)
  BY DEF AtOrBefore, Ticks, HourStart, HourOf, TargetOf
<1>5. HourOf(current)' = HourOf(current)
  BY DEF HourOf
<1>6. status' = "ok" => \E x \in Int : x <= request' /\ found' \in AtOrBefore(x)'
  BY <1>2 DEF SampleInv, QueryInv
<1>7. rows' # <<>> => \E x \in Int : x <= current' /\ Last(rows') \in AtOrBefore(x)'
  BY <1>2 DEF SampleInv, QueryInv
<1>8. Running' => interval' > 0 /\ start' <= current' /\ (current' - start') % interval' = 0
  BY DEF SampleInv, QueryInv, Running
<1>9. QueryInv'
  BY <1>4, <1>5, <1>6, <1>7, <1>8 DEF SampleInv, QueryInv
<1> QED
  BY <1>1, <1>9

(* A lookup runs, on its own or for a sample.                              *)
LEMMA SearchStep ==
    ASSUME SampleInv, UNCHANGED rangeVars,
           Search \/ (range = "idle" /\ \E t \in Requests : Ask(t))
    PROVE  QueryInv' /\ RowsAscending' /\ InHourSamplesServed'
<1>1. /\ UNCHANGED <<feed, start, interval, current, rows, fallback, range, hourCache>>
      /\ range = "lookup" => request' = request
      /\ status' = "ok" => Answer
  BY DEF rangeVars, Search, Answer, StepBack, GiveUp, FetchFails, End, Ask
<1>2. RowsAscending' /\ InHourSamplesServed'
  BY <1>1, ServedAsItWas
<1>3. \A t \in Int : AtOrBefore(t)' = AtOrBefore(t)
  BY <1>1, FeedAsItWas
<1>4. AtOrBefore(current)' = AtOrBefore(current) /\ HourOf(current)' = HourOf(current)
  BY <1>1 DEF AtOrBefore, Ticks, HourStart, HourOf, TargetOf
<1>5. status' = "ok" => \E x \in Int : x <= request' /\ found' \in AtOrBefore(x)'
  <2> SUFFICES ASSUME Answer PROVE \E x \in Int : x <= request' /\ found' \in AtOrBefore(x)'
    BY <1>1
  <2>1. /\ status = "search" /\ AtOrBefore(query) # {} /\ found' = Max(AtOrBefore(query))
        /\ request' = request
    BY DEF Answer, End
  <2>2. LookupInv /\ query \in Int /\ FeedOK
    BY DEF SampleInv, LookupInv, LookupTypes
  <2>3. query <= request
    BY <2>1, <2>2, FoundIsLatest
  <2>4. found' \in AtOrBefore(query)
    BY <2>1, <2>2, LatestOfHour
  <2> QED
    BY <1>3, <2>1, <2>2, <2>3, <2>4
<1>6. rows' # <<>> => \E x \in Int : x <= current' /\ Last(rows') \in AtOrBefore(x)'
  BY <1>1, <1>3 DEF SampleInv, QueryInv
<1>7. QueryInv'
  BY <1>1, <1>4, <1>5, <1>6 DEF SampleInv, QueryInv, Running
<1> QED
  BY <1>2, <1>7

(* A closed hour is passed over; a sample is served from what is known,    *)
(* or from what a lookup found.                                            *)
LEMMA SkipStep ==
    ASSUME SampleInv, SkipClosed PROVE QueryInv' /\ RowsAscending' /\ InHourSamplesServed'
<1>1. /\ range = "sample" /\ ~Wanted(current) /\ Advance
      /\ UNCHANGED <<feed, request, status, found, start, interval, rows, fallback>>
  BY DEF SkipClosed, lookupVars
<1>2. rows' \in Seq(Int) /\ RowsAscending' /\ ToSet(rows) \subseteq ToSet(rows')
  BY <1>1 DEF SampleInv, QueryInv, RowsAscending
<1>3. rows' # <<>> => \E x \in Int : x <= current /\ Last(rows') \in AtOrBefore(x)
  BY <1>1 DEF SampleInv, QueryInv
<1>4. rows' = <<>> => fallback'.row = Nothing
  BY <1>1 DEF SampleInv, QueryInv
<1>5. Running
  BY <1>1 DEF Running
<1> QED
  BY <1>1, <1>2, <1>3, <1>4, <1>5, PassStep

LEMMA Served ==
    ASSUME SampleInv, Serve
    PROVE  \/ /\ AtOrBefore(current) # {} /\ Known = Max(AtOrBefore(current))
              /\ Known \in AtOrBefore(current) /\ Known \in Int
              /\ rows # <<>> => Last(rows) <= Known
           \/ AtOrBefore(current) = {} /\ rows # <<>> /\ rows' = rows
<1>1. range = "serve" /\ Known # Nothing /\ Push(Known)
  BY DEF Serve
<1>2. /\ FeedOK /\ current \in Int /\ rows \in Seq(Int) /\ hourCache = HourOf(current)
      /\ rows # <<>> => \E x \in Int : x <= current /\ Last(rows) \in AtOrBefore(x)
      /\ rows = <<>> => fallback.row = Nothing
  BY <1>1 DEF SampleInv, LookupInv, LookupTypes, QueryInv
<1>3. CASE AtOrBefore(current) # {}
  <2> DEFINE m == Max(AtOrBefore(current))
  <2>1. Known = m
    BY <1>2, <1>3, InHourIsLatest DEF Known
  <2>2. m \in AtOrBefore(current) /\ m \in Int
    BY <1>2, <1>3, LatestOfHour, TicksAreNotNegative
  <2>3. rows # <<>> => Last(rows) <= m
    BY <1>2, <1>3, LatestGrows
  <2> QED
    BY <1>3, <2>1, <2>2, <2>3
<1>4. CASE AtOrBefore(current) = {}
  <2>1. InHour = Nothing
    BY <1>2, <1>4, InHourIsLatest
  <2>2. rows # <<>>
    <3> SUFFICES ASSUME rows = <<>> PROVE Known = Nothing
      BY <1>1
    <3> QED
      BY <1>2, <2>1 DEF Known, CarriedOver, Remembered
  <2>3. PICK x \in Int : x <= current /\ Last(rows) \in AtOrBefore(x)
    BY <1>2, <2>2
  <2>4. Last(rows) \in Nat /\ Last(rows) <= x
    BY <1>2, <2>3, TicksAreNotNegative, AtOrBeforeWithin
  <2>5. Last(rows) <= current /\ Last(rows) # Nothing
    BY <1>2, <2>3, <2>4 DEF Nothing
  <2>6. Known = Last(rows)
    BY <2>1, <2>2, <2>5 DEF Known, CarriedOver
  <2>7. rows' = rows
    BY <1>1, <2>2, <2>6 DEF Push
  <2> QED
    BY <1>4, <2>2, <2>7
<1> QED
  BY <1>3, <1>4

LEMMA ServeStep ==
    ASSUME SampleInv, Serve PROVE QueryInv' /\ RowsAscending' /\ InHourSamplesServed'
<1>1. /\ Running /\ Known # Nothing /\ Push(Known) /\ Advance
      /\ UNCHANGED <<feed, request, status, found, start, interval, fallback>>
  BY DEF Serve, lookupVars, Running
<1>2. /\ current \in Int /\ rows \in Seq(Int) /\ RowsAscending
      /\ rows # <<>> => \E x \in Int : x <= current /\ Last(rows) \in AtOrBefore(x)
  BY <1>1 DEF SampleInv, LookupInv, LookupTypes, QueryInv
<1>3. CASE AtOrBefore(current) # {}
  <2>1. /\ Known = Max(AtOrBefore(current)) /\ Known \in AtOrBefore(current) /\ Known \in Int
        /\ rows # <<>> => Last(rows) <= Known
    BY <1>3, Served
  <2>2. /\ rows' \in Seq(Int) /\ rows' # <<>> /\ Last(rows') = Known /\ RowsAscending'
        /\ ToSet(rows) \subseteq ToSet(rows') /\ Known \in ToSet(rows')
    BY <1>1, <1>2, <2>1, PushStep
  <2>3. current <= current /\ Last(rows') \in AtOrBefore(current)
    BY <1>2, <2>1, <2>2
  <2>4. Max(AtOrBefore(current)) \in ToSet(rows')
    BY <2>1, <2>2
  <2> QED
    BY <1>1, <1>2, <2>2, <2>3, <2>4, PassStep
<1>4. CASE AtOrBefore(current) = {}
  <2>1. rows # <<>> /\ rows' = rows
    BY <1>4, Served
  <2>2. /\ rows' \in Seq(Int) /\ RowsAscending' /\ ToSet(rows) \subseteq ToSet(rows')
        /\ rows' # <<>>
        /\ \E y \in Int : y <= current /\ Last(rows') \in AtOrBefore(y)
    BY <1>2, <2>1 DEF RowsAscending
  <2> QED
    BY <1>1, <1>4, <2>2, PassStep
<1> QED
  BY <1>3, <1>4

LEMMA LookBackStep ==
    ASSUME SampleInv, LookBack PROVE QueryInv' /\ RowsAscending' /\ InHourSamplesServed'
<1>1. /\ range = "serve" /\ Known = Nothing /\ range' = "lookup"
      /\ request' = current - 1 /\ status' = "search"
      /\ UNCHANGED <<feed, start, interval, current, rows, fallback>>
  BY DEF LookBack, Ask
<1>2. /\ FeedOK /\ current \in Int /\ hourCache = HourOf(current)
      /\ rows # <<>> => \E x \in Int : x <= current /\ Last(rows) \in AtOrBefore(x)
  BY <1>1 DEF SampleInv, LookupInv, LookupTypes, QueryInv
<1>3. InHour = Nothing
  BY <1>1 DEF Known
<1>4. AtOrBefore(current) = {}
  BY <1>2, <1>3, InHourIsLatest
<1>5. rows = <<>>
  <2> SUFFICES ASSUME rows # <<>> PROVE FALSE
    OBVIOUS
  <2>1. PICK x \in Int : x <= current /\ Last(rows) \in AtOrBefore(x)
    BY <1>2
  <2>2. Last(rows) \in Nat /\ Last(rows) <= x
    BY <1>2, <2>1, TicksAreNotNegative, AtOrBeforeWithin
  <2>3. Last(rows) <= current /\ Last(rows) # Nothing
    BY <1>2, <2>1, <2>2 DEF Nothing
  <2>4. Known = Last(rows)
    BY <1>3, <2>3 DEF Known, CarriedOver
  <2> QED
    BY <1>1, <2>3, <2>4
<1> QED
  BY <1>1, <1>4, <1>5, WaitStep

LEMMA LookedBackStep ==
    ASSUME SampleInv, LookedBack PROVE QueryInv' /\ RowsAscending' /\ InHourSamplesServed'
<1> DEFINE row == IF status = "ok" THEN found ELSE Nothing
<1>1. /\ range = "lookup" /\ Push(row) /\ fallback'.row = row /\ Advance /\ status' = "idle"
      /\ UNCHANGED <<feed, start, interval>>
  BY DEF LookedBack
<1>2. /\ FeedOK /\ current \in Int /\ rows = <<>> /\ AtOrBefore(current) = {}
      /\ RowsAscending /\ request = current - 1
      /\ status = "ok" => \E x \in Int : x <= request /\ found \in AtOrBefore(x)
  BY <1>1 DEF SampleInv, LookupInv, LookupTypes, QueryInv
<1>3. Running
  BY <1>1 DEF Running
<1>4. CASE status = "ok"
  <2>1. PICK x \in Int : x <= current - 1 /\ found \in AtOrBefore(x)
    BY <1>2, <1>4
  <2>2. found \in Nat /\ found # Nothing /\ row = found
    <3>1. found \in Nat
      BY <1>2, <2>1, TicksAreNotNegative
    <3> QED
      BY <1>4, <3>1 DEF Nothing
  <2>3. /\ rows' \in Seq(Int) /\ rows' # <<>> /\ Last(rows') = found /\ RowsAscending'
        /\ ToSet(rows) \subseteq ToSet(rows')
    <3>1. Push(found) /\ found \in Int
      BY <1>1, <2>2
    <3>2. rows \in Seq(Int)
      BY <1>2
    <3> QED
      BY <1>2, <2>2, <3>1, <3>2, PushStep
  <2>4. x <= current /\ Last(rows') \in AtOrBefore(x)
    BY <1>2, <2>1, <2>3
  <2> QED
    BY <1>1, <1>2, <1>3, <2>3, <2>4, PassStep
<1>5. CASE status # "ok"
  <2>1. row = Nothing /\ rows' = rows
    BY <1>1, <1>5 DEF Push
  <2>2. /\ rows' \in Seq(Int) /\ RowsAscending' /\ ToSet(rows) \subseteq ToSet(rows')
        /\ rows' = <<>> /\ fallback'.row = Nothing
    BY <1>1, <1>2, <2>1 DEF RowsAscending
  <2> QED
    BY <1>1, <1>2, <1>3, <2>2, PassStep
<1> QED
  BY <1>4, <1>5

LEMMA SampleNextInv == SampleInv /\ [Next]_vars => SampleInv'
<1> SUFFICES ASSUME SampleInv, [Next]_vars
             PROVE  QueryInv' /\ RowsAscending' /\ InHourSamplesServed'
  BY LookupNextInv DEF SampleInv
<1>1. ASSUME NEW s \in Starts, NEW e \in Ends, NEW i \in Intervals, Query(s, e, i)
      PROVE  QueryInv' /\ RowsAscending' /\ InHourSamplesServed'
  BY <1>1, QueryStep
<1>2. CASE SkipClosed
  BY <1>2, SkipStep
<1>3. CASE HoldHour
  BY <1>3, WaitStep DEF HoldHour, lookupVars
<1>4. CASE HourFails \/ LookBackFails \/ Finish
  BY <1>4, WaitStep DEF HourFails, LookBackFails, Finish, lookupVars
<1>5. CASE Serve
  BY <1>5, ServeStep
<1>6. CASE LookBack
  BY <1>6, LookBackStep
<1>7. CASE LookedBack
  BY <1>7, LookedBackStep
<1>8. ASSUME UNCHANGED rangeVars, Search \/ (range = "idle" /\ \E t \in Requests : Ask(t))
      PROVE  QueryInv' /\ RowsAscending' /\ InHourSamplesServed'
  BY <1>8, SearchStep
<1>9. CASE UNCHANGED vars
  <2>1. UNCHANGED <<feed, request, query, attempts, status, found,
                    range, start, end, interval, current, hourCache, fallback, rows>>
    BY <1>9 DEF vars, lookupVars, rangeVars
  <2>2. RowsAscending' /\ InHourSamplesServed'
    BY <2>1, ServedAsItWas
  <2>3. \A t \in Int : AtOrBefore(t)' = AtOrBefore(t)
    BY <2>1, FeedAsItWas
  <2>4. AtOrBefore(current)' = AtOrBefore(current) /\ HourOf(current)' = HourOf(current)
    BY <2>1 DEF AtOrBefore, Ticks, HourStart, HourOf, TargetOf
  <2>5. QueryInv'
    BY <2>1, <2>3, <2>4 DEF SampleInv, QueryInv, Running
  <2> QED
    BY <2>2, <2>5
<1> QED
  BY <1>1, <1>2, <1>3, <1>4, <1>5, <1>6, <1>7, <1>8, <1>9 DEF Next, RangeNext

(* The rows of a range come out in strictly ascending order of time, none  *)
(* twice: get_exchange_rates_range never steps back when it passes from    *)
(* the ticks of an hour to the row carried over and on to the next hour.   *)
THEOREM RowsAscend == Spec => []RowsAscending
<1>1. SampleInv => RowsAscending
  BY DEF SampleInv
<1> QED
  BY <1>1, QueryStarts, SampleNextInv, PTL DEF Spec

(* A sample whose own hour has a tick at or before it yields the last such *)
(* tick: neither the hour that is held nor the row that is carried over    *)
(* hides it.                                                               *)
THEOREM InHourServed == Spec => []InHourSamplesServed
<1>1. SampleInv => InHourSamplesServed
  BY DEF SampleInv
<1> QED
  BY <1>1, QueryStarts, SampleNextInv, PTL DEF Spec

-----------------------------------------------------------------------------
(* Why each row is there, and why there may be none: what a lookup in      *)
(* progress was asked for is wanted, and a query without a row has found   *)
(* nothing for any sample so far.                                          *)
LookupFound == status = "ok" => found = LookupFinds(request)

NothingSoFar ==
    rows = <<>> => \A t \in Samples : AtOrBefore(t) = {} /\ LookupFinds(t - 1) = Nothing

SampleWanted == range \in {"serve", "lookup"} => Wanted(current)

RowInv == SampleInv /\ LookupFound /\ SampleWanted /\ NothingSoFar /\ RowsJustified

LEMMA RowsStart == Init => RowInv
<1> SUFFICES ASSUME Init PROVE RowInv
  OBVIOUS
<1>1. rows = <<>> /\ range = "idle" /\ status = "idle" /\ start = 0 /\ current = 0
  BY DEF Init, LookupInit
<1>2. LookupFound /\ SampleWanted /\ NothingSoFar /\ RowsJustified
  BY <1>1 DEF LookupFound, SampleWanted, NothingSoFar, RowsJustified, Samples
<1> QED
  BY <1>2, QueryStarts DEF RowInv

LEMMA FindsAsItWas ==
    ASSUME feed' = feed PROVE \A t \in Int : LookupFinds(t)' = LookupFinds(t)
BY DEF LookupFinds, Latest, Reachable, Effective, LastAvailable, IsOpen, HourOf, Ticks,
       AtOrBefore, HourStart, TargetOf

(* What a lookup answers with is what the feed holds for it.               *)
LEMMA FoundStep ==
    ASSUME LookupInv, Answer PROVE found' = LookupFinds(request)'
<1> DEFINE from == Effective(request)
<1>1. /\ status = "search" /\ AtOrBefore(query) # {} /\ found' = Max(AtOrBefore(query))
      /\ request' = request /\ feed' = feed
  BY DEF Answer, End
<1>2. found' = Max(Reachable(from))
  BY <1>1, FoundIsLatest
<1>3. Ticks(HourOf(from)) # {} /\ Reachable(from) # {}
  <2>1. request \in Int /\ attempts \in Nat /\ MaxBacktrack \in Nat
    BY LookupAssumption, HourAssumption DEF LookupInv, LookupTypes
  <2>2. from \in Int /\ HourOf(from) \in Int
    BY <2>1, EffectiveBefore, HourOfTime
  <2>3. attempts <= MaxBacktrack
    BY <1>1 DEF LookupInv, Searched
  <2>4. CASE attempts = 0
    <3>1. AtOrBefore(from) # {}
      BY <1>1, <2>4 DEF LookupInv, Searched
    <3>2. Ticks(HourOf(from)) # {}
      BY <3>1 DEF AtOrBefore
    <3> QED
      BY <3>1, <3>2 DEF Reachable
  <2>5. CASE attempts > 0
    <3>1. Ticks(HourOf(from)) # {} /\ query = (HourOf(from) - attempts + 1) * HourLen - 1
      BY <1>1, <2>5 DEF LookupInv, Searched
    <3>2. HourOf(from) - attempts + 1 \in (HourOf(from) - MaxBacktrack + 1)..HourOf(from)
      <4> DEFINE H == HourOf(from)
      <4>1. H \in Int
        BY <2>2
      <4> HIDE DEF H
      <4>2. H - attempts + 1 \in (H - MaxBacktrack + 1)..H
        BY <2>1, <2>3, <2>5, <4>1
      <4> QED
        BY <4>2 DEF H
    <3>3. AtOrBefore(query) \subseteq Reachable(from)
      BY <3>1, <3>2 DEF Reachable
    <3> QED
      BY <1>1, <3>1, <3>3
  <2> QED
    BY <2>1, <2>4, <2>5
<1>4. found' = LookupFinds(request)
  BY <1>2, <1>3 DEF LookupFinds, Latest
<1>5. LookupFinds(request)' = LookupFinds(request)
  BY <1>1 DEF LookupFinds, Latest, Reachable, Effective, LastAvailable, IsOpen, HourOf, Ticks,
              AtOrBefore, HourStart, TargetOf
<1> QED
  BY <1>4, <1>5

(* A step that passes no sample.                                           *)
LEMMA RowsAsTheyWere ==
    ASSUME RowInv, UNCHANGED <<feed, start, interval, current, rows>>,
           \/ status' = "ok" => status = "ok" /\ UNCHANGED <<request, found>>
           \/ Answer,
           range' \in {"serve", "lookup"} => range \in {"serve", "lookup"} \/ Wanted(current)
    PROVE  LookupFound' /\ SampleWanted' /\ NothingSoFar' /\ RowsJustified'
<1>1. Samples' = Samples
  BY DEF Samples, Wanted, IsOpen, HourOf
<1>2. LookupInv /\ request \in Int /\ \A t \in Samples : t \in Int /\ t - 1 \in Int
  BY DEF Samples, RowInv, SampleInv, LookupInv, LookupTypes, QueryInv
<1>3. \A t \in Samples : AtOrBefore(t)' = AtOrBefore(t) /\ LookupFinds(t - 1)' = LookupFinds(t - 1)
  <2>1. \A t \in Int : AtOrBefore(t)' = AtOrBefore(t)
    BY FeedAsItWas
  <2>2. \A t \in Int : LookupFinds(t)' = LookupFinds(t)
    BY FindsAsItWas
  <2> QED
    BY <1>2, <2>1, <2>2
<1>4. LookupFound'
  <2>1. CASE Answer
    BY <1>2, <2>1, FoundStep DEF LookupFound
  <2>2. CASE status' = "ok" => status = "ok" /\ UNCHANGED <<request, found>>
    <3> SUFFICES ASSUME status' = "ok" PROVE found' = LookupFinds(request)'
      BY DEF LookupFound
    <3>1. status = "ok" /\ request' = request /\ found' = found
      BY <2>2
    <3>2. found = LookupFinds(request)
      BY <3>1 DEF RowInv, LookupFound
    <3>3. LookupFinds(request)' = LookupFinds(request)
      BY <3>1 DEF LookupFinds, Latest, Reachable, Effective, LastAvailable, IsOpen, HourOf,
                  Ticks, AtOrBefore, HourStart, TargetOf
    <3> QED
      BY <3>1, <3>2, <3>3
  <2> QED
    BY <2>1, <2>2
<1>5. SampleWanted'
  BY DEF RowInv, SampleWanted, Wanted, IsOpen, HourOf
<1>6. NothingSoFar'
  BY <1>1, <1>3 DEF RowInv, NothingSoFar
<1>7. RowsJustified'
  <2>1. \A t \in Samples : Latest(AtOrBefore(t))' = Latest(AtOrBefore(t))
    BY <1>3 DEF Latest
  <2> QED
    BY <1>1, <1>3, <2>1 DEF RowInv, RowsJustified
<1> QED
  BY <1>4, <1>5, <1>6, <1>7

(* A step that passes the next sample, with a row for it or without.       *)
LEMMA RowsPass ==
    ASSUME RowInv, Running, UNCHANGED <<feed, start, interval>>, Advance,
           NEW row \in Int,
           status' = "ok" => status = "ok" /\ UNCHANGED <<request, found>>,
           \/ /\ rows' = rows
              /\ \/ rows # <<>> \/ ~Wanted(current)
                 \/ AtOrBefore(current) = {} /\ LookupFinds(current - 1) = Nothing
           \/ /\ rows' = Append(rows, row) /\ Wanted(current)
              /\ \/ row = Latest(AtOrBefore(current))
                 \/ rows = <<>> /\ row = LookupFinds(current - 1)
    PROVE  LookupFound' /\ SampleWanted' /\ NothingSoFar' /\ RowsJustified'
<1>1. /\ LookupInv /\ request \in Int /\ current \in Int /\ rows \in Seq(Int)
      /\ start \in Int /\ interval \in Int /\ interval > 0
      /\ start <= current /\ (current - start) % interval = 0
      /\ current' = current + interval /\ range' = "sample"
  BY DEF RowInv, SampleInv, LookupInv, LookupTypes, QueryInv, Advance
<1>2. /\ Samples' \subseteq Samples \cup {current}
      /\ Wanted(current) \/ Samples' \subseteq Samples
      /\ Samples \subseteq Samples'
      /\ Wanted(current) => current \in Samples'
  BY <1>1, SamplesGrow
<1>3. \A t \in Samples \cup {current} : t \in Int /\ t - 1 \in Int
  BY <1>1 DEF Samples
<1>4. /\ \A t \in Int : AtOrBefore(t)' = AtOrBefore(t)
      /\ \A t \in Int : LookupFinds(t)' = LookupFinds(t)
  BY FeedAsItWas, FindsAsItWas
<1>5. LookupFound'
  BY <1>1, <1>4 DEF RowInv, LookupFound
<1>6. SampleWanted'
  BY <1>1 DEF SampleWanted
<1>7. ASSUME rows' = <<>>, NEW t \in Samples'
      PROVE  AtOrBefore(t)' = {} /\ LookupFinds(t - 1)' = Nothing
  <2>1. /\ rows' = rows /\ rows = <<>>
        /\ ~Wanted(current) \/ (AtOrBefore(current) = {} /\ LookupFinds(current - 1) = Nothing)
    <3>1. Append(rows, row) # <<>>
      BY <1>1
    <3> QED
      BY <1>1, <1>7, <3>1
  <2>2. \A u \in Samples : AtOrBefore(u) = {} /\ LookupFinds(u - 1) = Nothing
    BY <2>1 DEF RowInv, NothingSoFar
  <2>3. AtOrBefore(t) = {} /\ LookupFinds(t - 1) = Nothing
    BY <1>2, <1>7, <2>1, <2>2
  <2>4. t \in Int /\ t - 1 \in Int
    BY <1>2, <1>3, <1>7
  <2>5. AtOrBefore(t)' = AtOrBefore(t) /\ LookupFinds(t - 1)' = LookupFinds(t - 1)
    BY <1>4, <2>4
  <2> QED
    BY <2>3, <2>5
<1>8. NothingSoFar'
  <2> SUFFICES ASSUME rows' = <<>>, NEW t \in Samples'
               PROVE  AtOrBefore(t)' = {} /\ LookupFinds(t - 1)' = Nothing
    BY DEF NothingSoFar
  <2> QED
    BY <1>7
<1>9. \A t \in Samples \cup {current} :
          /\ Latest(AtOrBefore(t)') = Latest(AtOrBefore(t))
          /\ LookupFinds(t - 1)' = LookupFinds(t - 1)
  BY <1>3, <1>4
<1>10. ASSUME NEW i \in DOMAIN rows'
       PROVE  \E t \in Samples' : \/ rows'[i] = Latest(AtOrBefore(t)')
                                  \/ i = 1 /\ rows'[i] = LookupFinds(t - 1)'
  <2>1. CASE i \in DOMAIN rows /\ rows'[i] = rows[i]
    <3>1. PICK t \in Samples : \/ rows[i] = Latest(AtOrBefore(t))
                               \/ i = 1 /\ rows[i] = LookupFinds(t - 1)
      BY <2>1 DEF RowInv, RowsJustified
    <3> QED
      BY <1>2, <1>9, <2>1, <3>1
  <2>2. CASE ~(i \in DOMAIN rows /\ rows'[i] = rows[i])
    <3>1. /\ rows' = Append(rows, row) /\ Wanted(current)
          /\ \/ row = Latest(AtOrBefore(current))
             \/ rows = <<>> /\ row = LookupFinds(current - 1)
      BY <1>10, <2>2
    <3>2. i = Len(rows) + 1 /\ rows'[i] = row
      BY <1>1, <1>10, <2>2, <3>1
    <3>3. rows = <<>> => i = 1
      BY <3>2
    <3>4. current \in Samples'
      BY <1>2, <3>1
    <3> QED
      BY <1>9, <3>1, <3>2, <3>3, <3>4
  <2> QED
    BY <2>1, <2>2
<1>11. RowsJustified'
  <2> SUFFICES ASSUME NEW i \in DOMAIN rows'
               PROVE  \E t \in Samples' : \/ rows'[i] = Latest(AtOrBefore(t)')
                                          \/ i = 1 /\ rows'[i] = LookupFinds(t - 1)'
    BY DEF RowsJustified, Latest
  <2> QED
    BY <1>10
<1> QED
  BY <1>5, <1>6, <1>8, <1>11

LEMMA RowServed ==
    ASSUME RowInv, Serve PROVE LookupFound' /\ SampleWanted' /\ NothingSoFar' /\ RowsJustified'
<1>1. /\ Running /\ Wanted(current) /\ Push(Known) /\ Advance /\ SampleInv /\ Known # Nothing
      /\ UNCHANGED <<feed, request, status, found, start, interval>>
  BY DEF Serve, lookupVars, Running, RowInv, SampleWanted
<1>2. CASE AtOrBefore(current) # {}
  <2>1. Known = Max(AtOrBefore(current)) /\ Known \in Int
    BY <1>1, <1>2, Served
  <2>2. Known = Latest(AtOrBefore(current))
    BY <1>2, <2>1 DEF Latest
  <2>3. (rows' = rows /\ rows # <<>>) \/ rows' = Append(rows, Known)
    BY <1>1 DEF Push
  <2> HIDE DEF Known
  <2> QED
    BY <1>1, <2>1, <2>2, <2>3, RowsPass
<1>3. CASE AtOrBefore(current) = {}
  <2>1. rows # <<>> /\ rows' = rows
    BY <1>1, <1>3, Served
  <2>2. 0 \in Int
    OBVIOUS
  <2> QED
    BY <1>1, <2>1, <2>2, RowsPass
<1> QED
  BY <1>2, <1>3

LEMMA RowFound ==
    ASSUME RowInv, LookedBack
    PROVE  LookupFound' /\ SampleWanted' /\ NothingSoFar' /\ RowsJustified'
<1>1. /\ Running /\ Wanted(current) /\ Advance /\ status' = "idle"
      /\ Push(IF status = "ok" THEN found ELSE Nothing)
      /\ status \in {"ok", "notfound"}
      /\ UNCHANGED <<feed, start, interval>>
  BY DEF LookedBack, Running, RowInv, SampleWanted
<1>2. /\ FeedOK /\ current \in Int /\ rows = <<>> /\ AtOrBefore(current) = {}
      /\ request = current - 1
      /\ status = "ok" => \E x \in Int : x <= request /\ found \in AtOrBefore(x)
  BY DEF LookedBack, RowInv, SampleInv, LookupInv, LookupTypes, QueryInv
<1>3. CASE status = "ok"
  <2>1. found = LookupFinds(current - 1)
    BY <1>2, <1>3 DEF RowInv, LookupFound
  <2>2. found \in Nat
    BY <1>2, <1>3, TicksAreNotNegative
  <2>3. found \in Int /\ found # Nothing
    BY <2>2 DEF Nothing
  <2>4. rows' = Append(rows, found)
    BY <1>1, <1>2, <1>3, <2>3 DEF Push
  <2> QED
    BY <1>1, <1>2, <2>1, <2>3, <2>4, RowsPass
<1>4. CASE status = "notfound"
  <2>1. rows' = rows
    BY <1>1, <1>4 DEF Push
  <2>2. LookupFinds(current - 1) = Nothing
    <3>1. \/ Ticks(HourOf(Effective(request))) = {} \/ Reachable(Effective(request)) = {}
      BY <1>4 DEF RowInv, SampleInv, LookupInv, NotFoundIsRight
    <3>2. LookupFinds(request) = Nothing
      BY <3>1 DEF LookupFinds, Latest
    <3> QED
      BY <1>2, <3>2
  <2>3. 0 \in Int
    OBVIOUS
  <2> QED
    BY <1>1, <1>2, <2>1, <2>2, <2>3, RowsPass
<1> QED
  BY <1>1, <1>3, <1>4

LEMMA RowNextInv == RowInv /\ [Next]_vars => RowInv'
<1> SUFFICES ASSUME RowInv, [Next]_vars
             PROVE  LookupFound' /\ SampleWanted' /\ NothingSoFar' /\ RowsJustified'
  BY SampleNextInv DEF RowInv
<1>1. ASSUME NEW s \in Starts, NEW e \in Ends, NEW i \in Intervals, Query(s, e, i)
      PROVE  LookupFound' /\ SampleWanted' /\ NothingSoFar' /\ RowsJustified'
  <2>1. /\ status' = "idle" /\ start' = s /\ current' = s /\ rows' = rows /\ rows = <<>>
        /\ range' \in {"invalid", "sample"}
    BY <1>1 DEF Query, lookupVars, RowInv, SampleInv, QueryInv
  <2>2. Samples' = {}
    BY <2>1, RangeAssumption DEF Samples
  <2> QED
    BY <2>1, <2>2 DEF LookupFound, SampleWanted, NothingSoFar, RowsJustified
<1>2. CASE SkipClosed
  <2>1. /\ Running /\ ~Wanted(current) /\ Advance /\ rows' = rows
        /\ UNCHANGED <<feed, request, status, found, start, interval>>
    BY <1>2 DEF SkipClosed, lookupVars, Running
  <2>2. 0 \in Int
    OBVIOUS
  <2> QED
    BY <2>1, <2>2, RowsPass
<1>3. CASE HoldHour
  BY <1>3, RowsAsTheyWere DEF HoldHour, lookupVars
<1>4. CASE HourFails \/ LookBackFails \/ Finish
  BY <1>4, RowsAsTheyWere DEF HourFails, LookBackFails, Finish, lookupVars
<1>5. CASE Serve
  BY <1>5, RowServed
<1>6. CASE LookBack
  BY <1>6, RowsAsTheyWere DEF LookBack, Ask
<1>7. CASE LookedBack
  BY <1>7, RowFound
<1>8. ASSUME UNCHANGED rangeVars, Search \/ \E t \in Requests : Ask(t)
      PROVE  LookupFound' /\ SampleWanted' /\ NothingSoFar' /\ RowsJustified'
  <2>1. UNCHANGED <<start, interval, current, rows, range>>
    BY <1>8 DEF rangeVars
  <2>2. UNCHANGED feed /\ (status' = "ok" => Answer)
    BY <1>8 DEF Search, Answer, StepBack, GiveUp, FetchFails, End, Ask
  <2> QED
    BY <2>1, <2>2, RowsAsTheyWere
<1>9. CASE UNCHANGED vars
  BY <1>9, RowsAsTheyWere DEF vars, lookupVars, rangeVars
<1> QED
  BY <1>1, <1>2, <1>3, <1>4, <1>5, <1>6, <1>7, <1>8, <1>9 DEF Next, RangeNext

(* Every row is the tick of some sample's hour, or the first row and the   *)
(* tick a lookup from just before a sample finds: a row is never made up   *)
(* from the ticks of one hour and the start of another.                    *)
THEOREM RowsAreJustified == Spec => []RowsJustified
<1>1. RowInv => RowsJustified
  BY DEF RowInv
<1> QED
  BY <1>1, RowsStart, RowNextInv, PTL DEF Spec

(* A query that ends without a row had none to give: a fallback that found *)
(* nothing for one sample does not silence a later sample of that hour.    *)
THEOREM EmptyMeansNothing == Spec => []EmptyIsRight
<1>1. RowInv => EmptyIsRight
  BY DEF RowInv, NothingSoFar, EmptyIsRight
<1> QED
  BY <1>1, RowsStart, RowNextInv, PTL DEF Spec

-----------------------------------------------------------------------------
(* Hours, ticks and rows are natural numbers, or none.                     *)
LEMMA HourIsNatural ==
    ASSUME NEW t \in Nat
    PROVE  HourOf(t) \in Nat
<1>1. HourOf(t) \in Int /\ HourStart(t) = HourOf(t) * HourLen /\ t % HourLen = t - HourStart(t)
      /\ t % HourLen \in 0..(HourLen - 1) /\ HourStart(t) \in Int
  BY HourOfTime
<1>2. HourLen \in Nat \ {0}
  BY LookupAssumption, HourAssumption
<1>3. t < HourOf(t) * HourLen + HourLen
  BY <1>1, <1>2
<1>4. SUFFICES ASSUME HourOf(t) < 0 PROVE FALSE
  BY <1>1
<1>5. HourOf(t) + 1 \in Int /\ HourOf(t) + 1 <= 0
  BY <1>1, <1>4
<1>6. (HourOf(t) + 1) * HourLen <= 0 * HourLen
  BY <1>5, HoursInOrder
<1>7. (HourOf(t) + 1) * HourLen = HourOf(t) * HourLen + HourLen
  BY <1>1, <1>2
<1> QED
  BY <1>1, <1>2, <1>3, <1>6, <1>7

LEMMA FirstHeldTyped ==
    ASSUME FeedOK
    PROVE  FirstHeld \in Offsets \cup {Nothing}
<1>1. CASE Ticks(hourCache) = {}
  BY <1>1 DEF FirstHeld
<1>2. CASE Ticks(hourCache) # {}
  <2> DEFINE R == OpToRel(<, Nat)
  <2>1. IsWellFoundedOn(R, Nat)
    BY NatLessThanWellFounded
  <2>2. \A x, y \in Nat : x < y => <<x, y>> \in R
    BY DEF OpToRel
  <2> HIDE DEF R
  <2>3. Ticks(hourCache) \subseteq Offsets /\ Offsets \subseteq Nat
    <3>1. feed[hourCache] \in Files
      BY <1>2 DEF FeedOK, Ticks
    <3>2. Ticks(hourCache) \in SUBSET (0..(HourLen - 1))
      BY <1>2, <3>1, LookupAssumption, HourAssumption DEF Ticks
    <3> QED
      BY <3>2 DEF Offsets
  <2>4. Ticks(hourCache) \subseteq Nat
    BY <2>3
  <2>5. PICK x \in Ticks(hourCache) : \A y \in Ticks(hourCache) : ~(<<y, x>> \in R)
    BY <1>2, <2>1, <2>4, WFMin
  <2>6. \A y \in Ticks(hourCache) : x <= y
    <3> SUFFICES ASSUME NEW y \in Ticks(hourCache) PROVE x <= y
      OBVIOUS
    <3>1. x \in Nat /\ y \in Nat /\ ~(y < x)
      BY <2>2, <2>4, <2>5
    <3> QED
      BY <3>1
  <2>7. Min(Ticks(hourCache)) \in Ticks(hourCache)
    BY <2>5, <2>6, Zenon DEF Min
  <2> QED
    BY <1>2, <2>3, <2>7 DEF FirstHeld
<1> QED
  BY <1>1, <1>2

(* A row that is known is a time.                                          *)
LEMMA KnownTyped ==
    ASSUME SampleInv, TypeOK, range = "serve"
    PROVE  Known \in Nat \cup {Nothing}
<1>1. FeedOK /\ current \in Int /\ hourCache = HourOf(current)
  BY DEF SampleInv, LookupInv, LookupTypes, QueryInv
<1>2. InHour \in Nat \cup {Nothing}
  <2>1. CASE AtOrBefore(current) = {}
    BY <1>1, <2>1, InHourIsLatest
  <2>2. CASE AtOrBefore(current) # {}
    <3>1. InHour = Max(AtOrBefore(current)) /\ Max(AtOrBefore(current)) \in AtOrBefore(current)
      BY <1>1, <2>2, InHourIsLatest, LatestOfHour
    <3> QED
      BY <1>1, <3>1, TicksAreNotNegative
  <2> QED
    BY <2>1, <2>2
<1>3. CarriedOver \in Nat \cup {Nothing}
  <2>1. rows \in Seq(Nat) /\ (rows # <<>> => Last(rows) \in Nat)
    BY DEF TypeOK, Last
  <2> QED
    BY <2>1 DEF CarriedOver
<1>4. Remembered \in Nat \cup {Nothing}
  BY DEF Remembered, TypeOK
<1> QED
  BY <1>2, <1>3, <1>4 DEF Known

LEMMA PushTyped ==
    ASSUME rows \in Seq(Nat), NEW row \in Nat \cup {Nothing}, Push(row)
    PROVE  rows' \in Seq(Nat)
<1>1. row = Nothing \/ row \in Nat
  OBVIOUS
<1> QED
  BY <1>1 DEF Push

(* The next sample is at a time.                                           *)
LEMMA NextTyped ==
    ASSUME SampleInv, TypeOK, Running, Advance
    PROVE  current' \in Nat /\ range' = "sample"
BY DEF SampleInv, QueryInv, TypeOK, Advance

(* The type invariant of queries and lookups: no hour, tick or row before  *)
(* time 0, no more steps back than MaxBacktrack.                           *)
THEOREM TypesCorrect == Spec => []TypeOK
<1>1. Init => TypeOK
  BY LookupAssumption, HourAssumption DEF Init, LookupInit, TypeOK, Statuses, NoFallback
<1>2. SampleInv /\ TypeOK /\ [Next]_vars => TypeOK'
  <2> SUFFICES ASSUME SampleInv, TypeOK, [Next]_vars PROVE TypeOK'
    OBVIOUS
  <2>1. FeedOK /\ current \in Int /\ query \in Int
    BY DEF SampleInv, LookupInv, LookupTypes
  <2>2. ASSUME NEW s \in Starts, NEW e \in Ends, NEW i \in Intervals, Query(s, e, i)
        PROVE  TypeOK'
    BY <2>2, RangeAssumption DEF Query, TypeOK, lookupVars
  <2>3. CASE SkipClosed
    <3>1. current' \in Nat /\ range' = "sample"
      BY <2>3, NextTyped DEF SkipClosed, Running
    <3> QED
      BY <2>3, <3>1 DEF SkipClosed, TypeOK, lookupVars
  <2>4. CASE HoldHour
    <3>1. hourCache' \in Nat
      BY <2>4, HourIsNatural DEF HoldHour, TypeOK
    <3> QED
      BY <2>4, <3>1 DEF HoldHour, TypeOK, lookupVars
  <2>5. CASE HourFails \/ LookBackFails \/ Finish
    BY <2>5 DEF HourFails, LookBackFails, Finish, TypeOK, lookupVars
  <2>6. CASE Serve
    <3>1. current' \in Nat /\ range' = "sample"
      BY <2>6, NextTyped DEF Serve, Running
    <3>2. rows' \in Seq(Nat)
      BY <2>6, KnownTyped, PushTyped DEF Serve, TypeOK
    <3> QED
      BY <2>6, <3>1, <3>2 DEF Serve, TypeOK, lookupVars
  <2>7. ASSUME NEW t \in Int, Ask(t),
               UNCHANGED <<start, end, interval, current, hourCache, fallback, rows>>,
               range' \in {range, "lookup"}
        PROVE  TypeOK'
    <3>1. Effective(t) \in Int
      BY EffectiveBefore
    <3>2. 0 \in 0..MaxBacktrack
      BY LookupAssumption, HourAssumption
    <3> QED
      BY <2>7, <3>1, <3>2 DEF Ask, TypeOK, Statuses
  <2>8. CASE LookBack
    <3>1. current - 1 \in Int
      BY <2>1
    <3> QED
      BY <2>7, <2>8, <3>1 DEF LookBack
  <2>9. CASE LookedBack
    <3> DEFINE row == IF status = "ok" THEN found ELSE Nothing
    <3>1. row \in Nat \cup {Nothing}
      BY DEF TypeOK
    <3>2. Push(row) /\ fallback' = [hour |-> HourOf(current), first |-> FirstHeld, row |-> row]
      BY <2>9 DEF LookedBack
    <3> HIDE DEF row
    <3>3. rows' \in Seq(Nat)
      BY <3>1, <3>2, PushTyped DEF TypeOK
    <3>4. HourOf(current) \in Nat /\ FirstHeld \in Offsets \cup {Nothing}
      BY <2>1, HourIsNatural, FirstHeldTyped DEF TypeOK
    <3>5. fallback' \in [hour : Nat \cup {Nothing}, first : Offsets \cup {Nothing},
                         row : Nat \cup {Nothing}]
      BY <3>1, <3>2, <3>4
    <3>6. current' \in Nat /\ range' = "sample"
      BY <2>9, NextTyped DEF LookedBack, Running
    <3> QED
      BY <2>9, <3>3, <3>5, <3>6 DEF LookedBack, TypeOK, Statuses
  <2>10. CASE Search /\ UNCHANGED rangeVars
    <3>1. CASE Answer
      <4>1. found' \in Nat
        BY <2>1, <3>1, LatestOfHour, TicksAreNotNegative DEF Answer
      <4> QED
        BY <2>10, <3>1, <4>1 DEF Answer, End, TypeOK, Statuses, rangeVars
    <3>2. CASE StepBack
      <4>1. attempts' \in 0..MaxBacktrack
        BY <3>2, LookupAssumption, HourAssumption DEF StepBack, TypeOK
      <4>2. HourStart(query) - 1 \in Int
        BY <2>1, HourOfTime
      <4> QED
        BY <2>10, <3>2, <4>1, <4>2 DEF StepBack, TypeOK, rangeVars
    <3>3. CASE GiveUp \/ FetchFails
      BY <2>10, <3>3 DEF GiveUp, FetchFails, End, TypeOK, Statuses, rangeVars
    <3> QED
      BY <2>10, <3>1, <3>2, <3>3 DEF Search
  <2>11. ASSUME NEW t \in Requests, Ask(t), UNCHANGED rangeVars PROVE TypeOK'
    <3>1. t \in Int
      BY LookupAssumption, HourAssumption
    <3> QED
      BY <2>7, <2>11, <3>1 DEF rangeVars
  <2>12. CASE UNCHANGED vars
    BY <2>12 DEF vars, lookupVars, rangeVars, TypeOK
  <2> QED
    BY <2>2, <2>3, <2>4, <2>5, <2>6, <2>8, <2>9, <2>10, <2>11, <2>12 DEF Next, RangeNext
<1> QED
  BY <1>1, <1>2, QueryStarts, SampleNextInv, PTL DEF Spec

-----------------------------------------------------------------------------
(* What a range amounts to.  The ticks of the feed by their times hold in  *)
(* an hour what the files do,                                              *)
LEMMA TimesOfFiles ==
    ASSUME FeedOK, NEW t \in Int
    PROVE  InFile(TickTimes, t) = {HourStart(t) + o : o \in Ticks(HourOf(t))}
<1>1. HourLen \in Nat \ {0} /\ \A h \in Hours : h \in Int
  BY LookupAssumption, HourAssumption
<1>2. HourOf(t) \in Int /\ HourStart(t) = HourOf(t) * HourLen
  BY HourOfTime
<1>3. \A q \in Int : \A r \in 0..(HourLen - 1) : (q * HourLen + r) \div HourLen = q
  BY <1>1
<1>4. ASSUME NEW h \in Hours, NEW o \in feed[h]
      PROVE  HourOf(h * HourLen + o) = h
  <2>1. o \in 0..(HourLen - 1) /\ h \in Int
    BY <1>1, LookupAssumption DEF FeedOK
  <2> QED
    BY <1>3, <2>1 DEF HourOf
<1>5. ASSUME NEW u \in InFile(TickTimes, t)
      PROVE  u \in {HourStart(t) + o : o \in Ticks(HourOf(t))}
  <2>1. PICK h \in Hours : u \in {h * HourLen + o : o \in feed[h]}
    BY DEF InFile, TickTimes
  <2>2. PICK o \in feed[h] : u = h * HourLen + o
    BY <2>1
  <2>3. HourOf(u) = HourOf(t)
    BY DEF InFile
  <2>4. HourOf(u) = h
    BY <1>4, <2>2
  <2> QED
    BY <1>2, <2>2, <2>3, <2>4 DEF Ticks
<1>6. ASSUME NEW o \in Ticks(HourOf(t))
      PROVE  HourStart(t) + o \in InFile(TickTimes, t)
  <2>1. HourOf(t) \in Hours /\ o \in feed[HourOf(t)]
    BY DEF Ticks
  <2>2. HourOf(HourStart(t) + o) = HourOf(t)
    BY <1>2, <1>4, <2>1
  <2>3. HourStart(t) + o \in TickTimes
    BY <1>2, <2>1 DEF TickTimes
  <2> QED
    BY <2>2, <2>3 DEF InFile
<1> QED
  BY <1>5, <1>6

LEMMA HeldOfFiles ==
    ASSUME FeedOK, NEW t \in Int
    PROVE  HeldBy(TickTimes, t) = AtOrBefore(t)
<1>1. InFile(TickTimes, t) = {HourStart(t) + o : o \in Ticks(HourOf(t))}
  BY TimesOfFiles
<1>2. HourStart(t) \in Int /\ TargetOf(t) \in Int
  BY HourOfTime
<1>3. \A o \in Ticks(HourOf(t)) : o \in Int
  BY LookupAssumption DEF FeedOK, Ticks
<1>4. \A o \in Ticks(HourOf(t)) :
          HourStart(t) + o <= HourStart(t) + TargetOf(t) <=> o <= TargetOf(t)
  BY <1>2, <1>3
<1> QED
  BY <1>1, <1>4 DEF HeldBy, AtOrBefore

(* and a lookup over them finds what it finds in the files.                *)
LEMMA FindsOfFiles ==
    ASSUME FeedOK, NEW t \in Int
    PROVE  Finds(TickTimes, t) = LookupFinds(t)
<1> DEFINE from == Effective(t)
<1>1. from \in Int
  BY EffectiveBefore
<1>2. HourOf(from) \in Int /\ HourLen \in Int /\ MaxBacktrack \in Int
  BY <1>1, HourOfTime, HourAssumption
<1>3. InFile(TickTimes, from) = {} <=> Ticks(HourOf(from)) = {}
  <2>1. InFile(TickTimes, from) = {HourStart(from) + o : o \in Ticks(HourOf(from))}
    BY <1>1, TimesOfFiles
  <2> HIDE DEF from
  <2> QED
    BY <2>1
<1>4. Reach(TickTimes, from) = Reachable(from)
  <2>1. HeldBy(TickTimes, from) = AtOrBefore(from)
    BY <1>1, HeldOfFiles
  <2>2. \A h \in (HourOf(from) - MaxBacktrack + 1)..HourOf(from) :
            HeldBy(TickTimes, h * HourLen - 1) = AtOrBefore(h * HourLen - 1)
    <3> SUFFICES ASSUME NEW h \in (HourOf(from) - MaxBacktrack + 1)..HourOf(from)
                 PROVE  HeldBy(TickTimes, h * HourLen - 1) = AtOrBefore(h * HourLen - 1)
      OBVIOUS
    <3>1. h \in Int
      BY <1>2
    <3>2. h * HourLen - 1 \in Int
      BY <3>1, HourBefore
    <3> QED
      BY <3>2, HeldOfFiles
  <2> QED
    BY <2>1, <2>2 DEF Reach, Reachable
<1> QED
  BY <1>3, <1>4 DEF Finds, LookupFinds

-----------------------------------------------------------------------------
(* The row of a sample with no row before it; the first row is that of the *)
(* first sample that had one, and no sample lies beyond the end.           *)
RowFrom(t, row) ==
    IF AtOrBefore(t) # {} THEN row = Max(AtOrBefore(t))
    ELSE LookupFinds(t - 1) # Nothing /\ row = LookupFinds(t - 1)

FirstRow ==
    rows # <<>> => \E t \in Samples :
        /\ \A w \in Samples : w < t => AtOrBefore(w) = {} /\ LookupFinds(w - 1) = Nothing
        /\ RowFrom(t, rows[1])

InRange ==
    /\ \A t \in Samples : t <= end
    /\ range \in {"serve", "lookup"} => current <= end
    /\ range = "done" => current > end

FirstInv == RowInv /\ FirstRow /\ InRange

LEMMA FirstStarts == Init => FirstInv
<1> SUFFICES ASSUME Init PROVE FirstRow /\ InRange
  BY RowsStart DEF FirstInv
<1>1. rows = <<>> /\ range = "idle" /\ start = 0 /\ current = 0
  BY DEF Init
<1> QED
  BY <1>1 DEF FirstRow, InRange, Samples

(* The feed stays as it is, and the sources of rows do.                    *)
LEMMA FromAsItWas ==
    ASSUME feed' = feed
    PROVE  \A t \in Int : /\ AtOrBefore(t)' = AtOrBefore(t)
                          /\ LookupFinds(t)' = LookupFinds(t)
BY FeedAsItWas, FindsAsItWas

(* Steps that pass no sample.                                              *)
LEMMA FirstWaits ==
    ASSUME FirstInv, UNCHANGED <<feed, start, end, interval, current, rows>>,
           range' \in {"serve", "lookup"} => range \in {"serve", "lookup"} \/ current <= end,
           range' = "done" => range = "done" \/ current > end
    PROVE  FirstRow' /\ InRange'
<1>1. Samples' = Samples
  BY DEF Samples, Wanted, IsOpen, HourOf
<1>2. InRange'
  BY <1>1 DEF FirstInv, InRange
<1>3. ASSUME rows # <<>> PROVE FirstRow'
  <2>1. PICK t \in Samples :
            /\ \A w \in Samples : w < t => AtOrBefore(w) = {} /\ LookupFinds(w - 1) = Nothing
            /\ RowFrom(t, rows[1])
    BY <1>3 DEF FirstInv, FirstRow
  <2>2. \A w \in Samples : w \in Int /\ w - 1 \in Int
    BY DEF Samples, FirstInv, RowInv, SampleInv, QueryInv
  <2>3. \A w \in Samples : /\ AtOrBefore(w)' = AtOrBefore(w)
                           /\ LookupFinds(w - 1)' = LookupFinds(w - 1)
    BY <2>2, FromAsItWas
  <2>4. RowFrom(t, rows[1])' <=> RowFrom(t, rows[1])
    BY <2>3 DEF RowFrom
  <2> QED
    BY <1>1, <2>1, <2>3, <2>4 DEF FirstRow
<1>4. rows = <<>> => FirstRow'
  BY DEF FirstRow
<1> QED
  BY <1>2, <1>3, <1>4

(* A step that passes the next sample; only the first row matters.         *)
LEMMA FirstPasses ==
    ASSUME FirstInv, Running, UNCHANGED <<feed, start, end, interval>>, Advance,
           current <= end,
           rows # <<>> => rows' # <<>> /\ rows'[1] = rows[1],
           rows = <<>> /\ rows' # <<>> => Wanted(current) /\ RowFrom(current, rows'[1])
    PROVE  FirstRow' /\ InRange'
<1>1. /\ current \in Int /\ start \in Int /\ interval \in Int /\ interval > 0
      /\ start <= current /\ (current - start) % interval = 0
      /\ current' = current + interval /\ range' = "sample"
  BY DEF FirstInv, RowInv, SampleInv, LookupInv, LookupTypes, QueryInv, Advance
<1>2. /\ Samples' \subseteq Samples \cup {current} /\ Samples \subseteq Samples'
      /\ Wanted(current) => current \in Samples'
  BY <1>1, SamplesGrow
<1>3. \A w \in Samples \cup {current} : w \in Int /\ w - 1 \in Int /\ w <= current
  BY <1>1 DEF Samples
<1>4. \A w \in Samples \cup {current} : /\ AtOrBefore(w)' = AtOrBefore(w)
                                        /\ LookupFinds(w - 1)' = LookupFinds(w - 1)
  BY <1>3, FromAsItWas
<1>5. InRange'
  BY <1>1, <1>2 DEF FirstInv, InRange
<1>6. CASE rows # <<>>
  <2>1. PICK t \in Samples :
            /\ \A w \in Samples : w < t => AtOrBefore(w) = {} /\ LookupFinds(w - 1) = Nothing
            /\ RowFrom(t, rows[1])
    BY <1>6 DEF FirstInv, FirstRow
  <2>2. RowFrom(t, rows[1])'
    <3>1. AtOrBefore(t)' = AtOrBefore(t) /\ LookupFinds(t - 1)' = LookupFinds(t - 1)
      BY <1>4
    <3> QED
      BY <1>6, <2>1, <3>1 DEF RowFrom
  <2>3. \A w \in Samples' : w < t => AtOrBefore(w)' = {} /\ LookupFinds(w - 1)' = Nothing
    <3> SUFFICES ASSUME NEW w \in Samples', w < t
                 PROVE  AtOrBefore(w)' = {} /\ LookupFinds(w - 1)' = Nothing
      OBVIOUS
    <3>1. w \in Samples
      BY <1>1, <1>2, <1>3
    <3> QED
      BY <1>4, <2>1, <3>1
  <2>4. t \in Samples'
    BY <1>2
  <2> QED
    BY <1>5, <2>2, <2>3, <2>4 DEF FirstRow
<1>7. CASE rows = <<>> /\ rows' # <<>>
  <2>1. PICK c \in Int : c = current
    BY <1>1
  <2>2. c \in Samples' /\ RowFrom(c, rows'[1])
    BY <1>2, <1>7, <2>1
  <2>3. AtOrBefore(c)' = AtOrBefore(c) /\ LookupFinds(c - 1)' = LookupFinds(c - 1)
    BY <1>4, <2>1
  <2>4. RowFrom(c, rows[1])'
    BY <2>2, <2>3 DEF RowFrom
  <2>5. \A w \in Samples : AtOrBefore(w) = {} /\ LookupFinds(w - 1) = Nothing
    BY <1>7 DEF FirstInv, RowInv, NothingSoFar
  <2>6. \A w \in Samples' : w < c => AtOrBefore(w)' = {} /\ LookupFinds(w - 1)' = Nothing
    <3> SUFFICES ASSUME NEW w \in Samples', w < c
                 PROVE  AtOrBefore(w)' = {} /\ LookupFinds(w - 1)' = Nothing
      OBVIOUS
    <3>1. w \in Samples
      BY <1>1, <1>2, <2>1
    <3> QED
      BY <1>4, <2>5, <3>1
  <2> QED
    BY <1>5, <2>2, <2>4, <2>6 DEF FirstRow
<1>8. rows' = <<>> => FirstRow'
  BY DEF FirstRow
<1> QED
  BY <1>5, <1>6, <1>7, <1>8

(* A row that is added leaves the first one.                               *)
LEMMA AppendKeepsFirst ==
    ASSUME NEW s \in Seq(Int), s # <<>>, NEW r
    PROVE  Append(s, r) # <<>> /\ Append(s, r)[1] = s[1]
OBVIOUS

LEMMA FirstNextInv == FirstInv /\ [Next]_vars => FirstInv'
<1> SUFFICES ASSUME FirstInv, [Next]_vars PROVE FirstRow' /\ InRange'
  BY RowNextInv DEF FirstInv
<1>1. ASSUME NEW s \in Starts, NEW e \in Ends, NEW i \in Intervals, Query(s, e, i)
      PROVE  FirstRow' /\ InRange'
  <2>1. /\ start' = s /\ current' = s /\ rows' = rows /\ rows = <<>>
        /\ range' \in {"invalid", "sample"}
    BY <1>1 DEF Query, lookupVars, FirstInv, RowInv, SampleInv, QueryInv
  <2>2. Samples' = {}
    BY <2>1, RangeAssumption DEF Samples
  <2> QED
    BY <2>1, <2>2 DEF FirstRow, InRange
<1>2. CASE SkipClosed
  <2>1. /\ Running /\ Advance /\ current <= end /\ rows' = rows
        /\ UNCHANGED <<feed, start, end, interval>>
    BY <1>2 DEF SkipClosed, lookupVars, Running
  <2> QED
    BY <2>1, FirstPasses
<1>3. CASE HoldHour
  BY <1>3, FirstWaits DEF HoldHour, lookupVars
<1>4. CASE HourFails \/ LookBackFails \/ Finish
  BY <1>4, FirstWaits DEF HourFails, LookBackFails, Finish, lookupVars
<1>5. CASE Serve
  <2>1. /\ Running /\ Wanted(current) /\ Push(Known) /\ Advance /\ SampleInv /\ current <= end
        /\ UNCHANGED <<feed, start, end, interval>>
    BY <1>5 DEF Serve, lookupVars, Running, FirstInv, RowInv, SampleWanted, InRange
  <2>2. rows \in Seq(Int)
    BY <2>1 DEF SampleInv, QueryInv
  <2>3. CASE rows # <<>>
    <3>1. rows' # <<>> /\ rows'[1] = rows[1]
      BY <2>1, <2>2, <2>3, AppendKeepsFirst DEF Push
    <3> QED
      BY <2>1, <2>3, <3>1, FirstPasses
  <2>4. CASE rows = <<>>
    <3>1. /\ AtOrBefore(current) # {} /\ Known = Max(AtOrBefore(current)) /\ Known # Nothing
      BY <1>5, <2>1, <2>4, Served DEF Serve
    <3>2. rows' = Append(<<>>, Known)
      BY <2>1, <2>4, <3>1 DEF Push
    <3> HIDE DEF Known
    <3>3. rows'[1] = Known
      BY <3>2
    <3>4. RowFrom(current, rows'[1])
      BY <3>1, <3>3 DEF RowFrom
    <3> QED
      BY <2>1, <2>4, <3>4, FirstPasses
  <2> QED
    BY <2>3, <2>4
<1>6. CASE LookBack
  BY <1>6, FirstWaits DEF LookBack, Ask
<1>7. CASE LookedBack
  <2>1. /\ Running /\ Wanted(current) /\ Advance /\ current <= end
        /\ Push(IF status = "ok" THEN found ELSE Nothing)
        /\ UNCHANGED <<feed, start, end, interval>>
    BY <1>7 DEF LookedBack, Running, FirstInv, RowInv, SampleWanted, InRange
  <2>2. rows = <<>> /\ AtOrBefore(current) = {} /\ request = current - 1
    BY <1>7 DEF LookedBack, FirstInv, RowInv, SampleInv, QueryInv
  <2>3. CASE status = "ok" /\ found # Nothing
    <3>1. found = LookupFinds(current - 1)
      BY <2>2, <2>3 DEF FirstInv, RowInv, LookupFound
    <3>2. rows' = Append(<<>>, found)
      BY <2>1, <2>2, <2>3 DEF Push
    <3>3. rows'[1] = found
      BY <3>2
    <3>4. RowFrom(current, rows'[1])
      BY <2>2, <2>3, <3>1, <3>3 DEF RowFrom
    <3> QED
      BY <2>1, <2>2, <3>4, FirstPasses
  <2>4. CASE ~(status = "ok" /\ found # Nothing)
    <3>1. rows' = rows
      BY <2>1, <2>4 DEF Push
    <3> QED
      BY <2>1, <2>2, <3>1, FirstPasses
  <2> QED
    BY <2>3, <2>4
<1>8. ASSUME UNCHANGED rangeVars, Search \/ \E t \in Requests : Ask(t)
      PROVE  FirstRow' /\ InRange'
  <2>1. UNCHANGED <<start, end, interval, current, rows, range>>
    BY <1>8 DEF rangeVars
  <2>2. UNCHANGED feed
    BY <1>8 DEF Search, Answer, StepBack, GiveUp, FetchFails, End, Ask
  <2> QED
    BY <2>1, <2>2, FirstWaits
<1>9. CASE UNCHANGED vars
  BY <1>9, FirstWaits DEF vars, lookupVars, rangeVars
<1> QED
  BY <1>1, <1>2, <1>3, <1>4, <1>5, <1>6, <1>7, <1>8, <1>9 DEF Next, RangeNext

-----------------------------------------------------------------------------
(* The wanted points of a range that is done are its samples.              *)
LEMMA PointsAreSamples ==
    ASSUME TypeOK, FirstInv, range = "done"
    PROVE  Samples = {t \in Points(start, end, interval) : Wanted(t)}
<1>1. start \in Int /\ end \in Int /\ current \in Int
  BY DEF TypeOK
<1>2. current > end /\ \A t \in Samples : t <= end
  BY DEF FirstInv, InRange
<1> QED
  BY <1>1, <1>2 DEF Samples, Points

(* What the loop over samples, the hour held, the row before, the          *)
(* remembered fallback and the lookups amount to is the function that      *)
(* downloads are modelled with: a range that ends well yields just the     *)
(* rows of History, for every feed, alignment of samples and weekend.      *)
THEOREM RangesAreHistory == Spec => []RowsAreHistory
<1>1. TypeOK /\ FirstInv => RowsAreHistory
  <2> SUFFICES ASSUME TypeOK, FirstInv, range = "done"
               PROVE  ToSet(rows) = History(TickTimes, start, end, interval)
    BY DEF RowsAreHistory
  <2> DEFINE held     == {t \in Samples : AtOrBefore(t) # {}}
             none     == Samples \ held
             lookedUp == {t \in none : /\ LookupFinds(t - 1) # Nothing
                                       /\ \A v \in held : t < v}
             first    == {v \in lookedUp : \A w \in lookedUp : v <= w}
  <2>1. FeedOK /\ rows \in Seq(Nat) /\ \A t \in Samples : t \in Int /\ t - 1 \in Int
    BY DEF FirstInv, RowInv, SampleInv, LookupInv, LookupTypes, TypeOK, Samples
  <2>2. /\ \A t \in Samples : HeldBy(TickTimes, t) = AtOrBefore(t)
        /\ \A t \in Samples : Finds(TickTimes, t - 1) = LookupFinds(t - 1)
    BY <2>1, HeldOfFiles, FindsOfFiles
  <2>3. History(TickTimes, start, end, interval) =
            {Max(AtOrBefore(t)) : t \in held} \cup {LookupFinds(t - 1) : t \in first}
    <3> DEFINE heldT     == {t \in Samples : HeldBy(TickTimes, t) # {}}
               lookedUpT == {t \in Samples \ heldT : /\ Finds(TickTimes, t - 1) # Nothing
                                                     /\ \A v \in heldT : t < v}
               firstT    == {v \in lookedUpT : \A w \in lookedUpT : v <= w}
    <3>1. History(TickTimes, start, end, interval) =
              {Max(HeldBy(TickTimes, t)) : t \in heldT} \cup
                  {Finds(TickTimes, t - 1) : t \in firstT}
      BY PointsAreSamples DEF History
    <3>2. heldT = held
      BY <2>2
    <3> HIDE DEF heldT, held
    <3>3. lookedUpT = lookedUp
      BY <2>2, <3>2
    <3> HIDE DEF lookedUpT, lookedUp
    <3>4. firstT = first
      BY <3>3
    <3>5. held \subseteq Samples /\ first \subseteq Samples
      BY DEF held, lookedUp
    <3> HIDE DEF firstT, first
    <3> QED
      BY <2>2, <3>1, <3>2, <3>4, <3>5
  <2>4. \A t \in held : Max(AtOrBefore(t)) \in ToSet(rows)
    BY DEF FirstInv, RowInv, SampleInv, InHourSamplesServed
  <2>5. ASSUME NEW i \in DOMAIN rows, i # 1
        PROVE  \E t \in held : rows[i] = Max(AtOrBefore(t))
    <3>1. PICK t \in Samples : rows[i] = Latest(AtOrBefore(t))
      BY <2>5 DEF FirstInv, RowInv, RowsJustified
    <3>2. rows[i] # Nothing
      BY <2>1 DEF Nothing
    <3> QED
      BY <3>1, <3>2 DEF Latest
  <2>6. CASE rows = <<>>
    <3>1. \A t \in Samples : AtOrBefore(t) = {} /\ LookupFinds(t - 1) = Nothing
      BY <2>6 DEF FirstInv, RowInv, NothingSoFar
    <3>2. held = {} /\ first = {}
      BY <3>1
    <3>3. ToSet(rows) = {}
      BY <2>6 DEF ToSet
    <3> QED
      BY <2>3, <3>2, <3>3
  <2>7. CASE rows # <<>>
    <3>1. PICK t \in Samples :
              /\ \A w \in Samples : w < t => AtOrBefore(w) = {} /\ LookupFinds(w - 1) = Nothing
              /\ RowFrom(t, rows[1])
      BY <2>7 DEF FirstInv, FirstRow
    <3>2. 1 \in DOMAIN rows
      BY <2>1, <2>7
    <3>3. ToSet(rows) = {rows[i] : i \in DOMAIN rows}
      BY DEF ToSet
    <3>4. CASE t \in held
      <4>1. rows[1] = Max(AtOrBefore(t))
        BY <3>1, <3>4 DEF RowFrom
      <4>2. first = {}
        <5> SUFFICES ASSUME NEW v \in lookedUp PROVE FALSE
          OBVIOUS
        <5>1. v < t /\ v \in Samples /\ LookupFinds(v - 1) # Nothing
          BY <3>4
        <5> QED
          BY <3>1, <5>1
      <4> HIDE DEF first, held
      <4> QED
        BY <2>3, <2>4, <2>5, <3>3, <3>4, <4>1, <4>2
    <3>5. CASE t \notin held
      <4>1. AtOrBefore(t) = {} /\ LookupFinds(t - 1) # Nothing /\ rows[1] = LookupFinds(t - 1)
        BY <3>1, <3>5 DEF RowFrom
      <4>2. \A v \in held : t < v
        <5> SUFFICES ASSUME NEW v \in held PROVE t < v
          OBVIOUS
        <5>1. v \in Int /\ t \in Int /\ v # t /\ ~(v < t)
          BY <2>1, <3>1, <3>5
        <5> QED
          BY <5>1
      <4>3. t \in lookedUp
        BY <4>1, <4>2
      <4>4. \A w \in lookedUp : t <= w
        <5> SUFFICES ASSUME NEW w \in lookedUp PROVE t <= w
          OBVIOUS
        <5>1. w \in Samples /\ LookupFinds(w - 1) # Nothing
          OBVIOUS
        <5>2. ~(w < t)
          BY <3>1, <5>1
        <5> QED
          BY <2>1, <5>1, <5>2
      <4>5. lookedUp \subseteq Int
        BY <2>1
      <4> HIDE DEF held, lookedUp
      <4>6. first = {t}
        <5>1. t \in first
          BY <4>3, <4>4
        <5>2. ASSUME NEW v \in first PROVE v = t
          <6>1. v \in lookedUp /\ v <= t
            BY <4>3
          <6> QED
            BY <4>3, <4>4, <4>5, <6>1
        <5> HIDE DEF first
        <5> QED
          BY <5>1, <5>2
      <4> HIDE DEF first
      <4> QED
        BY <2>3, <2>4, <2>5, <3>2, <3>3, <4>1, <4>6
    <3> QED
      BY <3>4, <3>5
  <2> QED
    BY <2>6, <2>7
<1> QED
  BY <1>1, TypesCorrect, FirstStarts, FirstNextInv, PTL DEF Spec
=============================================================================
