------------------------ MODULE BatchDownloadProofs ------------------------
(* Theorems about BatchDownload, for any number of calls, any list of      *)
(* tickers, any ticks and any limits.                                      *)
EXTENDS BatchDownload, HourFilesProofs, FiniteSetTheorems, FunctionTheorems, SequenceTheorems

(* A job of a call is in one place: it waits, is under way or has ended.   *)
Apart(b) ==
    /\ phase[b] # "running" => waiting[b] = {} /\ active[b] = {} /\ done[b] = <<>>
    /\ IsFiniteSet(active[b])
    /\ \A a \in active[b] : a.job \notin waiting[b]
    /\ \A a, c \in active[b] : a.job = c.job => a = c
    /\ \A i \in DOMAIN done[b] :
           /\ done[b][i].job \notin waiting[b]
           /\ \A a \in active[b] : a.job # done[b][i].job
    /\ \A i, k \in DOMAIN done[b] : done[b][i].job = done[b][k].job => i = k

JobsApart == \A b \in Batches : Apart(b)

(* BoundedAndComplete, of one call.                                        *)
Counted(b) ==
    phase[b] = "running" =>
        /\ Cardinality(active[b]) <= call[b].limit
        /\ Cardinality(active[b]) + Cardinality(waiting[b]) + Len(done[b]) = Len(List)

JobsInv == TypeOK /\ JobsApart /\ BoundedAndComplete

-----------------------------------------------------------------------------
(* The later of two starts.                                                *)
LEMMA MaxOfTwo ==
    ASSUME NEW x \in Int, NEW y \in Int
    PROVE  /\ Max({x, y}) \in Int /\ x <= Max({x, y}) /\ y <= Max({x, y})
<1>1. \E z \in {x, y} : \A u \in {x, y} : z >= u
  OBVIOUS
<1>2. Max({x, y}) \in {x, y} /\ \A u \in {x, y} : Max({x, y}) >= u
  BY <1>1, Zenon DEF Max
<1> QED
  BY <1>2

(* The last of some times is one of them.                                  *)
LEMMA LastOfTimes ==
    ASSUME NEW times, times \subseteq Times, times # {} PROVE Max(times) \in times
<1>1. MaxTime \in Nat /\ times \subseteq 0..MaxTime
  BY HistoryAssumption DEF Times
<1> QED
  BY <1>1, MaxOf

(* The jobs of a call are numbered as its list is.                         *)
LEMMA JobsAreNumbers ==
    /\ Len(List) \in Nat \ {0} /\ Jobs = 1..Len(List) /\ \A j \in Jobs : List[j] \in Tickers
<1>1. List \in Seq(Tickers) /\ List # <<>>
  BY BatchAssumption
<1>2. Len(List) \in Nat \ {0} /\ Jobs = 1..Len(List)
  BY <1>1, EmptySeq, LenProperties DEF Jobs
<1> QED
  BY <1>1, <1>2, ElementOfSeq

(* The range of a job is one.                                              *)
LEMMA RangeIsRange ==
    ASSUME TypeOK, NEW b \in Batches, NEW t \in Tickers
    PROVE  RangeOf(b, t) \in Ranges
<1>1. LastAvailable(now) \in Times
  <2>1. now \in Int /\ now >= 1 /\ now <= MaxTime /\ MaxTime \in Nat
    BY HistoryAssumption DEF TypeOK, Times
  <2>2. LastAvailable(now) \in Int /\ LastAvailable(now) >= 1 /\ LastAvailable(now) <= now
    BY <2>1, LastAvailableBefore
  <2> QED
    BY <2>1, <2>2 DEF Times
<1>2. marks[t] \in Int /\ now \in Times /\ Times \subseteq Int /\ Lookback \in Int
  BY HistoryAssumption, BatchAssumption DEF TypeOK, Never, Times
<1>3. IncrementalStart(marks[t], LastAvailable(now), Lookback) \in Int
  <2>1. LastAvailable(now) \in Int
    BY <1>1, <1>2
  <2>2. marks[t] - 2 * Interval \in Int /\ LastAvailable(now) - Lookback \in Int
    BY <1>2, <2>1, HistoryAssumption
  <2> QED
    BY <2>2, Zenon DEF IncrementalStart
<1>4. now - call[b].span \in Int
  BY <1>2 DEF TypeOK
<1> QED
  BY <1>1, <1>2, <1>3, <1>4 DEF RangeOf, Ranges

(* What a job gives are times.                                             *)
LEMMA TimesOfJob ==
    ASSUME TypeOK, NEW b \in Batches, NEW a \in active[b]
    PROVE  /\ a \in Fetches /\ a.job \in Jobs /\ a.range \in Ranges
           /\ List[a.job] \in Tickers
           /\ Ticks[List[a.job]] \subseteq Times
           /\ Fetchable(a) \subseteq Times
<1>1. a \in Fetches
  BY DEF TypeOK
<1>2. a.job \in Jobs /\ a.range \in Ranges
  BY <1>1 DEF Fetches
<1>3. List[a.job] \in Tickers
  BY <1>2, JobsAreNumbers
<1>4. Ticks[List[a.job]] \subseteq Times
  BY <1>3, BatchAssumption
<1>5. Fetchable(a) \subseteq Times
  <2>1. MaxTime \in Nat
    BY HistoryAssumption
  <2> QED
    BY <1>4, <2>1, HistoryIsTimes DEF Fetchable, Times
<1> QED
  BY <1>1, <1>2, <1>3, <1>4, <1>5

LEMMA JobsInit == Init => JobsInv
<1> SUFFICES ASSUME Init PROVE JobsInv
  OBVIOUS
<1>1. now \in Times /\ Never \in {Never} \cup Times /\ 0 \in Int
  BY BatchAssumption DEF Init
<1>2. NoCall \in [kind : {"period", "incremental"}, limit : Nat, span : Nat]
  BY DEF NoCall
<1>3. <<>> \in Seq(Results) /\ DOMAIN <<>> = {}
  OBVIOUS
<1>4. TypeOK
  BY <1>1, <1>2, <1>3 DEF Init, TypeOK
<1>5. JobsApart
  BY <1>3, FS_EmptySet DEF Init, JobsApart, Apart
<1>6. BoundedAndComplete
  BY DEF Init, BoundedAndComplete
<1> QED
  BY <1>4, <1>5, <1>6 DEF JobsInv


(* What a step leaves alone of a call stays as it should be.               *)
LEMMA CallUntouched ==
    ASSUME JobsInv, NEW b \in Batches,
           phase'[b] = phase[b], waiting'[b] = waiting[b], active'[b] = active[b],
           done'[b] = done[b], call'[b] = call[b]
    PROVE  Apart(b)' /\ Counted(b)'
<1>1. Apart(b)'
  BY DEF JobsInv, JobsApart, Apart
<1> QED
  BY <1>1 DEF JobsInv, BoundedAndComplete, Counted

(* The steps that change what one call has, one after the other: a call    *)
(* begins,                                                                 *)
LEMMA InvokeStep ==
    ASSUME JobsInv, NEW b \in Batches, NEW kind \in {"period", "incremental"},
           NEW limit \in Nat, NEW span \in Nat, Invoke(b, kind, limit, span)
    PROVE  JobsInv'
<1>1. [kind |-> kind, limit |-> limit, span |-> span]
          \in [kind : {"period", "incremental"}, limit : Nat, span : Nat]
  OBVIOUS
<1>2. TypeOK'
  BY <1>1 DEF Invoke, JobsInv, TypeOK, histVars
<1>3. ASSUME NEW c \in Batches, c # b
      PROVE  Apart(c)' /\ Counted(c)'
  <2>1. /\ phase'[c] = phase[c] /\ waiting'[c] = waiting[c] /\ active'[c] = active[c]
        /\ done'[c] = done[c] /\ call'[c] = call[c]
    BY <1>3 DEF Invoke, JobsInv, TypeOK
  <2> QED
    BY <2>1, CallUntouched
<1>4. active[b] = {} /\ done[b] = <<>> /\ waiting[b] = {}
  BY DEF Invoke, JobsInv, JobsApart, Apart
<1>5. /\ active'[b] = {} /\ done'[b] = <<>>
      /\ phase'[b] = (IF limit = 0 THEN "error" ELSE "running")
      /\ waiting'[b] = (IF limit = 0 THEN {} ELSE Jobs)
      /\ call'[b].limit = limit
  BY <1>4 DEF Invoke, JobsInv, TypeOK
<1>6. Apart(b)'
  BY <1>5, FS_EmptySet DEF Apart
<1>7. Cardinality(Jobs) = Len(List) /\ Cardinality({}) = 0 /\ Len(<<>>) = 0
  <2>1. Cardinality(1..Len(List)) = Len(List)
    <3>1. ASSUME NEW n \in Nat PROVE Cardinality(1..n) = n
      BY FS_Interval
    <3> QED
      BY <3>1, JobsAreNumbers
  <2> QED
    BY <2>1, JobsAreNumbers, FS_EmptySet
<1>8. JobsApart'
  BY <1>3, <1>6 DEF JobsApart
<1>9. BoundedAndComplete'
  <2>1. phase'[b] = "running" =>
            /\ Cardinality(active'[b]) <= call'[b].limit
            /\ Cardinality(active'[b]) + Cardinality(waiting'[b]) + Len(done'[b]) = Len(List)
    BY <1>5, <1>7, JobsAreNumbers
  <2> QED
    BY <1>3, <2>1 DEF BoundedAndComplete, Counted
<1> QED
  BY <1>2, <1>8, <1>9 DEF JobsInv

(* a job begins,                                                           *)
LEMMA BeginStep ==
    ASSUME JobsInv, NEW b \in Batches, Begin(b) PROVE JobsInv'
<1> DEFINE j == Min(waiting[b])
           range == RangeOf(b, List[j])
           fetch == [job |-> j, range |-> range]
           none  == [job |-> j, times |-> {}]
<1>1. /\ waiting[b] # {} /\ waiting[b] \subseteq Jobs /\ active[b] \subseteq Fetches
      /\ done[b] \in Seq(Results) /\ phase[b] = "running"
      /\ call[b].limit \in Nat
  BY DEF Begin, MayBegin, JobsInv, TypeOK
<1>2. j \in waiting[b]
  BY <1>1, JobsAreNumbers, MinOf
<1>3. range \in Ranges /\ fetch \in Fetches /\ none \in Results
  <2>1. j \in Jobs /\ List[j] \in Tickers
    BY <1>1, <1>2, JobsAreNumbers
  <2> HIDE DEF j
  <2>2. range \in Ranges
    BY <2>1, RangeIsRange DEF JobsInv
  <2> QED
    BY <2>1, <2>2 DEF Fetches, Results
<1>4. /\ waiting' = [waiting EXCEPT ![b] = @ \ {j}]
      /\ marks' = marks
      /\ UNCHANGED <<now, call, phase, hung, got, since, sampled, lost>>
      /\ \/ active' = [active EXCEPT ![b] = @ \cup {fetch}] /\ done' = done
         \/ done' = [done EXCEPT ![b] = Append(@, none)] /\ active' = active
  BY DEF Begin, MarkEarly, histVars
<1> HIDE DEF j, range
<1>5. /\ waiting'[b] = waiting[b] \ {j} /\ call'[b] = call[b] /\ phase'[b] = "running"
      /\ \/ active'[b] = active[b] \cup {fetch} /\ done'[b] = done[b]
         \/ done'[b] = Append(done[b], none) /\ active'[b] = active[b]
  BY <1>1, <1>4 DEF JobsInv, TypeOK
<1>6. TypeOK'
  <2>1. waiting' \in [Batches -> SUBSET Jobs]
    BY <1>4 DEF JobsInv, TypeOK
  <2> HIDE DEF fetch, none
  <2>2. active' \in [Batches -> SUBSET Fetches]
    <3>1. active[b] \cup {fetch} \in SUBSET Fetches
      BY <1>1, <1>3
    <3> QED
      BY <1>4, <3>1 DEF JobsInv, TypeOK
  <2>3. done' \in [Batches -> Seq(Results)]
    <3>1. Append(done[b], none) \in Seq(Results)
      BY <1>1, <1>3
    <3> QED
      BY <1>4, <3>1 DEF JobsInv, TypeOK
  <2> QED
    BY <1>4, <2>1, <2>2, <2>3 DEF JobsInv, TypeOK
<1>7. ASSUME NEW c \in Batches, c # b
      PROVE  Apart(c)' /\ Counted(c)'
  <2>1. /\ phase'[c] = phase[c] /\ waiting'[c] = waiting[c] /\ active'[c] = active[c]
        /\ done'[c] = done[c] /\ call'[c] = call[c]
    BY <1>4, <1>7 DEF JobsInv, TypeOK
  <2> QED
    BY <2>1, CallUntouched
<1>8. Apart(b)
  BY DEF JobsInv, JobsApart
<1>9. IsFiniteSet(waiting[b]) /\ IsFiniteSet(active[b])
      /\ Cardinality(waiting[b] \ {j}) = Cardinality(waiting[b]) - 1
  <2>1. IsFiniteSet(Jobs)
    BY JobsAreNumbers, FS_Interval
  <2>2. IsFiniteSet(waiting[b])
    BY <1>1, <2>1, FS_Subset
  <2>3. Cardinality(waiting[b] \ {j}) = Cardinality(waiting[b]) - 1
    BY <1>2, <2>2, FS_RemoveElement
  <2> QED
    BY <1>8, <2>2, <2>3 DEF Apart
<1>10. /\ Cardinality(active[b]) \in Nat /\ Cardinality(waiting[b]) \in Nat
       /\ Len(done[b]) \in Nat
       /\ Cardinality(active[b]) < call[b].limit
       /\ Cardinality(active[b]) + Cardinality(waiting[b]) + Len(done[b]) = Len(List)
  <2>1. Cardinality(active[b]) < Min({Len(List), call[b].limit})
    BY DEF Begin, MayBegin, Concurrency
  <2>2. /\ Min({Len(List), call[b].limit}) <= call[b].limit
        /\ Min({Len(List), call[b].limit}) \in Nat
    <3>1. {Len(List), call[b].limit} \subseteq Nat
      BY <1>1, JobsAreNumbers
    <3> QED
      BY <3>1, MinOf
  <2>3. Cardinality(active[b]) \in Nat /\ Cardinality(waiting[b]) \in Nat
    BY <1>9, FS_CardinalityType
  <2>4. Len(done[b]) \in Nat
    BY <1>1, LenProperties
  <2> QED
    BY <1>1, <2>1, <2>2, <2>3, <2>4 DEF JobsInv, BoundedAndComplete
<1>11. CASE active'[b] = active[b] \cup {fetch} /\ done'[b] = done[b]
  <2>1. fetch \notin active[b] /\ fetch.job = j
    BY <1>2, <1>8 DEF Apart
  <2>2. Cardinality(active'[b]) = Cardinality(active[b]) + 1 /\ IsFiniteSet(active'[b])
    BY <1>9, <1>11, <2>1, FS_AddElement
  <2>3. /\ Cardinality(active'[b]) <= call'[b].limit
        /\ Cardinality(active'[b]) + Cardinality(waiting'[b]) + Len(done'[b]) = Len(List)
    BY <1>1, <1>5, <1>9, <1>10, <1>11, <2>2
  <2> HIDE DEF fetch
  <2>4. /\ \A a \in active'[b] : a.job \notin waiting'[b]
        /\ \A a, c \in active'[b] : a.job = c.job => a = c
    BY <1>2, <1>5, <1>8, <1>11, <2>1 DEF Apart
  <2>5. /\ \A i \in DOMAIN done'[b] :
               /\ done'[b][i].job \notin waiting'[b]
               /\ \A a \in active'[b] : a.job # done'[b][i].job
        /\ \A i, k \in DOMAIN done'[b] : done'[b][i].job = done'[b][k].job => i = k
    BY <1>2, <1>5, <1>8, <1>11, <2>1 DEF Apart
  <2>6. Apart(b)'
    BY <1>5, <2>2, <2>4, <2>5 DEF Apart
  <2>7. JobsApart'
    BY <1>7, <2>6 DEF JobsApart
  <2>8. BoundedAndComplete'
    BY <1>7, <2>3 DEF BoundedAndComplete, Counted
  <2> QED
    BY <1>6, <2>7, <2>8 DEF JobsInv
<1>12. CASE done'[b] = Append(done[b], none) /\ active'[b] = active[b]
  <2>1. /\ Len(done'[b]) = Len(done[b]) + 1
        /\ DOMAIN done'[b] = 1..(Len(done[b]) + 1) /\ DOMAIN done[b] = 1..Len(done[b])
        /\ done'[b][Len(done[b]) + 1] = none
        /\ \A i \in 1..Len(done[b]) : done'[b][i] = done[b][i]
    BY <1>1, <1>3, <1>12
  <2>2. /\ Cardinality(active'[b]) <= call'[b].limit
        /\ Cardinality(active'[b]) + Cardinality(waiting'[b]) + Len(done'[b]) = Len(List)
    BY <1>1, <1>5, <1>9, <1>10, <1>12, <2>1
  <2>3. none.job = j
    OBVIOUS
  <2> HIDE DEF none
  <2>4. \A i \in DOMAIN done'[b] : i \in 1..Len(done[b]) \/ i = Len(done[b]) + 1
    BY <1>10, <2>1
  <2>5. \A i \in DOMAIN done'[b] : done'[b][i].job = j \/ /\ i \in DOMAIN done[b]
                                                          /\ done'[b][i] = done[b][i]
    BY <2>1, <2>3, <2>4
  <2>6. /\ \A i \in DOMAIN done'[b] :
               /\ done'[b][i].job \notin waiting'[b]
               /\ \A a \in active'[b] : a.job # done'[b][i].job
    BY <1>2, <1>5, <1>8, <1>12, <2>5 DEF Apart
  <2>7. \A i, k \in DOMAIN done'[b] : done'[b][i].job = done'[b][k].job => i = k
    <3> SUFFICES ASSUME NEW i \in DOMAIN done'[b], NEW k \in DOMAIN done'[b],
                        done'[b][i].job = done'[b][k].job
                 PROVE  i = k
      OBVIOUS
    <3>1. CASE i \in 1..Len(done[b]) /\ k \in 1..Len(done[b])
      BY <1>8, <2>1, <3>1 DEF Apart
    <3>2. CASE i = Len(done[b]) + 1 /\ k \in 1..Len(done[b])
      BY <1>2, <1>8, <2>1, <2>3, <3>2 DEF Apart
    <3>3. CASE k = Len(done[b]) + 1 /\ i \in 1..Len(done[b])
      BY <1>2, <1>8, <2>1, <2>3, <3>3 DEF Apart
    <3> QED
      BY <2>4, <3>1, <3>2, <3>3
  <2>8. Apart(b)'
    BY <1>2, <1>5, <1>8, <1>12, <2>6, <2>7 DEF Apart
  <2>9. JobsApart'
    BY <1>7, <2>8 DEF JobsApart
  <2>10. BoundedAndComplete'
    BY <1>7, <2>2 DEF BoundedAndComplete, Counted
  <2> QED
    BY <1>6, <2>9, <2>10 DEF JobsInv
<1> QED
  BY <1>5, <1>11, <1>12

(* The end of a fetch leaves a checkpoint that is a time.                   *)
LEMMA SetMarkTypes ==
    ASSUME JobsInv, NEW b \in Batches, NEW a \in Fetches, NEW times, times \subseteq Times,
           SetMark(b, a, times)
    PROVE  /\ marks' \in [Tickers -> {Never} \cup Times]
           /\ since' \in [Tickers -> Int]
           /\ sampled' \in [Tickers -> SUBSET Int]
<1> DEFINE t == List[a.job]
           last == Max(times)
           start == Max({since[t], a.range.first})
           points == Points(a.range.first, a.range.end, Interval)
<1>1. /\ marks \in [Tickers -> {Never} \cup Times] /\ since \in [Tickers -> Int]
      /\ sampled \in [Tickers -> SUBSET Int]
  BY DEF JobsInv, TypeOK
<1>2. \/ UNCHANGED <<marks, since, sampled>>
      \/ /\ times # {}
         /\ marks' = [marks EXCEPT ![t] = last]
         /\ since' = [since EXCEPT ![t] = start] \/ since' = since
         /\ sampled' = [sampled EXCEPT ![t] = @ \cup points]
  BY Zenon DEF SetMark
<1>3. times # {} => last \in Times
  BY LastOfTimes
<1>4. start \in Int
  <2>1. a.job \in Jobs /\ a.range \in Ranges
    BY DEF Fetches
  <2>2. t \in Tickers /\ a.range.first \in Int
    BY <2>1, BatchAssumption DEF Jobs, Ranges
  <2>3. since[t] \in Int
    BY <1>1, <2>2
  <2> QED
    BY <2>2, <2>3, MaxOfTwo
<1>5. points \subseteq Int
  BY DEF Points
<1> HIDE DEF t, last, start, points
<1>6. since' \in [Tickers -> Int]
  BY <1>1, <1>2, <1>4
<1>7. marks' \in [Tickers -> {Never} \cup Times]
  BY <1>1, <1>2, <1>3
<1>8. sampled' \in [Tickers -> SUBSET Int]
  BY <1>1, <1>2, <1>5
<1> QED
  BY <1>6, <1>7, <1>8

(* a fetch ends,                                                           *)
LEMMA JobEndsStep ==
    ASSUME JobsInv, NEW b \in Batches, NEW a \in active[b], JobEnds(b, a) PROVE JobsInv'
<1> DEFINE times == Fetchable(a)
           ended == [job |-> a.job, times |-> times]
<1>1. /\ active[b] \subseteq Fetches /\ done[b] \in Seq(Results) /\ phase[b] = "running"
      /\ call[b].limit \in Nat
  BY DEF JobEnds, UnderWay, JobsInv, TypeOK
<1>2. a.job \in Jobs /\ List[a.job] \in Tickers /\ times \subseteq Times /\ a.range.first \in Int
  BY TimesOfJob DEF JobsInv, Ranges
<1>3. ended \in Results /\ ended.job = a.job
  BY <1>2 DEF Results
<1>4. /\ SetMark(b, a, times)
      /\ done' = [done EXCEPT ![b] = Append(@, ended)]
      /\ active' = [active EXCEPT ![b] = @ \ {a}]
      /\ UNCHANGED <<now, call, phase, waiting, hung, answer, got, lost>>
  BY DEF JobEnds
<1>5. /\ marks' \in [Tickers -> {Never} \cup Times] /\ since' \in [Tickers -> Int]
      /\ sampled' \in [Tickers -> SUBSET Int]
  BY <1>1, <1>2, <1>4, SetMarkTypes
<1> HIDE DEF times, ended
<1>6. TypeOK'
  <2>1. Append(done[b], ended) \in Seq(Results)
    BY <1>1, <1>3
  <2>2. done' \in [Batches -> Seq(Results)]
    BY <1>4, <2>1 DEF JobsInv, TypeOK
  <2>3. active' \in [Batches -> SUBSET Fetches]
    BY <1>4 DEF JobsInv, TypeOK
  <2> QED
    BY <1>4, <1>5, <2>2, <2>3 DEF JobsInv, TypeOK
<1>7. /\ phase'[b] = phase[b] /\ waiting'[b] = waiting[b] /\ call'[b] = call[b]
      /\ active'[b] = active[b] \ {a} /\ done'[b] = Append(done[b], ended)
  BY <1>4 DEF JobsInv, TypeOK
<1>8. ASSUME NEW c \in Batches, c # b PROVE Apart(c)' /\ Counted(c)'
  <2>1. /\ phase'[c] = phase[c] /\ waiting'[c] = waiting[c] /\ active'[c] = active[c]
        /\ done'[c] = done[c] /\ call'[c] = call[c]
    BY <1>4, <1>8 DEF JobsInv, TypeOK
  <2> QED
    BY <2>1, CallUntouched
<1>9. Apart(b)
  BY DEF JobsInv, JobsApart
<1>10. /\ Len(done'[b]) = Len(done[b]) + 1 /\ Len(done[b]) \in Nat
       /\ DOMAIN done'[b] = 1..(Len(done[b]) + 1) /\ DOMAIN done[b] = 1..Len(done[b])
       /\ done'[b][Len(done[b]) + 1] = ended
       /\ \A i \in 1..Len(done[b]) : done'[b][i] = done[b][i]
  BY <1>1, <1>3, <1>7
<1>11. Counted(b)'
  <2>1. IsFiniteSet(active[b]) /\ Cardinality(active[b]) \in Nat
    BY <1>9, FS_CardinalityType DEF Apart
  <2>2. IsFiniteSet(waiting[b]) /\ Cardinality(waiting[b]) \in Nat
    <3>1. IsFiniteSet(Jobs) /\ waiting[b] \subseteq Jobs
      BY JobsAreNumbers, FS_Interval DEF JobsInv, TypeOK
    <3> QED
      BY <3>1, FS_Subset, FS_CardinalityType
  <2>3. Cardinality(active'[b]) = Cardinality(active[b]) - 1
    BY <1>7, <2>1, FS_RemoveElement
  <2>4. /\ Cardinality(active[b]) <= call[b].limit
        /\ Cardinality(active[b]) + Cardinality(waiting[b]) + Len(done[b]) = Len(List)
    BY <1>1 DEF JobsInv, BoundedAndComplete
  <2>5. Cardinality(active'[b]) <= call'[b].limit
    BY <1>1, <1>7, <2>1, <2>3, <2>4
  <2>6. Cardinality(active'[b]) + Cardinality(waiting'[b]) + Len(done'[b]) = Len(List)
    BY <1>7, <1>10, <2>1, <2>2, <2>3, <2>4
  <2> QED
    BY <2>5, <2>6 DEF Counted
<1>12. Apart(b)'
  <2>1. IsFiniteSet(active'[b])
    BY <1>7, <1>9, FS_RemoveElement DEF Apart
  <2>2. \A i \in DOMAIN done'[b] : \/ i \in DOMAIN done[b] /\ done'[b][i] = done[b][i]
                                   \/ i = Len(done[b]) + 1 /\ done'[b][i] = ended
    BY <1>10
  <2>3. \A i \in DOMAIN done[b] : done[b][i].job # a.job
    BY <1>9 DEF Apart
  <2>4. \A i \in DOMAIN done'[b] :
            /\ done'[b][i].job \notin waiting'[b]
            /\ \A c \in active'[b] : c.job # done'[b][i].job
    BY <1>3, <1>7, <1>9, <2>2 DEF Apart
  <2>5. \A i, k \in DOMAIN done'[b] : done'[b][i].job = done'[b][k].job => i = k
    <3> SUFFICES ASSUME NEW i \in DOMAIN done'[b], NEW k \in DOMAIN done'[b],
                        done'[b][i].job = done'[b][k].job
                 PROVE  i = k
      OBVIOUS
    <3>1. CASE i \in DOMAIN done[b] /\ k \in DOMAIN done[b]
      BY <1>9, <1>10, <3>1 DEF Apart
    <3>2. CASE i = Len(done[b]) + 1 /\ k = Len(done[b]) + 1
      BY <3>2
    <3> QED
      BY <1>3, <2>2, <2>3, <3>1, <3>2
  <2> QED
    BY <1>1, <1>7, <1>9, <2>1, <2>4, <2>5 DEF Apart
<1>13. JobsApart' /\ BoundedAndComplete'
  BY <1>8, <1>11, <1>12 DEF JobsApart, BoundedAndComplete, Counted
<1> QED
  BY <1>6, <1>13 DEF JobsInv

(* and a call ends in one of several ways, or its answer is taken.         *)
LEMMA CallEnds ==
    ASSUME JobsInv, NEW b \in Batches,
           phase'[b] # "running", waiting'[b] = {}, active'[b] = {}, done'[b] = <<>>,
           \A c \in Batches \ {b} :
               /\ phase'[c] = phase[c] /\ waiting'[c] = waiting[c] /\ active'[c] = active[c]
               /\ done'[c] = done[c] /\ call'[c] = call[c]
    PROVE  JobsApart' /\ BoundedAndComplete'
<1>1. \A c \in Batches \ {b} : Apart(c)' /\ Counted(c)'
  BY CallUntouched
<1>2. Apart(b)' /\ Counted(b)'
  BY FS_EmptySet DEF Apart, Counted
<1> QED
  BY <1>1, <1>2 DEF JobsApart, BoundedAndComplete, Counted

LEMMA DropStep ==
    ASSUME JobsInv, NEW b \in Batches, NEW jobs, NEW how \in {"error", "dropped"},
           Drop(b, jobs, how), \A e \in jobs : List[e.job] \in Tickers,
           marks' \in [Tickers -> {Never} \cup Times], since' \in [Tickers -> Int],
           sampled' \in [Tickers -> SUBSET Int]
    PROVE  JobsInv'
<1>1. TypeOK'
  <2>1. <<>> \in Seq(Results)
    OBVIOUS
  <2> QED
    BY <2>1 DEF Drop, JobsInv, TypeOK
<1>2. /\ phase'[b] = how /\ waiting'[b] = {} /\ active'[b] = {} /\ done'[b] = <<>>
      /\ \A c \in Batches \ {b} :
             /\ phase'[c] = phase[c] /\ waiting'[c] = waiting[c] /\ active'[c] = active[c]
             /\ done'[c] = done[c] /\ call'[c] = call[c]
  BY DEF Drop, JobsInv, TypeOK
<1> QED
  BY <1>1, <1>2, CallEnds DEF JobsInv

(* Jobs that have ended are for tickers.                                   *)
LEMMA EndedForTickers ==
    ASSUME TypeOK, NEW b \in Batches, NEW e \in ToSet(done[b])
    PROVE  e \in Results /\ List[e.job] \in Tickers /\ e.times \subseteq Times
<1>1. done[b] \in Seq(Results)
  BY DEF TypeOK
<1>2. e \in Results
  BY <1>1 DEF ToSet
<1> QED
  BY <1>2, JobsAreNumbers DEF Results

LEMMA JobsStep == ASSUME JobsInv, Next PROVE JobsInv'
<1>1. CASE Tick
  <2>1. now' \in Times
    BY <1>1, BatchAssumption DEF Tick
  <2>2. UNCHANGED <<marks, call, phase, waiting, active, hung, done, got, since, sampled, lost>>
    BY <1>1 DEF Tick, callVars, histVars
  <2>3. TypeOK'
    BY <2>1, <2>2 DEF JobsInv, TypeOK
  <2>4. JobsApart' /\ BoundedAndComplete'
    BY <2>2 DEF JobsInv, JobsApart, Apart, BoundedAndComplete
  <2> QED
    BY <2>3, <2>4 DEF JobsInv
<1>2. ASSUME NEW b \in Batches, NEW limit \in Limits[b], Invoke(b, "incremental", limit, 0)
      PROVE  JobsInv'
  <2>1. limit \in Nat
    BY BatchAssumption
  <2> QED
    BY <1>2, <2>1, InvokeStep
<1>3. ASSUME NEW b \in Batches, NEW limit \in Limits[b], NEW span \in Spans[b],
             Invoke(b, "period", limit, span)
      PROVE  JobsInv'
  <2>1. limit \in Nat /\ span \in Nat
    BY BatchAssumption
  <2> QED
    BY <1>3, <2>1, InvokeStep
<1>4. ASSUME NEW b \in Batches, Begin(b) PROVE JobsInv'
  BY <1>4, BeginStep
<1>5. ASSUME NEW b \in Batches, NEW a \in active[b], JobEnds(b, a) PROVE JobsInv'
  BY <1>5, JobEndsStep
<1>6. ASSUME NEW b \in Batches, NEW a \in active[b], StoreFails(b, a) PROVE JobsInv'
  <2> DEFINE times == Fetchable(a)
             ended == [job |-> a.job, times |-> times]
  <2>1. /\ times # {} /\ SetMark(b, a, times) /\ call[b].kind = "incremental"
        /\ Drop(b, ToSet(done[b]) \cup {ended}, "error")
    BY <1>6 DEF StoreFails
  <2>2. List[a.job] \in Tickers /\ times \subseteq Times /\ a.range.first \in Int
    BY TimesOfJob DEF JobsInv, Ranges
  <2>3. ended.job = a.job
    OBVIOUS
  <2> HIDE DEF times, ended
  <2>7. /\ marks' \in [Tickers -> {Never} \cup Times] /\ since' \in [Tickers -> Int]
        /\ sampled' \in [Tickers -> SUBSET Int]
    <3>1. a \in Fetches
      BY DEF JobsInv, TypeOK
    <3> QED
      BY <2>1, <2>2, <3>1, SetMarkTypes
  <2>8. \A e \in ToSet(done[b]) \cup {ended} : List[e.job] \in Tickers
    BY <2>2, <2>3, EndedForTickers DEF JobsInv
  <2> QED
    BY <2>1, <2>7, <2>8, DropStep
<1>7. ASSUME NEW b \in Batches, JobFails(b) \/ Cancel(b) PROVE JobsInv'
  <2>1. /\ UNCHANGED <<marks, since, sampled>>
        /\ Drop(b, ToSet(done[b]), "error") \/ Drop(b, ToSet(done[b]), "dropped")
    BY <1>7 DEF JobFails, Cancel
  <2>2. \A e \in ToSet(done[b]) : List[e.job] \in Tickers
    BY EndedForTickers DEF JobsInv
  <2>3. /\ marks' \in [Tickers -> {Never} \cup Times] /\ since' \in [Tickers -> Int]
        /\ sampled' \in [Tickers -> SUBSET Int]
    BY <2>1 DEF JobsInv, TypeOK
  <2> QED
    BY <2>1, <2>2, <2>3, DropStep
<1>8. ASSUME NEW b \in Batches, Return(b) PROVE JobsInv'
  <2>1. Held(b) \subseteq Tickers \X Times
    <3>1. \A e \in ToSet(done[b]) : {List[e.job]} \X e.times \subseteq Tickers \X Times
      BY EndedForTickers DEF JobsInv
    <3> QED
      BY <3>1 DEF Held
  <2>2. <<>> \in Seq(Results)
    OBVIOUS
  <2>3. TypeOK'
    BY <1>8, <2>1, <2>2 DEF Return, JobsInv, TypeOK
  <2>4. /\ phase'[b] = "ok" /\ waiting'[b] = {} /\ active'[b] = {} /\ done'[b] = <<>>
        /\ \A c \in Batches \ {b} :
               /\ phase'[c] = phase[c] /\ waiting'[c] = waiting[c] /\ active'[c] = active[c]
               /\ done'[c] = done[c] /\ call'[c] = call[c]
    BY <1>8 DEF Return, JobsInv, TypeOK
  <2> QED
    BY <2>3, <2>4, CallEnds DEF JobsInv
<1>9. ASSUME NEW b \in Batches, Taken(b) PROVE JobsInv'
  <2>1. NoCall \in [kind : {"period", "incremental"}, limit : Nat, span : Nat]
    BY DEF NoCall
  <2>2. TypeOK'
    BY <1>9, <2>1 DEF Taken, histVars, JobsInv, TypeOK
  <2>3. waiting[b] = {} /\ active[b] = {} /\ done[b] = <<>>
    BY <1>9 DEF Taken, JobsInv, JobsApart, Apart
  <2>4. /\ phase'[b] = "idle" /\ waiting'[b] = {} /\ active'[b] = {} /\ done'[b] = <<>>
        /\ \A c \in Batches \ {b} :
               /\ phase'[c] = phase[c] /\ waiting'[c] = waiting[c] /\ active'[c] = active[c]
               /\ done'[c] = done[c] /\ call'[c] = call[c]
    BY <1>9, <2>3 DEF Taken, JobsInv, TypeOK
  <2> QED
    BY <2>2, <2>4, CallEnds DEF JobsInv
<1>10. ASSUME NEW b \in Batches, NEW a \in active[b], Hangs(b, a) PROVE JobsInv'
  <2>1. /\ UNCHANGED <<now, marks, call, phase, waiting, active, done, got, since, sampled, lost>>
        /\ hung' = [hung EXCEPT ![b] = @ \cup {a}]
    BY <1>10 DEF Hangs, histVars
  <2>2. hung' \in [Batches -> SUBSET Fetches]
    BY <2>1 DEF JobsInv, TypeOK
  <2>3. TypeOK'
    BY <2>1, <2>2 DEF JobsInv, TypeOK
  <2>4. JobsApart' /\ BoundedAndComplete'
    BY <2>1 DEF JobsInv, JobsApart, Apart, BoundedAndComplete
  <2> QED
    BY <2>3, <2>4 DEF JobsInv
<1> QED
  BY <1>1, <1>2, <1>3, <1>4, <1>5, <1>6, <1>7, <1>8, <1>9, <1>10 DEF Next, Advance

LEMMA JobsNext == JobsInv /\ [Next]_vars => JobsInv'
<1>1. ASSUME JobsInv, UNCHANGED vars PROVE JobsInv'
  <2>1. UNCHANGED <<now, marks, call, phase, waiting, active, hung, done, got, since, sampled, lost>>
    BY <1>1 DEF vars, callVars, histVars
  <2>2. TypeOK'
    BY <1>1, <2>1 DEF JobsInv, TypeOK
  <2>3. JobsApart' /\ BoundedAndComplete'
    BY <1>1, <2>1 DEF JobsInv, JobsApart, Apart, BoundedAndComplete
  <2> QED
    BY <2>2, <2>3 DEF JobsInv
<1> QED
  BY <1>1, JobsStep

(* The state of every call, however many overlap, is of the types the      *)
(* functions of ticker.rs give it, and the store holds times.              *)
THEOREM TypeCorrect == Spec => []TypeOK
<1>1. Init => JobsInv
  BY JobsInit
<1>2. JobsInv => TypeOK
  BY DEF JobsInv
<1> QED
  BY <1>1, <1>2, JobsNext, PTL DEF Spec

(* buffer_unordered: no more fetches are under way than the limit allows,  *)
(* and every ticker of the list is waiting, under way or has its result.   *)
THEOREM NoJobIsLost == Spec => []BoundedAndComplete
<1>1. Init => JobsInv
  BY JobsInit
<1>2. JobsInv => BoundedAndComplete
  BY DEF JobsInv
<1> QED
  BY <1>1, <1>2, JobsNext, PTL DEF Spec

-----------------------------------------------------------------------------
(* A tick of a ticker was handed to a caller, or a call holds it.          *)
Kept(t, u) ==
    \/ <<t, u>> \in got
    \/ \E b \in Batches :
          /\ call[b].kind = "incremental"
          /\ \E i \in DOMAIN done[b] : List[done[b][i].job] = t /\ u \in done[b][i].times

KeptTimes(t) == {u \in Times : Kept(t, u)}

(* A fetch whose range begins behind a checkpoint of the ticker.           *)
Rests(b, a, t) == call[b].kind = "incremental" /\ List[a.job] = t /\ ~a.range.fresh

(* What was sampled covers the time from since[t] to a later one.          *)
CoveredTo(t, last) == Covered(Ticks[t], sampled[t], Interval, since[t], last, KeptTimes(t))

MarkCovered(t) ==
    /\ marks[t] = Never => sampled[t] = {}
    /\ marks[t] # Never => CoveredTo(t, marks[t])

(* What was there up to the checkpoint as such a fetch began is still      *)
(* there, wherever the checkpoint has gone since.                          *)
StartsCovered(t) ==
    \A b \in Batches : \A a \in active[b] :
        Rests(b, a, t) => CoveredTo(t, a.range.first + 2 * Interval)

CoverInv == JobsInv /\ \A t \in Tickers \ lost : MarkCovered(t) /\ StartsCovered(t)

(* Kept is what CheckpointCovered says of a tick.                          *)
LEMMA KeptIsGiven ==
    ASSUME NEW t PROVE KeptTimes(t) \subseteq TimesGiven(t)
<1> SUFFICES ASSUME NEW u \in Times, Kept(t, u)
             PROVE  <<t, u>> \in got \cup UNION {Held(b) : b \in Batches}
  BY DEF KeptTimes, TimesGiven
<1>1. CASE <<t, u>> \in got
  BY <1>1
<1>2. ASSUME NEW b \in Batches, call[b].kind = "incremental", NEW i \in DOMAIN done[b],
             List[done[b][i].job] = t, u \in done[b][i].times
      PROVE  <<t, u>> \in Held(b)
  <2>1. done[b][i] \in ToSet(done[b])
    BY DEF ToSet
  <2>2. <<t, u>> \in {List[done[b][i].job]} \X done[b][i].times
    BY <1>2
  <2> QED
    BY <1>2, <2>1, <2>2 DEF Held
<1> QED
  BY <1>1, <1>2 DEF Kept

(* A tick that is kept stays so, when the rows of a call stay or are       *)
(* handed over,                                                            *)
LEMMA KeptStays ==
    ASSUME NEW t, NEW u, Kept(t, u), got \subseteq got',
           \A b \in Batches : call[b].kind = "incremental" =>
               \A i \in DOMAIN done[b] : List[done[b][i].job] = t /\ u \in done[b][i].times =>
                   \/ <<t, u>> \in got'
                   \/ /\ call'[b].kind = "incremental"
                      /\ i \in DOMAIN done'[b] /\ done'[b][i] = done[b][i]
    PROVE  Kept(t, u)'
BY DEF Kept

(* and a ticker stays covered when no fetch for it begins either.          *)
LEMMA StaysCovered ==
    ASSUME NEW t, MarkCovered(t), StartsCovered(t),
           marks'[t] = marks[t], since'[t] = since[t], sampled'[t] = sampled[t],
           \A u \in Times : Kept(t, u) => Kept(t, u)',
           \A b \in Batches : \A a \in active'[b] :
               Rests(b, a, t)' => a \in active[b] /\ Rests(b, a, t)
    PROVE  MarkCovered(t)' /\ StartsCovered(t)'
<1>1. KeptTimes(t) \subseteq KeptTimes(t)'
  BY DEF KeptTimes
<1>2. ASSUME NEW last, CoveredTo(t, last)
      PROVE  Covered(Ticks[t], sampled'[t], Interval, since'[t], last, KeptTimes(t)')
  BY <1>1, <1>2, CoveredGrows DEF CoveredTo
<1>3. MarkCovered(t)'
  BY <1>2 DEF MarkCovered, CoveredTo
<1>4. StartsCovered(t)'
  BY <1>2 DEF StartsCovered, CoveredTo
<1> QED
  BY <1>3, <1>4

(* The rows of a call survive the end of one of its jobs.                  *)
LEMMA AppendKeeps ==
    ASSUME JobsInv, NEW b \in Batches, NEW e, done' = [done EXCEPT ![b] = Append(@, e)],
           call' = call, got' = got, NEW t, NEW u, Kept(t, u)
    PROVE  Kept(t, u)'
<1>1. done \in [Batches -> Seq(Results)]
  BY DEF JobsInv, TypeOK
<1>2. ASSUME NEW c \in Batches, NEW i \in DOMAIN done[c]
      PROVE  i \in DOMAIN done'[c] /\ done'[c][i] = done[c][i]
  <2>1. CASE c # b
    BY <1>1, <2>1
  <2>2. CASE c = b
    <3>1. done[b] \in Seq(Results) /\ done'[b] = Append(done[b], e)
      BY <1>1
    <3>2. DOMAIN done[b] = 1..Len(done[b]) /\ Len(done[b]) \in Nat
      BY <3>1
    <3>3. \A k \in 1..Len(done[b]) : k \in DOMAIN Append(done[b], e)
                                     /\ Append(done[b], e)[k] = done[b][k]
      BY <3>1, <3>2
    <3> QED
      BY <2>2, <3>1, <3>2, <3>3
  <2> QED
    BY <2>1, <2>2
<1> QED
  BY <1>2, KeptStays

(* The invariant holds at first, and each step keeps it: a fetch begins,   *)
LEMMA CoverInit == Init => CoverInv
<1>1. Init => JobsInv
  BY JobsInit
<1> QED
  BY <1>1 DEF Init, CoverInv, MarkCovered, StartsCovered

LEMMA BeginCovers ==
    ASSUME CoverInv, NEW b \in Batches, Begin(b), NEW t \in Tickers \ lost
    PROVE  MarkCovered(t)' /\ StartsCovered(t)'
<1> DEFINE j == Min(waiting[b])
           range == RangeOf(b, List[j])
           fetch == [job |-> j, range |-> range]
<1>1. /\ UNCHANGED <<marks, since, sampled, call, got>>
      /\ \/ active' = [active EXCEPT ![b] = @ \cup {fetch}] /\ done' = done
         \/ done' = [done EXCEPT ![b] = Append(@, [job |-> j, times |-> {}])] /\ active' = active
  BY DEF Begin, MarkEarly, histVars
<1>2. JobsInv /\ MarkCovered(t) /\ StartsCovered(t)
  BY DEF CoverInv
<1>3. CASE active' = active /\ done' = [done EXCEPT ![b] = Append(@, [job |-> j, times |-> {}])]
  <2>1. \A u \in Times : Kept(t, u) => Kept(t, u)'
    BY <1>1, <1>2, <1>3, AppendKeeps
  <2> QED
    BY <1>1, <1>2, <1>3, <2>1, StaysCovered DEF Rests
<1>4. CASE active' = [active EXCEPT ![b] = @ \cup {fetch}] /\ done' = done
  <2>1. KeptTimes(t)' = KeptTimes(t)
    BY <1>1, <1>4 DEF KeptTimes, Kept
  <2>2. MarkCovered(t)'
    BY <1>1, <1>2, <2>1 DEF MarkCovered, CoveredTo
  <2>3. Rests(b, fetch, t) => marks[t] # Never /\ marks[t] = fetch.range.first + 2 * Interval
    <3> SUFFICES ASSUME Rests(b, fetch, t)
                 PROVE  marks[t] # Never /\ marks[t] = fetch.range.first + 2 * Interval
      OBVIOUS
    <3>1. call[b].kind = "incremental" /\ List[j] = t /\ ~range.fresh /\ fetch.range = range
      BY DEF Rests
    <3>2. /\ range.fresh = (marks[t] = Never)
          /\ range.first = IncrementalStart(marks[t], LastAvailable(now), Lookback)
      BY <3>1, Zenon DEF RangeOf
    <3>3. marks[t] # Never /\ marks[t] \in {Never} \cup Times
      BY <1>2, <3>1, <3>2 DEF JobsInv, TypeOK
    <3>4. marks[t] \in Int /\ range.first = marks[t] - 2 * Interval /\ 2 * Interval \in Int
      BY <3>2, <3>3, HistoryAssumption DEF IncrementalStart, Times
    <3> HIDE DEF range
    <3> QED
      BY <3>1, <3>3, <3>4
  <2>4. ASSUME NEW c \in Batches, NEW a \in active'[c], Rests(c, a, t)'
        PROVE  CoveredTo(t, a.range.first + 2 * Interval)
    <3>1. Rests(c, a, t)
      BY <1>1, <2>4 DEF Rests
    <3>2. a \in active[c] \/ (c = b /\ a = fetch)
      <4>1. DOMAIN active = Batches
        BY <1>2 DEF JobsInv, TypeOK
      <4> HIDE DEF fetch
      <4>2. active'[b] = active[b] \cup {fetch} /\ \A d \in Batches \ {b} : active'[d] = active[d]
        BY <1>4, <4>1
      <4> QED
        BY <2>4, <4>2
    <3>3. CASE a \in active[c]
      BY <1>2, <3>1, <3>3 DEF StartsCovered
    <3>4. CASE c = b /\ a = fetch
      BY <1>2, <2>3, <3>1, <3>4 DEF MarkCovered
    <3> QED
      BY <3>2, <3>3, <3>4
  <2>5. StartsCovered(t)'
    BY <1>1, <2>1, <2>4 DEF StartsCovered, CoveredTo
  <2> QED
    BY <2>2, <2>5
<1> QED
  BY <1>1, <1>3, <1>4

(* a fetch ends,                                                           *)
LEMMA JobEndsCovers ==
    ASSUME CoverInv, NEW b \in Batches, NEW a \in active[b], JobEnds(b, a),
           NEW t \in Tickers \ lost
    PROVE  MarkCovered(t)' /\ StartsCovered(t)'
<1> DEFINE times == Fetchable(a)
           ended == [job |-> a.job, times |-> times]
           points == Points(a.range.first, a.range.end, Interval)
<1>1. JobsInv /\ MarkCovered(t) /\ StartsCovered(t)
  BY DEF CoverInv
<1>2. /\ UNCHANGED <<call, got>>
      /\ done' = [done EXCEPT ![b] = Append(@, ended)]
      /\ active' = [active EXCEPT ![b] = @ \ {a}]
      /\ SetMark(b, a, times)
  BY DEF JobEnds
<1>3. /\ active \in [Batches -> SUBSET Fetches] /\ done \in [Batches -> Seq(Results)]
      /\ marks \in [Tickers -> {Never} \cup Times] /\ since \in [Tickers -> Int]
      /\ sampled \in [Tickers -> SUBSET Int] /\ Ticks[t] \subseteq Times
  BY <1>1, BatchAssumption DEF JobsInv, TypeOK
<1>4. /\ a.job \in Jobs /\ List[a.job] \in Tickers /\ times \subseteq Times
      /\ a.range.first \in Int /\ a.range.end \in Int
  BY <1>1, TimesOfJob, HistoryAssumption DEF JobsInv, Ranges, Times
<1> HIDE DEF ended
<1>5. \A u \in Times : Kept(t, u) => Kept(t, u)'
  BY <1>1, <1>2, AppendKeeps
<1>6. \A c \in Batches : \A d \in active'[c] : Rests(c, d, t)' => d \in active[c] /\ Rests(c, d, t)
  BY <1>2, <1>3 DEF Rests
<1>7. CASE ~(call[b].kind = "incremental" /\ List[a.job] = t /\ times # {})
  <2>1. marks'[t] = marks[t] /\ since'[t] = since[t] /\ sampled'[t] = sampled[t]
    <3>1. CASE call[b].kind = "incremental" /\ times # {}
      <4>1. List[a.job] # t
        BY <1>7, <3>1
      <4> HIDE DEF times, points
      <4>2. /\ marks' = [marks EXCEPT ![List[a.job]] = Max(times)]
            /\ \/ since' = since
               \/ since' = [since EXCEPT ![List[a.job]] = Max({@, a.range.first})]
            /\ sampled' = [sampled EXCEPT ![List[a.job]] = @ \cup points]
        BY <1>2, <3>1, Zenon DEF SetMark, points
      <4> QED
        BY <1>3, <4>1, <4>2
    <3>2. CASE ~(call[b].kind = "incremental" /\ times # {})
      BY <1>2, <3>2, Zenon DEF SetMark
    <3> QED
      BY <3>1, <3>2
  <2> QED
    BY <1>1, <1>5, <1>6, <2>1, StaysCovered
<1>8. CASE call[b].kind = "incremental" /\ List[a.job] = t /\ times # {}
  <2>1. times \subseteq KeptTimes(t)'
    <3>1. /\ done[b] \in Seq(Results) /\ done'[b] = Append(done[b], ended)
          /\ Len(done[b]) \in Nat
      BY <1>2, <1>3
    <3>2. /\ Len(done[b]) + 1 \in DOMAIN done'[b]
          /\ done'[b][Len(done[b]) + 1] = ended
      BY <3>1
    <3>3. ended.job = a.job /\ ended.times = times
      BY DEF ended
    <3> HIDE DEF times
    <3>4. \A u \in times : Kept(t, u)'
      BY <1>2, <1>8, <3>2, <3>3 DEF Kept
    <3> QED
      BY <1>4, <3>4 DEF KeptTimes
  <2>2. KeptTimes(t) \subseteq KeptTimes(t)'
    BY <1>5 DEF KeptTimes
  <2>3. Max(times) \in Times /\ Max(times) \in Int
    <3> HIDE DEF times
    <3>1. Max(times) \in Times
      BY <1>4, <1>8, LastOfTimes
    <3> QED
      BY <3>1 DEF Times
  <2>4. /\ marks'[t] = Max(times) /\ marks'[t] # Never
        /\ since'[t] = IF a.range.fresh THEN Max({since[t], a.range.first}) ELSE since[t]
        /\ sampled'[t] = sampled[t] \cup points
    <3> HIDE DEF times, points
    <3>1. /\ marks' = [marks EXCEPT ![t] = Max(times)]
          /\ since' = IF a.range.fresh
                        THEN [since EXCEPT ![t] = Max({@, a.range.first})] ELSE since
          /\ sampled' = [sampled EXCEPT ![t] = @ \cup points]
      BY <1>2, <1>8, Zenon DEF SetMark, points
    <3>2. Max(times) # Never
      BY <2>3 DEF Times, Never
    <3> QED
      BY <1>3, <3>1, <3>2
  <2>5. /\ since'[t] \in Int /\ since[t] \in Int /\ since[t] <= since'[t]
        /\ a.range.fresh => a.range.first <= since'[t]
        /\ ~a.range.fresh => since'[t] = since[t]
    <3>1. since[t] \in Int /\ a.range.first \in Int
      BY <1>3, <1>4
    <3> DEFINE latest == Max({since[t], a.range.first})
    <3>2. latest \in Int /\ since[t] <= latest /\ a.range.first <= latest
      BY <3>1, MaxOfTwo
    <3>3. since'[t] = IF a.range.fresh THEN latest ELSE since[t]
      BY <2>4
    <3> HIDE DEF latest, times
    <3> QED
      BY <3>1, <3>2, <3>3
  <2>6. Covered(Ticks[t], points, Interval, a.range.first, Max(times), KeptTimes(t)')
    <3>1. times = History(Ticks[t], a.range.first, a.range.end, Interval)
      BY <1>8 DEF Fetchable
    <3>2. MaxTime \in Nat /\ Interval \in Nat \ {0} /\ Ticks[t] \subseteq 1..MaxTime
      BY <1>3, HistoryAssumption DEF Times
    <3> HIDE DEF times
    <3> QED
      BY <1>4, <1>8, <2>1, <3>1, <3>2, HistoryCoversRange
  <2> HIDE DEF times, points
  <2>7. ASSUME NEW last \in Int, CoveredTo(t, last)
        PROVE  /\ Covered(Ticks[t], sampled'[t], Interval, since'[t], last, KeptTimes(t)')
               /\ Covered(Ticks[t], sampled[t], Interval, since[t], last, KeptTimes(t)')
    <3>1. Covered(Ticks[t], sampled[t], Interval, since[t], last, KeptTimes(t)')
      BY <2>2, <2>7, CoveredGrows DEF CoveredTo
    <3> QED
      BY <2>4, <2>5, <2>6, <3>1, CoveredWith
  <2>8. Covered(Ticks[t], sampled'[t], Interval, since'[t], marks'[t], KeptTimes(t)')
    <3>1. sampled'[t] = points \cup sampled[t]
      BY <2>4
    <3>2. CASE ~a.range.fresh
      <4>1. Rests(b, a, t)
        BY <1>8, <3>2 DEF Rests
      <4> DEFINE behind == a.range.first + 2 * Interval
      <4>2. behind \in Int /\ a.range.first <= behind
        BY <1>4, HistoryAssumption
      <4>3. CoveredTo(t, behind)
        BY <1>1, <4>1 DEF StartsCovered
      <4> HIDE DEF behind
      <4>4. Covered(Ticks[t], sampled[t], Interval, since[t], behind, KeptTimes(t)')
        BY <2>7, <4>2, <4>3
      <4> QED
        BY <1>4, <2>3, <2>4, <2>5, <2>6, <3>2, <4>2, <4>4, CoveredJoins
    <3>3. CASE a.range.fresh /\ marks[t] # Never
      <4>1. marks[t] \in Int
        BY <1>3, HistoryAssumption DEF Times, Never
      <4>2. Covered(Ticks[t], sampled[t], Interval, since[t], marks[t], KeptTimes(t)')
        BY <1>1, <2>7, <3>3, <4>1 DEF MarkCovered
      <4> QED
        BY <1>4, <2>3, <2>4, <2>5, <2>6, <3>1, <3>3, <4>2, CoveredWith
    <3>4. CASE a.range.fresh /\ marks[t] = Never
      <4>1. sampled[t] = {}
        BY <1>1, <3>4 DEF MarkCovered
      <4>2. Covered(Ticks[t], {}, Interval, 1, 0, KeptTimes(t)')
        BY DEF Covered
      <4> QED
        BY <1>4, <2>3, <2>4, <2>5, <2>6, <3>1, <3>4, <4>1, <4>2, CoveredWith
    <3> QED
      BY <3>2, <3>3, <3>4
  <2>9. MarkCovered(t)'
    BY <2>4, <2>8 DEF MarkCovered, CoveredTo
  <2>10. StartsCovered(t)'
    <3> SUFFICES ASSUME NEW c \in Batches, NEW d \in active'[c], Rests(c, d, t)'
                 PROVE  CoveredTo(t, d.range.first + 2 * Interval)'
      BY DEF StartsCovered
    <3>1. d \in active[c] /\ Rests(c, d, t)
      BY <1>6
    <3>2. d.range.first + 2 * Interval \in Int
      BY <1>3, <3>1, HistoryAssumption DEF Fetches, Ranges
    <3>3. CoveredTo(t, d.range.first + 2 * Interval)
      BY <1>1, <3>1 DEF StartsCovered
    <3> QED
      BY <2>7, <3>2, <3>3 DEF CoveredTo
  <2> QED
    BY <2>9, <2>10
<1> QED
  BY <1>7, <1>8

(* a call ends without an answer,                                          *)
LEMMA DropCovers ==
    ASSUME CoverInv, NEW b \in Batches, NEW jobs, NEW how, Drop(b, jobs, how),
           ToSet(done[b]) \subseteq jobs, NEW t \in Tickers \ lost',
           marks'[t] = marks[t], since'[t] = since[t], sampled'[t] = sampled[t]
    PROVE  MarkCovered(t)' /\ StartsCovered(t)'
<1>1. /\ UNCHANGED <<call, got>>
      /\ active' = [active EXCEPT ![b] = {}]
      /\ done' = [done EXCEPT ![b] = <<>>]
      /\ lost \subseteq lost'
      /\ call[b].kind = "incremental" =>
             \A e \in jobs : e.times # {} => List[e.job] \in lost'
  BY DEF Drop
<1>2. JobsInv /\ MarkCovered(t) /\ StartsCovered(t)
  BY <1>1 DEF CoverInv
<1>3. done \in [Batches -> Seq(Results)] /\ active \in [Batches -> SUBSET Fetches]
  BY <1>2 DEF JobsInv, TypeOK
<1>4. ASSUME NEW u \in Times, Kept(t, u) PROVE Kept(t, u)'
  <2>1. ASSUME NEW c \in Batches, call[c].kind = "incremental", NEW i \in DOMAIN done[c],
               List[done[c][i].job] = t, u \in done[c][i].times
        PROVE  i \in DOMAIN done'[c] /\ done'[c][i] = done[c][i]
    <3>1. done[c][i] \in ToSet(done[c])
      BY DEF ToSet
    <3>2. c # b
      BY <1>1, <2>1, <3>1
    <3> QED
      BY <1>1, <1>3, <3>2
  <2>2. got \subseteq got' /\ call' = call
    BY <1>1
  <2>3. \A c \in Batches : call[c].kind = "incremental" =>
            \A i \in DOMAIN done[c] : List[done[c][i].job] = t /\ u \in done[c][i].times =>
                /\ call'[c].kind = "incremental"
                /\ i \in DOMAIN done'[c] /\ done'[c][i] = done[c][i]
    BY <2>1, <2>2
  <2> QED
    BY <1>4, <2>2, <2>3 DEF Kept
<1>5. \A c \in Batches : \A d \in active'[c] : Rests(c, d, t)' => d \in active[c] /\ Rests(c, d, t)
  BY <1>1, <1>3 DEF Rests
<1> QED
  BY <1>2, <1>4, <1>5, StaysCovered

(* or with one.                                                            *)
LEMMA ReturnCovers ==
    ASSUME CoverInv, NEW b \in Batches, Return(b), NEW t \in Tickers \ lost
    PROVE  MarkCovered(t)' /\ StartsCovered(t)'
<1>1. /\ UNCHANGED <<marks, since, sampled, call, active>>
      /\ got' = got \cup Held(b)
      /\ done' = [done EXCEPT ![b] = <<>>]
  BY DEF Return
<1>2. JobsInv /\ MarkCovered(t) /\ StartsCovered(t)
  BY DEF CoverInv
<1>3. done \in [Batches -> Seq(Results)]
  BY <1>2 DEF JobsInv, TypeOK
<1>4. ASSUME NEW u \in Times, Kept(t, u) PROVE Kept(t, u)'
  <2>1. ASSUME NEW c \in Batches, call[c].kind = "incremental", NEW i \in DOMAIN done[c],
               List[done[c][i].job] = t, u \in done[c][i].times
        PROVE  <<t, u>> \in got' \/ done'[c] = done[c]
    <3>1. CASE c # b
      BY <1>1, <1>3, <3>1
    <3>2. CASE c = b
      <4>1. done[b][i] \in ToSet(done[b])
        BY <2>1, <3>2 DEF ToSet
      <4>2. <<t, u>> \in {List[done[b][i].job]} \X done[b][i].times
        BY <2>1, <3>2
      <4>3. <<t, u>> \in Held(b)
        BY <2>1, <3>2, <4>1, <4>2 DEF Held
      <4> QED
        BY <1>1, <4>3
    <3> QED
      BY <3>1, <3>2
  <2> QED
    BY <1>1, <1>4, <2>1, KeptStays
<1>5. \A c \in Batches : \A d \in active'[c] : Rests(c, d, t)' => d \in active[c] /\ Rests(c, d, t)
  BY <1>1 DEF Rests
<1> QED
  BY <1>1, <1>2, <1>4, <1>5, StaysCovered

(* A call that begins or whose answer is taken holds no rows.              *)
LEMMA CallChanges ==
    ASSUME CoverInv, NEW b \in Batches, phase[b] # "running", NEW new,
           call' = [call EXCEPT ![b] = new],
           UNCHANGED <<marks, since, sampled, got, lost, active, done>>, NEW t \in Tickers \ lost
    PROVE  MarkCovered(t)' /\ StartsCovered(t)'
<1>1. JobsInv /\ MarkCovered(t) /\ StartsCovered(t)
  BY DEF CoverInv
<1>2. done[b] = <<>> /\ active[b] = {} /\ DOMAIN call = Batches
  BY <1>1 DEF JobsInv, JobsApart, Apart, TypeOK
<1>3. \A c \in Batches : c # b => call'[c] = call[c]
  BY <1>2
<1>4. ASSUME NEW u \in Times, Kept(t, u) PROVE Kept(t, u)'
  <2>1. ASSUME NEW c \in Batches, NEW i \in DOMAIN done[c] PROVE call'[c] = call[c]
    BY <1>2, <1>3, <2>1
  <2> QED
    BY <1>4, <2>1, KeptStays
<1>5. \A c \in Batches : \A d \in active'[c] : Rests(c, d, t)' => d \in active[c] /\ Rests(c, d, t)
  BY <1>2, <1>3 DEF Rests
<1> QED
  BY <1>1, <1>4, <1>5, StaysCovered

LEMMA CoverNext == CoverInv /\ [Next]_vars => CoverInv'
<1> SUFFICES ASSUME CoverInv, [Next]_vars PROVE CoverInv'
  OBVIOUS
<1>1. JobsInv'
  BY JobsNext DEF CoverInv
<1> SUFFICES ASSUME NEW t \in Tickers \ lost' PROVE MarkCovered(t)' /\ StartsCovered(t)'
  BY <1>1 DEF CoverInv
<1>2. ASSUME UNCHANGED <<marks, call, active, done, got, since, sampled, lost>>
      PROVE  MarkCovered(t)' /\ StartsCovered(t)'
  <2>1. MarkCovered(t) /\ StartsCovered(t)
    BY <1>2 DEF CoverInv
  <2> QED
    BY <1>2, <2>1 DEF MarkCovered, StartsCovered, CoveredTo, KeptTimes, Kept, Rests
<1>3. CASE Tick \/ UNCHANGED vars
  BY <1>2, <1>3 DEF Tick, vars, callVars, histVars
<1>4. ASSUME NEW b \in Batches, NEW kind, NEW limit, NEW span, Invoke(b, kind, limit, span)
      PROVE  MarkCovered(t)' /\ StartsCovered(t)'
  <2>1. /\ phase[b] # "running" /\ UNCHANGED <<marks, since, sampled, got, lost, active, done>>
        /\ call' = [call EXCEPT ![b] = [kind |-> kind, limit |-> limit, span |-> span]]
    BY <1>4 DEF Invoke, histVars
  <2> QED
    BY <2>1, CallChanges
<1>5. ASSUME NEW b \in Batches, Taken(b) PROVE MarkCovered(t)' /\ StartsCovered(t)'
  <2>1. /\ phase[b] # "running" /\ UNCHANGED <<marks, since, sampled, got, lost, active, done>>
        /\ call' = [call EXCEPT ![b] = NoCall]
    BY <1>5 DEF Taken, histVars
  <2> QED
    BY <2>1, CallChanges
<1>6. ASSUME NEW b \in Batches, Begin(b) PROVE MarkCovered(t)' /\ StartsCovered(t)'
  <2>1. lost' = lost
    BY <1>6 DEF Begin, histVars
  <2> QED
    BY <1>6, <2>1, BeginCovers
<1>7. ASSUME NEW b \in Batches, NEW a \in active[b], JobEnds(b, a)
      PROVE  MarkCovered(t)' /\ StartsCovered(t)'
  <2>1. lost' = lost
    BY <1>7 DEF JobEnds
  <2> QED
    BY <1>7, <2>1, JobEndsCovers
<1>8. ASSUME NEW b \in Batches, Return(b) PROVE MarkCovered(t)' /\ StartsCovered(t)'
  <2>1. lost' = lost
    BY <1>8 DEF Return
  <2> QED
    BY <1>8, <2>1, ReturnCovers
<1>9. ASSUME NEW b \in Batches, JobFails(b) \/ Cancel(b)
      PROVE  MarkCovered(t)' /\ StartsCovered(t)'
  BY <1>9, DropCovers DEF JobFails, Cancel
<1>10. ASSUME NEW b \in Batches, NEW a \in active[b], StoreFails(b, a)
       PROVE  MarkCovered(t)' /\ StartsCovered(t)'
  <2> DEFINE times == Fetchable(a)
             ended == [job |-> a.job, times |-> times]
             points == Points(a.range.first, a.range.end, Interval)
  <2>1. /\ times # {} /\ SetMark(b, a, times) /\ call[b].kind = "incremental"
        /\ Drop(b, ToSet(done[b]) \cup {ended}, "error")
    BY <1>10 DEF StoreFails
  <2>2. ended.job = a.job /\ ended.times = times
    OBVIOUS
  <2> HIDE DEF times, ended, points
  <2>3. List[a.job] \in lost'
    BY <2>1, <2>2 DEF Drop
  <2>4. /\ marks' = [marks EXCEPT ![List[a.job]] = Max(times)]
        /\ \/ since' = since
           \/ since' = [since EXCEPT ![List[a.job]] = Max({@, a.range.first})]
        /\ sampled' = [sampled EXCEPT ![List[a.job]] = @ \cup points]
    BY <2>1, Zenon DEF SetMark, points
  <2>5. marks'[t] = marks[t] /\ since'[t] = since[t] /\ sampled'[t] = sampled[t]
    BY <2>3, <2>4 DEF CoverInv, JobsInv, TypeOK
  <2> QED
    BY <2>1, <2>5, DropCovers
<1>11. ASSUME NEW b \in Batches, NEW a \in active[b], Hangs(b, a)
       PROVE  MarkCovered(t)' /\ StartsCovered(t)'
  BY <1>2, <1>11 DEF Hangs, histVars
<1> QED
  BY <1>3, <1>4, <1>5, <1>6, <1>7, <1>8, <1>9, <1>10, <1>11 DEF Next, Advance

(* fetch_incremental and download_incremental: from the latest first start *)
(* to the checkpoint of a ticker no interval went by without a sample, and *)
(* what each sample's own hour had a tick for was handed to a caller or is *)
(* held by a call, unless a call that moved the checkpoint failed.         *)
THEOREM CheckpointsCover == Spec => []CheckpointCovered
<1>1. CoverInv => CheckpointCovered
  <2> SUFFICES ASSUME CoverInv, NEW t \in Tickers \ lost, marks[t] # Never
               PROVE  Covered(Ticks[t], sampled[t], Interval, since[t], marks[t], TimesGiven(t))
    BY DEF CheckpointCovered
  <2>1. Covered(Ticks[t], sampled[t], Interval, since[t], marks[t], KeptTimes(t))
    BY DEF CoverInv, MarkCovered, CoveredTo
  <2> QED
    BY <2>1, KeptIsGiven, CoveredGrows
<1> QED
  BY <1>1, CoverInit, CoverNext, PTL DEF Spec

-----------------------------------------------------------------------------
(* Numbers below a bound, each used once, are all used;                    *)
LEMMA OnceIsAll ==
    ASSUME NEW n \in Nat, NEW f \in [1..n -> 1..n],
           \A i, k \in 1..n : f[i] = f[k] => i = k
    PROVE  \A y \in 1..n : \E x \in 1..n : f[x] = y
<1>1. IsFiniteSet(1..n)
  BY FS_Interval
<1>2. f \in Injection(1..n, 1..n)
  BY Fun_IsInj
<1>3. f \in Surjection(1..n, 1..n)
  BY <1>1, <1>2, FS_Injection
<1> QED
  BY <1>3, Fun_SurjectionProperties

(* and in order, when all are, they count.                                 *)
LEMMA OrderedCounts ==
    ASSUME NEW n \in Nat, NEW f \in [1..n -> 1..n],
           \A y \in 1..n : \E x \in 1..n : f[x] = y,
           \A i, k \in 1..n : i < k => f[i] <= f[k]
    PROVE  \A i \in 1..n : f[i] = i
<1>1. \A i, k \in 1..n : f[i] = f[k] => i = k
  <2>1. IsFiniteSet(1..n)
    BY FS_Interval
  <2>2. f \in Surjection(1..n, 1..n)
    BY Fun_IsSurj
  <2>3. f \in Injection(1..n, 1..n)
    BY <2>1, <2>2, FS_Surjection
  <2> QED
    BY <2>3, Fun_InjectionProperties
<1> DEFINE S == {i \in 1..n : f[i] # i}
<1>2. SUFFICES ASSUME S # {} PROVE FALSE
  OBVIOUS
<1>3. S \subseteq Nat
  OBVIOUS
<1>4. PICK i \in S : \A y \in S : i <= y
  BY <1>2, <1>3, LeastOf
<1>5. i \in 1..n /\ f[i] # i /\ f[i] \in 1..n
  OBVIOUS
<1>6. \A k \in 1..n : k < i => f[k] = k
  <2> SUFFICES ASSUME NEW k \in 1..n, k < i, f[k] # k PROVE FALSE
    OBVIOUS
  <2>1. k \in S
    OBVIOUS
  <2> QED
    BY <1>4, <1>5, <2>1
<1> HIDE DEF S
<1>7. f[i] > i
  <2> SUFFICES ASSUME f[i] < i PROVE FALSE
    BY <1>5
  <2>1. f[f[i]] = f[i]
    BY <1>5, <1>6
  <2>2. f[i] = i
    BY <1>1, <1>5, <2>1
  <2> QED
    BY <1>5, <2>2
<1>8. PICK k \in 1..n : f[k] = i
  BY <1>5
<1>9. i < k
  <2>1. CASE k < i
    BY <1>5, <1>6, <1>8, <2>1
  <2>2. CASE k = i
    BY <1>5, <1>8, <2>2
  <2> QED
    BY <1>5, <2>1, <2>2
<1>10. f[i] <= f[k]
  BY <1>5, <1>9
<1> QED
  BY <1>5, <1>7, <1>8, <1>10

(* The results of all the jobs, in order, are those of the list.           *)
LEMMA InOrderIsList ==
    ASSUME NEW ended \in Seq(Results), Len(ended) = Len(List),
           \A i, k \in DOMAIN ended : ended[i].job = ended[k].job => i = k
    PROVE  /\ Len(InOrder(ended)) = Len(List)
           /\ \A j \in Jobs : InOrder(ended)[j].job = j
<1> DEFINE n == Len(List)
           Ordered(s) == /\ ToSet(s) = ToSet(ended)
                         /\ \A i, k \in DOMAIN s : i < k => s[i].job <= s[k].job
<1>1. n \in Nat /\ Jobs = 1..n /\ DOMAIN ended = 1..n
  BY JobsAreNumbers
<1>2. \A i \in 1..n : ended[i] \in Results /\ ended[i].job \in 1..n
  <2>1. \A i \in 1..n : ended[i] \in Results
    BY <1>1, ElementOfSeq
  <2>2. \A e \in Results : e.job \in 1..n
    BY <1>1 DEF Results
  <2> QED
    BY <2>1, <2>2
<1>3. ToSet(ended) = {ended[i] : i \in 1..n}
  BY <1>1 DEF ToSet
<1>4. \A y \in 1..n : \E x \in 1..n : ended[x].job = y
  <2> DEFINE f == [i \in 1..n |-> ended[i].job]
  <2>1. f \in [1..n -> 1..n]
    BY <1>2
  <2>2. \A i, k \in 1..n : f[i] = f[k] => i = k
    BY <1>1
  <2>3. \A i \in 1..n : f[i] = ended[i].job
    OBVIOUS
  <2> HIDE DEF f, n
  <2>4. \A y \in 1..n : \E x \in 1..n : f[x] = y
    BY <1>1, <2>1, <2>2, OnceIsAll
  <2> QED
    BY <2>3, <2>4
<1> HIDE DEF n
<1>5. \E s \in [DOMAIN ended -> ToSet(ended)] : Ordered(s)
  <2> DEFINE at(y) == CHOOSE x \in 1..n : ended[x].job = y
             s     == [y \in 1..n |-> ended[at(y)]]
  <2>1. \A y \in 1..n : at(y) \in 1..n /\ ended[at(y)].job = y
    BY <1>4
  <2>2. \A x \in 1..n : at(ended[x].job) = x
    BY <1>1, <1>2, <2>1
  <2> HIDE DEF at
  <2>3. s \in [DOMAIN ended -> ToSet(ended)]
    BY <1>1, <1>3, <2>1
  <2>4. \A y \in 1..n : s[y].job = y
    BY <2>1
  <2>5. \A x \in 1..n : ended[x].job \in 1..n /\ s[ended[x].job] = ended[x]
    BY <1>2, <2>2
  <2>6. DOMAIN s = 1..n
    OBVIOUS
  <2> HIDE DEF s
  <2>7. ToSet(s) = {s[y] : y \in 1..n}
    BY <2>6 DEF ToSet
  <2>8. ToSet(s) = ToSet(ended)
    BY <1>1, <1>3, <2>3, <2>5, <2>7
  <2>9. \A i, k \in DOMAIN s : i < k => s[i].job <= s[k].job
    BY <1>1, <2>4, <2>6
  <2> QED
    BY <2>3, <2>8, <2>9
<1> DEFINE s == InOrder(ended)
<1>6. s = CHOOSE r \in [DOMAIN ended -> ToSet(ended)] : Ordered(r)
  BY DEF InOrder
<1>7. s \in [DOMAIN ended -> ToSet(ended)] /\ Ordered(s)
  <2> HIDE DEF Ordered, s
  <2> QED
    BY <1>5, <1>6
<1> HIDE DEF s
<1>8. DOMAIN s = 1..n /\ \A i \in 1..n : s[i] \in ToSet(ended)
  BY <1>1, <1>7
<1>9. \A i \in 1..n : s[i] \in Results /\ s[i].job \in 1..n
  BY <1>2, <1>3, <1>8
<1>10. \A i \in 1..n : s[i].job = i
  <2> DEFINE f == [i \in 1..n |-> s[i].job]
  <2>1. f \in [1..n -> 1..n]
    BY <1>9
  <2>2. \A i, k \in 1..n : i < k => f[i] <= f[k]
    BY <1>7, <1>8
  <2>3. \A y \in 1..n : \E x \in 1..n : f[x] = y
    <3> SUFFICES ASSUME NEW y \in 1..n PROVE \E x \in 1..n : f[x] = y
      OBVIOUS
    <3>1. PICK k \in 1..n : ended[k].job = y
      BY <1>4
    <3>2. ended[k] \in ToSet(s)
      BY <1>3, <1>7
    <3>3. PICK x \in 1..n : s[x] = ended[k]
      BY <1>8, <3>2 DEF ToSet
    <3> QED
      BY <3>1, <3>3
  <2>4. \A i \in 1..n : f[i] = s[i].job
    OBVIOUS
  <2> HIDE DEF f
  <2> QED
    BY <1>1, <2>1, <2>2, <2>3, <2>4, OrderedCounts
<1>11. Len(s) = n
  <2>1. s \in Seq(Results)
    <3>1. s \in [1..n -> Results]
      BY <1>7, <1>8, <1>9
    <3> QED
      BY <1>1, <3>1
  <2> QED
    BY <1>1, <1>8, <2>1
<1> QED
  BY <1>1, <1>10, <1>11 DEF n, s

AnswerInv == JobsInv /\ DOMAIN answer = Batches /\ AnswerInOrder

(* An answer is given in order, and stays as it is until it is taken.      *)
LEMMA AnswerInit == Init => AnswerInv
<1>1. Init => JobsInv
  BY JobsInit
<1> QED
  BY <1>1 DEF Init, AnswerInv, AnswerInOrder

LEMMA AnswerNext == AnswerInv /\ [Next]_vars => AnswerInv'
<1> SUFFICES ASSUME AnswerInv, [Next]_vars PROVE AnswerInv'
  OBVIOUS
<1>1. JobsInv /\ DOMAIN answer = Batches /\ AnswerInOrder
  BY DEF AnswerInv
<1>2. JobsInv'
  BY <1>1, JobsNext
<1>3. SUFFICES DOMAIN answer' = Batches /\ AnswerInOrder'
  BY <1>2 DEF AnswerInv
<1>4. ASSUME answer' = answer, NEW b \in Batches, NEW how \in {"idle", "running", "error", "dropped"},
             phase' = [phase EXCEPT ![b] = how] \/ phase' = phase
      PROVE  DOMAIN answer' = Batches /\ AnswerInOrder'
  <2>1. \A c \in Batches : phase'[c] = "ok" => phase[c] = "ok"
    BY <1>1, <1>4 DEF JobsInv, TypeOK
  <2> QED
    BY <1>1, <1>4, <2>1 DEF AnswerInOrder
<1>5. CASE Tick \/ UNCHANGED vars
  <2>1. UNCHANGED <<phase, answer>>
    BY <1>5 DEF Tick, vars, callVars
  <2> QED
    BY <1>1, <2>1 DEF AnswerInOrder
<1>6. ASSUME NEW b \in Batches, NEW kind, NEW limit, NEW span, Invoke(b, kind, limit, span)
      PROVE  DOMAIN answer' = Batches /\ AnswerInOrder'
  BY <1>4, <1>6 DEF Invoke
<1>7. ASSUME NEW b \in Batches, Begin(b) PROVE DOMAIN answer' = Batches /\ AnswerInOrder'
  BY <1>4, <1>7 DEF Begin
<1>8. ASSUME NEW b \in Batches, NEW a \in active[b], JobEnds(b, a)
      PROVE  DOMAIN answer' = Batches /\ AnswerInOrder'
  BY <1>4, <1>8 DEF JobEnds
<1>9. ASSUME NEW b \in Batches, NEW jobs, Drop(b, jobs, "error") \/ Drop(b, jobs, "dropped")
      PROVE  DOMAIN answer' = Batches /\ AnswerInOrder'
  BY <1>4, <1>9 DEF Drop
<1>10. ASSUME NEW b \in Batches, Return(b) PROVE DOMAIN answer' = Batches /\ AnswerInOrder'
  <2>1. /\ phase[b] = "running" /\ waiting[b] = {} /\ active[b] = {}
        /\ phase' = [phase EXCEPT ![b] = "ok"]
        /\ answer' = [answer EXCEPT ![b] = InOrder(done[b])]
    BY <1>10 DEF Return
  <2>2. done[b] \in Seq(Results) /\ DOMAIN phase = Batches
    BY <1>1 DEF JobsInv, TypeOK
  <2>3. \A i, k \in DOMAIN done[b] : done[b][i].job = done[b][k].job => i = k
    BY <1>1 DEF JobsInv, JobsApart, Apart
  <2>4. Len(done[b]) = Len(List)
    <3>1. Cardinality(active[b]) + Cardinality(waiting[b]) + Len(done[b]) = Len(List)
      BY <1>1, <2>1 DEF JobsInv, BoundedAndComplete
    <3>2. Cardinality(active[b]) = 0 /\ Cardinality(waiting[b]) = 0
      BY <2>1, FS_EmptySet
    <3>3. Len(done[b]) \in Nat /\ Len(List) \in Nat
      BY <2>2, JobsAreNumbers
    <3> QED
      BY <3>1, <3>2, <3>3
  <2>5. /\ Len(InOrder(done[b])) = Len(List)
        /\ \A j \in Jobs : InOrder(done[b])[j].job = j
    BY <2>2, <2>3, <2>4, InOrderIsList
  <2>6. answer'[b] = InOrder(done[b]) /\ \A c \in Batches \ {b} :
            answer'[c] = answer[c] /\ phase'[c] = phase[c]
    BY <1>1, <2>1, <2>2
  <2>7. AnswerInOrder'
    BY <1>1, <2>5, <2>6 DEF AnswerInOrder
  <2> QED
    BY <1>1, <2>1, <2>7
<1>11. ASSUME NEW b \in Batches, Taken(b) PROVE DOMAIN answer' = Batches /\ AnswerInOrder'
  <2>1. phase' = [phase EXCEPT ![b] = "idle"] /\ answer' = [answer EXCEPT ![b] = <<>>]
    BY <1>11 DEF Taken
  <2>2. \A c \in Batches : phase'[c] = "ok" => phase[c] = "ok" /\ answer'[c] = answer[c]
    BY <1>1, <2>1 DEF JobsInv, TypeOK
  <2> QED
    BY <1>1, <2>1, <2>2 DEF AnswerInOrder
<1>12. ASSUME NEW b \in Batches, NEW a \in active[b], Hangs(b, a)
       PROVE  DOMAIN answer' = Batches /\ AnswerInOrder'
  <2>1. UNCHANGED <<phase, answer>>
    BY <1>12 DEF Hangs
  <2> QED
    BY <1>1, <2>1 DEF AnswerInOrder
<1> QED
  BY <1>5, <1>6, <1>7, <1>8, <1>9, <1>10, <1>11, <1>12 DEF Next, Advance, JobFails, Cancel,
     StoreFails

(* sort_by_key on the index of the request: an answer has a result for     *)
(* every ticker of the list, each in its place.                            *)
THEOREM AnswersInOrder == Spec => []AnswerInOrder
<1>1. AnswerInv => AnswerInOrder
  BY DEF AnswerInv
<1> QED
  BY <1>1, AnswerInit, AnswerNext, PTL DEF Spec
=============================================================================
