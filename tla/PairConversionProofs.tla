------------------------ MODULE PairConversionProofs ------------------------
(***************************************************************************)
(* Requests and conversions, for every set of words, every table of        *)
(* aliases, any bridges and whatever the feed answers.  What is defined by *)
(* recursion, the trail of a chain for instance, is reasoned about with    *)
(* the least number at which a claim on it would fail.                     *)
(***************************************************************************)
EXTENDS PairConversion, FiniteSetTheorems, WellFoundedInduction, TLAPS

(* A set of natural numbers has a least element, which is its Min.         *)
LEMMA LeastOf ==
    ASSUME NEW S, S \subseteq Nat, S # {}
    PROVE  Min(S) \in S /\ \A y \in S : Min(S) <= y
<1> DEFINE R == OpToRel(<, Nat)
<1>1. IsWellFoundedOn(R, Nat)
  BY NatLessThanWellFounded
<1>2. \A x, y \in Nat : x < y => <<x, y>> \in R
  BY DEF OpToRel
<1> HIDE DEF R
<1>3. PICK x \in S : \A y \in S : ~(<<y, x>> \in R)
  BY <1>1, WFMin
<1>4. \A y \in S : ~(y < x)
  BY <1>2, <1>3
<1>5. \E z \in S : \A y \in S : z <= y
  BY <1>3, <1>4
<1> QED BY <1>5, Zenon DEF Min
-----------------------------------------------------------------------------
(* The code after another on a chain: itself at the end.                   *)
After(aliases, code) == IF code \in DOMAIN aliases THEN aliases[code] ELSE code

(* A trail starts with the code and follows the aliases.                   *)
LEMMA TrailFollows ==
    ASSUME NEW aliases, IsFiniteSet(DOMAIN aliases), NEW code
    PROVE  LET trail == Trail(aliases, code)
               last  == Cardinality(DOMAIN aliases) + 1
           IN  /\ last \in Nat /\ DOMAIN trail = 0..last
               /\ trail[0] = code
               /\ \A n \in 1..last : trail[n] = After(aliases, trail[n - 1])
<1> DEFINE last == Cardinality(DOMAIN aliases) + 1
           At(f, n) == IF n = 0 THEN code
                       ELSE IF f[n - 1] \in DOMAIN aliases THEN aliases[f[n - 1]]
                       ELSE f[n - 1]
           IsTrail(f, m) == f = [n \in 0..m |-> At(f, n)]
           Missing == {m \in Nat : ~\E f : IsTrail(f, m)}
<1>1. last \in Nat
  BY FS_CardinalityType
<1>2. Missing = {}
  <2> SUFFICES ASSUME Missing # {} PROVE FALSE
    OBVIOUS
  <2> DEFINE m == Min(Missing)
  <2>1. Missing \subseteq Nat
    OBVIOUS
  <2>2. m \in Missing /\ \A k \in Missing : m <= k
    <3> HIDE DEF Missing
    <3> QED BY <2>1, LeastOf
  <2>3. m \in Nat /\ ~\E f : IsTrail(f, m)
    BY <2>2
  <2>4. CASE m = 0
    <3> DEFINE f == [n \in 0..0 |-> code]
    <3>1. IsTrail(f, 0)
      OBVIOUS
    <3> QED BY <2>3, <2>4, <3>1
  <2>5. CASE m # 0
    <3>1. m - 1 \in Nat /\ m - 1 \notin Missing
      <4> HIDE DEF m, Missing
      <4> QED BY <2>2, <2>3, <2>5
    <3>2. PICK f : IsTrail(f, m - 1)
      BY <3>1
    <3> DEFINE g == [n \in 0..m |-> IF n = m THEN At(f, m) ELSE f[n]]
    <3> HIDE DEF m, Missing
    <3>3. \A n \in 0..m : g[n] = At(g, n)
      <4>1. \A n \in 0..(m - 1) : f[n] = At(f, n)
        BY <3>2
      <4>2. \A n \in 0..m : n # 0 => n - 1 \in 0..m /\ n - 1 # m
        BY <2>3
      <4>3. \A n \in 0..m : n # 0 => g[n - 1] = f[n - 1]
        BY <4>2
      <4>4. \A n \in 0..m : n # m => n \in 0..(m - 1)
        BY <2>3
      <4> QED BY <4>1, <4>3, <4>4
    <3>4. IsTrail(g, m)
      BY <3>3
    <3> QED BY <2>3, <3>4
  <2> QED BY <2>4, <2>5
<1>3. \E f : IsTrail(f, last)
  BY <1>1, <1>2
<1>4. Trail(aliases, code) = CHOOSE f : IsTrail(f, last)
  BY DEF Trail
<1>5. IsTrail(Trail(aliases, code), last)
  BY <1>3, <1>4, Zenon
<1> DEFINE trail == Trail(aliases, code)
<1>6. DOMAIN trail = 0..last /\ \A n \in 0..last : trail[n] = At(trail, n)
  BY <1>5
<1>7. 0 \in 0..last /\ \A n \in 1..last : n \in 0..last /\ n # 0
  BY <1>1
<1> HIDE DEF last, trail
<1>8. trail[0] = code /\ \A n \in 1..last : trail[n] = After(aliases, trail[n - 1])
  BY <1>6, <1>7 DEF After
<1> QED BY <1>1, <1>6, <1>8 DEF last, trail

(* Where following a chain stops: at a code without an alias, or that is   *)
(* its own, or that has been met.                                          *)
Stops(aliases, trail, n) ==
    \/ trail[n] \notin DOMAIN aliases
    \/ aliases[trail[n]] = trail[n]
    \/ trail[n] \in Visited(trail, n)

StopsOf(aliases, trail) == {n \in DOMAIN trail : Stops(aliases, trail, n)}

(* It does stop: a trail of one more step than there are aliases cannot    *)
(* have met only codes with an alias, each of them once.                   *)
LEMMA TrailStops ==
    ASSUME NEW aliases, IsFiniteSet(DOMAIN aliases), NEW code
    PROVE  StopsOf(aliases, Trail(aliases, code)) # {}
<1> DEFINE last  == Cardinality(DOMAIN aliases) + 1
           trail == Trail(aliases, code)
           f     == [n \in 0..last |-> trail[n]]
<1>1. last \in Nat /\ DOMAIN trail = 0..last
  BY TrailFollows
<1>2. IsFiniteSet(0..last) /\ Cardinality(0..last) = last + 1
  BY <1>1, FS_Interval
<1>3. Cardinality(DOMAIN aliases) < Cardinality(0..last)
  BY <1>2, FS_CardinalityType
<1> HIDE DEF last, trail
<1> SUFFICES ASSUME \A n \in 0..last : ~Stops(aliases, trail, n)
             PROVE  FALSE
  BY <1>1 DEF StopsOf, trail
<1>4. f \in [0..last -> DOMAIN aliases]
  BY DEF Stops
<1>5. PICK x, y \in 0..last : x # y /\ f[x] = f[y]
  <2> DEFINE D == DOMAIN aliases
             I == 0..last
  <2>1. IsFiniteSet(I) /\ IsFiniteSet(D) /\ Cardinality(D) < Cardinality(I) /\ f \in [I -> D]
    BY <1>2, <1>3, <1>4
  <2> HIDE DEF f, D, I
  <2>2. \E x, y \in I : x # y /\ f[x] = f[y]
    BY <2>1, FS_PigeonHole
  <2> QED BY <2>2 DEF I
<1>6. ASSUME NEW a \in 0..last, NEW b \in 0..last, a < b
      PROVE  trail[a] # trail[b]
  <2>1. a \in 0..(b - 1)
    BY <1>1, <1>6
  <2>2. trail[a] \in Visited(trail, b)
    BY <2>1 DEF Visited
  <2> QED BY <2>2 DEF Stops
<1>7. x < y \/ y < x
  BY <1>1, <1>5
<1> QED BY <1>5, <1>6, <1>7

(* A chain resolves to the first code of its trail at which following      *)
(* stops, in the client and in the catalog alike.                          *)
LEMMA ChainEnds ==
    ASSUME NEW aliases, IsFiniteSet(DOMAIN aliases), NEW code
    PROVE  LET trail == Trail(aliases, code)
               last  == Cardinality(DOMAIN aliases) + 1
           IN  \E end \in 0..last :
                   /\ ResolveAliasChain(aliases, code) = trail[end]
                   /\ Stops(aliases, trail, end)
                   /\ \A n \in 0..last : Stops(aliases, trail, n) => end <= n
<1> DEFINE trail == Trail(aliases, code)
           last  == Cardinality(DOMAIN aliases) + 1
           all   == StopsOf(aliases, trail)
<1>1. last \in Nat /\ DOMAIN trail = 0..last /\ all # {}
  BY TrailFollows, TrailStops
<1>2. \A n \in 0..last : n \in Nat
  BY <1>1
<1>3. all = {n \in 0..last : Stops(aliases, trail, n)}
  BY <1>1 DEF StopsOf
<1>4. ResolveAliasChain(aliases, code) = trail[Min(all)]
  <2>1. all = {n \in DOMAIN trail : \/ trail[n] \notin DOMAIN aliases
                                    \/ trail[n] \in Visited(trail, n)
                                    \/ aliases[trail[n]] = trail[n]}
    BY Zenon DEF StopsOf, Stops
  <2> HIDE DEF all
  <2> QED BY <2>1, Zenon DEF ResolveAliasChain
<1> HIDE DEF trail, last, all
<1>5. Min(all) \in all /\ \A n \in all : Min(all) <= n
  BY <1>1, <1>2, <1>3, LeastOf
<1>6. /\ Min(all) \in 0..last
      /\ Stops(aliases, trail, Min(all))
      /\ \A n \in 0..last : Stops(aliases, trail, n) => Min(all) <= n
  BY <1>3, <1>5
<1> QED BY <1>4, <1>6 DEF trail, last

LEMMA ResolversAlike ==
    ASSUME NEW aliases, NEW word
    PROVE  ResolveCodeAlias(aliases, word) = ResolveAliasChain(aliases, Normal[word])
<1> DEFINE trail == Trail(aliases, Normal[word])
           all   == {n \in DOMAIN trail : \/ trail[n] \notin DOMAIN aliases
                                          \/ aliases[trail[n]] = trail[n]
                                          \/ trail[n] \in Visited(trail, n)}
<1>1. ResolveCodeAlias(aliases, word) = trail[Min(all)]
  BY Zenon DEF ResolveCodeAlias
<1>2. all = {n \in DOMAIN trail : \/ trail[n] \notin DOMAIN aliases
                                  \/ trail[n] \in Visited(trail, n)
                                  \/ aliases[trail[n]] = trail[n]}
  BY Zenon
<1> HIDE DEF all
<1>3. ResolveAliasChain(aliases, Normal[word]) = trail[Min(all)]
  BY <1>2, Zenon DEF ResolveAliasChain
<1> QED BY <1>1, <1>3

(* The rest of a trail that has come back to a code is a trail of it.      *)
LEMMA TrailComesBack ==
    ASSUME NEW aliases, IsFiniteSet(DOMAIN aliases), NEW code,
           NEW m \in Nat, NEW end \in 0..(Cardinality(DOMAIN aliases) + 1), m < end
    PROVE  LET t == Trail(aliases, code)
               u == Trail(aliases, t[m])
           IN  \A j \in 0..(end - m) : u[j] = t[m + j]
<1> DEFINE last == Cardinality(DOMAIN aliases) + 1
           t == Trail(aliases, code)
           u == Trail(aliases, t[m])
           Wrong == {j \in 0..(end - m) : u[j] # t[m + j]}
           j == Min(Wrong)
<1>1. last \in Nat /\ end \in 0..last
  BY FS_CardinalityType
<1>2. \A n \in 1..last : t[n] = After(aliases, t[n - 1])
  BY TrailFollows
<1>3. u[0] = t[m] /\ \A n \in 1..last : u[n] = After(aliases, u[n - 1])
  BY TrailFollows
<1> SUFFICES ASSUME Wrong # {} PROVE FALSE
  OBVIOUS
<1> HIDE DEF last, t, u
<1>4. Wrong \subseteq Nat
  BY <1>1
<1>5. j \in Wrong /\ \A k \in Wrong : j <= k
  <2> HIDE DEF Wrong
  <2> QED BY <1>4, LeastOf
<1>6. j \in 0..(end - m) /\ u[j] # t[m + j]
  BY <1>5
<1>7. j - 1 \notin Wrong
  <2> HIDE DEF Wrong, j
  <2> QED BY <1>4, <1>5
<1> HIDE DEF j
<1>8. CASE j = 0
  BY <1>3, <1>6, <1>8
<1>9. CASE j # 0
  <2>1. /\ j - 1 \in 0..(end - m) /\ j \in 1..last /\ m + j \in 1..last
        /\ m + (j - 1) = (m + j) - 1
    BY <1>1, <1>6, <1>9
  <2>2. u[j - 1] = t[(m + j) - 1]
    BY <1>7, <2>1
  <2>3. u[j] = After(aliases, u[j - 1]) /\ t[m + j] = After(aliases, t[(m + j) - 1])
    BY <1>2, <1>3, <2>1
  <2> QED BY <1>6, <2>2, <2>3
<1> QED BY <1>8, <1>9

(* Resolving what a chain resolves to changes nothing: it is at the end of *)
(* its chain, or on a cycle, to which its own chain comes back.            *)
LEMMA ResolvingTwice ==
    ASSUME NEW aliases, IsFiniteSet(DOMAIN aliases), NEW code
    PROVE  LET r == ResolveAliasChain(aliases, code)
           IN  ResolveAliasChain(aliases, r) = r
<1> DEFINE last == Cardinality(DOMAIN aliases) + 1
           t == Trail(aliases, code)
           r == ResolveAliasChain(aliases, code)
           u == Trail(aliases, r)
<1>1. last \in Nat
  BY FS_CardinalityType
<1>2. PICK e \in 0..last : /\ r = t[e] /\ Stops(aliases, t, e)
                           /\ \A n \in 0..last : Stops(aliases, t, n) => e <= n
  BY ChainEnds
<1>3. PICK d \in 0..last : /\ ResolveAliasChain(aliases, r) = u[d] /\ Stops(aliases, u, d)
                           /\ \A n \in 0..last : Stops(aliases, u, n) => d <= n
  BY ChainEnds
<1>4. u[0] = r
  BY TrailFollows
<1>5. \A m \in Nat : m < e /\ r = t[m] => \A j \in 0..(e - m) : u[j] = t[m + j]
  BY TrailComesBack
<1>6. Stops(aliases, t, e) <=> \/ t[e] \notin DOMAIN aliases
                              \/ aliases[t[e]] = t[e]
                              \/ t[e] \in Visited(t, e)
  BY DEF Stops
<1> HIDE DEF last, t, r, u
<1>7. CASE r \notin DOMAIN aliases \/ aliases[r] = r
  <2>1. Stops(aliases, u, 0)
    BY <1>4, <1>7 DEF Stops
  <2>2. d = 0
    BY <1>1, <1>3, <2>1
  <2> QED BY <1>3, <1>4, <2>2 DEF r
<1>8. CASE r \in DOMAIN aliases /\ aliases[r] # r
  <2>1. PICK m \in 0..(e - 1) : t[m] = r
    BY <1>2, <1>6, <1>8 DEF Visited
  <2>2. m \in Nat /\ m < e /\ e - m \in 0..last /\ m + (e - m) = e
    BY <1>1, <2>1
  <2>3. \A j \in 0..(e - m) : u[j] = t[m + j]
    BY <1>5, <2>1, <2>2
  <2>4. u[e - m] = r
    BY <1>2, <2>2, <2>3
  <2>5. Stops(aliases, u, e - m)
    <3>1. 0 \in 0..((e - m) - 1)
      BY <2>2
    <3> QED BY <1>4, <2>4, <3>1 DEF Stops, Visited
  <2>6. d <= e - m
    BY <1>3, <2>2, <2>5
  <2>7. ASSUME d < e - m PROVE FALSE
    <3>1. d \in 0..(e - m) /\ m + d \in 0..last /\ m + d < e
      BY <1>1, <1>3, <2>2, <2>7
    <3>2. u[d] = t[m + d]
      BY <2>3, <3>1
    <3>3. ~Stops(aliases, t, m + d)
      BY <1>1, <1>2, <3>1
    <3>4. u[d] \in Visited(u, d)
      BY <1>3, <3>2, <3>3 DEF Stops
    <3>5. PICK i \in 0..(d - 1) : u[i] = u[d]
      BY <3>4 DEF Visited
    <3>6. i \in 0..(e - m) /\ m + i \in 0..((m + d) - 1)
      BY <1>1, <2>2, <3>1, <3>5
    <3>7. t[m + i] = t[m + d]
      BY <2>3, <3>2, <3>5, <3>6
    <3>8. t[m + d] \in Visited(t, m + d)
      BY <3>6, <3>7 DEF Visited
    <3> QED BY <3>3, <3>8 DEF Stops
  <2>8. d = e - m
    BY <1>1, <1>3, <2>2, <2>6, <2>7
  <2> QED BY <1>3, <2>4, <2>8 DEF r
<1> QED BY <1>7, <1>8

(* A chain of codes ends in a code.                                        *)
LEMMA ChainTyped ==
    ASSUME NEW aliases, IsFiniteSet(DOMAIN aliases), NEW code \in Codes,
           \A a \in DOMAIN aliases : aliases[a] \in Codes
    PROVE  ResolveAliasChain(aliases, code) \in Codes
<1> DEFINE last == Cardinality(DOMAIN aliases) + 1
           t == Trail(aliases, code)
           Wrong == {n \in 0..last : t[n] \notin Codes}
           n == Min(Wrong)
<1>1. /\ last \in Nat /\ t[0] = code
      /\ \A k \in 1..last : t[k] = After(aliases, t[k - 1])
  BY TrailFollows
<1>2. \E e \in 0..last : ResolveAliasChain(aliases, code) = t[e]
  BY ChainEnds
<1> HIDE DEF last, t
<1>3. Wrong = {}
  <2> SUFFICES ASSUME Wrong # {} PROVE FALSE
    OBVIOUS
  <2>1. Wrong \subseteq Nat
    BY <1>1
  <2>2. n \in Wrong /\ \A k \in Wrong : n <= k
    <3> HIDE DEF Wrong
    <3> QED BY <2>1, LeastOf
  <2>3. n \in 0..last /\ t[n] \notin Codes
    BY <2>2
  <2>4. n - 1 \notin Wrong
    <3> HIDE DEF Wrong, n
    <3> QED BY <2>1, <2>2
  <2> HIDE DEF n
  <2>5. n # 0
    BY <1>1, <2>3
  <2>6. n \in 1..last /\ n - 1 \in 0..last
    BY <1>1, <2>3, <2>5
  <2>7. t[n - 1] \in Codes
    BY <2>4, <2>6
  <2> QED BY <1>1, <2>3, <2>6, <2>7 DEF After
<1> QED BY <1>2, <1>3

-----------------------------------------------------------------------------
(* Tables of aliases as a client or a catalog has them.                    *)
IsTable(table) ==
    /\ IsFiniteSet(DOMAIN table) /\ DOMAIN table \subseteq Codes
    /\ \A a \in DOMAIN table : table[a] \in Codes

(* What is laid over a table counts, the rest is as it was.                *)
LEMMA OverlayIs ==
    ASSUME NEW entries, NEW table
    PROVE  LET both == Overlay(entries, table)
           IN  /\ DOMAIN both = DOMAIN entries \cup DOMAIN table
               /\ \A k \in DOMAIN entries : both[k] = entries[k]
               /\ \A k \in DOMAIN table \ DOMAIN entries : both[k] = table[k]
BY DEF Overlay

LEMMA OverlayIsTable ==
    ASSUME NEW entries, NEW table, IsTable(entries), IsTable(table)
    PROVE  IsTable(Overlay(entries, table))
<1> DEFINE both == Overlay(entries, table)
<1>1. /\ DOMAIN both = DOMAIN entries \cup DOMAIN table
      /\ \A k \in DOMAIN entries : both[k] = entries[k]
      /\ \A k \in DOMAIN table \ DOMAIN entries : both[k] = table[k]
  BY OverlayIs
<1>2. IsFiniteSet(DOMAIN entries \cup DOMAIN table)
  BY FS_Union DEF IsTable
<1> HIDE DEF both
<1>3. IsTable(both)
  BY <1>1, <1>2 DEF IsTable
<1> QED BY <1>3 DEF both

(* One call of code_alias adds at most the alias it is called with.        *)
LEMMA CodeAliasIsTable ==
    ASSUME NEW table, IsTable(table), NEW alias \in Words, NEW canonical \in Words
    PROVE  LET next == CodeAlias(table, alias, canonical)
           IN  IsTable(next) /\ DOMAIN next \subseteq DOMAIN table \cup {Normal[alias]}
<1> DEFINE one == [k \in {Normal[alias]} |-> Normal[canonical]]
<1>1. Normal[alias] \in Codes /\ Normal[canonical] \in Codes
  BY AliasAssumption, ConversionAssumption
<1>2. IsFiniteSet({Normal[alias]})
  BY FS_Singleton
<1>3. DOMAIN one = {Normal[alias]} /\ \A k \in DOMAIN one : one[k] = Normal[canonical]
  OBVIOUS
<1>4. CodeAlias(table, alias, canonical) \in {table, Overlay(one, table)}
  BY DEF CodeAlias
<1> HIDE DEF one
<1>5. IsTable(one)
  BY <1>1, <1>2, <1>3 DEF IsTable
<1>6. IsTable(Overlay(one, table)) /\ DOMAIN Overlay(one, table) = DOMAIN one \cup DOMAIN table
  BY <1>5, OverlayIsTable, OverlayIs
<1> QED BY <1>3, <1>4, <1>6

(* The builder's table is that of the calls one after another.             *)
LEMMA WithAliasesSteps ==
    ASSUME NEW calls \in Seq(Words \X Words)
    PROVE  \E step : /\ WithAliases(calls) = step[Len(calls)]
                     /\ step[0] = <<>>
                     /\ \A n \in 1..Len(calls) :
                            step[n] = CodeAlias(step[n - 1], calls[n][1], calls[n][2])
<1> DEFINE last == Len(calls)
           At(f, n) == IF n = 0 THEN <<>>
                       ELSE CodeAlias(f[n - 1], calls[n][1], calls[n][2])
           IsRun(f, m) == f = [n \in 0..m |-> At(f, n)]
           Missing == {m \in Nat : ~\E f : IsRun(f, m)}
<1>1. last \in Nat
  OBVIOUS
<1>2. Missing = {}
  <2> SUFFICES ASSUME Missing # {} PROVE FALSE
    OBVIOUS
  <2> DEFINE m == Min(Missing)
  <2>1. Missing \subseteq Nat
    OBVIOUS
  <2>2. m \in Missing /\ \A k \in Missing : m <= k
    <3> HIDE DEF Missing
    <3> QED BY <2>1, LeastOf
  <2>3. m \in Nat /\ ~\E f : IsRun(f, m)
    BY <2>2
  <2>4. CASE m = 0
    <3> DEFINE f == [n \in 0..0 |-> <<>>]
    <3>1. IsRun(f, 0)
      OBVIOUS
    <3> QED BY <2>3, <2>4, <3>1
  <2>5. CASE m # 0
    <3>1. m - 1 \in Nat /\ m - 1 \notin Missing
      <4> HIDE DEF m, Missing
      <4> QED BY <2>2, <2>3, <2>5
    <3>2. PICK f : IsRun(f, m - 1)
      BY <3>1
    <3> DEFINE g == [n \in 0..m |-> IF n = m THEN At(f, m) ELSE f[n]]
    <3> HIDE DEF m, Missing
    <3>3. \A n \in 0..m : g[n] = At(g, n)
      <4>1. \A n \in 0..(m - 1) : f[n] = At(f, n)
        BY <3>2
      <4>2. \A n \in 0..m : n # 0 => n - 1 \in 0..m /\ n - 1 # m
        BY <2>3
      <4>3. \A n \in 0..m : n # 0 => g[n - 1] = f[n - 1]
        BY <4>2
      <4>4. \A n \in 0..m : n # m => n \in 0..(m - 1)
        BY <2>3
      <4> QED BY <4>1, <4>3, <4>4
    <3>4. IsRun(g, m)
      BY <3>3
    <3> QED BY <2>3, <3>4
  <2> QED BY <2>4, <2>5
<1>3. \E f : IsRun(f, last)
  BY <1>1, <1>2
<1> DEFINE step == CHOOSE f : IsRun(f, last)
<1>4. WithAliases(calls) = step[last]
  BY DEF WithAliases
<1>5. IsRun(step, last)
  BY <1>3, Zenon
<1> HIDE DEF step
<1>6. \A n \in 0..last : step[n] = At(step, n)
  BY <1>5
<1>7. 0 \in 0..last /\ \A n \in 1..last : n \in 0..last /\ n # 0
  BY <1>1
<1> HIDE DEF last
<1>8. step[0] = <<>> /\ \A n \in 1..last : step[n] = CodeAlias(step[n - 1], calls[n][1], calls[n][2])
  BY <1>6, <1>7
<1> QED BY <1>4, <1>8 DEF last

(* They make a table, of the aliases they are called with.                 *)
LEMMA WithAliasesIsTable ==
    ASSUME NEW calls \in Seq(Words \X Words)
    PROVE  LET table == WithAliases(calls)
           IN  IsTable(table) /\ DOMAIN table \subseteq {Normal[calls[i][1]] : i \in DOMAIN calls}
<1> DEFINE last  == Len(calls)
           named == {Normal[calls[i][1]] : i \in DOMAIN calls}
<1>1. PICK step : /\ WithAliases(calls) = step[last]
                  /\ step[0] = <<>>
                  /\ \A n \in 1..last :
                         step[n] = CodeAlias(step[n - 1], calls[n][1], calls[n][2])
  BY WithAliasesSteps
<1> DEFINE Good(n) == IsTable(step[n]) /\ DOMAIN step[n] \subseteq named
           Wrong   == {n \in 0..last : ~Good(n)}
           n       == Min(Wrong)
<1>2. last \in Nat
  OBVIOUS
<1>3. ASSUME NEW k \in 1..last
      PROVE  calls[k][1] \in Words /\ calls[k][2] \in Words /\ Normal[calls[k][1]] \in named
  OBVIOUS
<1>4. Good(0)
  <2>1. DOMAIN <<>> = {}
    OBVIOUS
  <2>2. IsFiniteSet({})
    BY FS_EmptySet
  <2> HIDE DEF named
  <2> QED BY <1>1, <2>1, <2>2 DEF IsTable
<1> HIDE DEF last, named
<1>5. ASSUME NEW k \in 1..last, Good(k - 1) PROVE Good(k)
  <2>1. /\ IsTable(step[k - 1]) /\ DOMAIN step[k - 1] \subseteq named
        /\ step[k] = CodeAlias(step[k - 1], calls[k][1], calls[k][2])
    BY <1>1, <1>5
  <2>2. IsTable(step[k]) /\ DOMAIN step[k] \subseteq DOMAIN step[k - 1] \cup {Normal[calls[k][1]]}
    BY <1>3, <2>1, CodeAliasIsTable
  <2> QED BY <1>3, <2>1, <2>2
<1> HIDE DEF Good
<1>6. Wrong = {}
  <2> SUFFICES ASSUME Wrong # {} PROVE FALSE
    OBVIOUS
  <2>1. Wrong \subseteq Nat
    BY <1>2
  <2>2. n \in Wrong /\ \A k \in Wrong : n <= k
    <3> HIDE DEF Wrong
    <3> QED BY <2>1, LeastOf
  <2>3. n \in 0..last /\ ~Good(n)
    BY <2>2
  <2>4. n - 1 \notin Wrong
    <3> HIDE DEF Wrong, n
    <3> QED BY <2>1, <2>2
  <2> HIDE DEF n
  <2>5. n \in 1..last /\ n - 1 \in 0..last
    BY <1>2, <1>4, <2>3
  <2> QED BY <1>5, <2>3, <2>4, <2>5
<1>7. Good(last)
  BY <1>2, <1>6
<1> QED BY <1>1, <1>7 DEF Good, named

(* The bridges are codes in an order.                                      *)
LEMMA BridgesTyped == BridgeCurrencies \in Seq(Codes)
<1> DEFINE last == Len(BridgeTexts)
           Added(bridges, code) ==
               IF code \in {bridges[i] : i \in DOMAIN bridges} \cup {Blank} THEN bridges
               ELSE Append(bridges, code)
           At(f, n) == IF n = 0 THEN <<>> ELSE Added(f[n - 1], Normal[BridgeTexts[n]])
           IsRun(f, m) == f = [n \in 0..m |-> At(f, n)]
           Missing == {m \in Nat : ~\E f : IsRun(f, m)}
<1>1. last \in Nat /\ \A n \in 1..last : Normal[BridgeTexts[n]] \in Codes
  <2>1. BridgeTexts \in Seq(Words)
    BY ConversionAssumption
  <2> QED BY <2>1, AliasAssumption, ConversionAssumption
<1>2. ASSUME NEW bridges \in Seq(Codes), NEW code \in Codes
      PROVE  Added(bridges, code) \in Seq(Codes)
  OBVIOUS
<1> HIDE DEF last, Added
<1>3. Missing = {}
  <2> SUFFICES ASSUME Missing # {} PROVE FALSE
    OBVIOUS
  <2> DEFINE m == Min(Missing)
  <2>1. Missing \subseteq Nat
    OBVIOUS
  <2>2. m \in Missing /\ \A k \in Missing : m <= k
    <3> HIDE DEF Missing
    <3> QED BY <2>1, LeastOf
  <2>3. m \in Nat /\ ~\E f : IsRun(f, m)
    BY <2>2
  <2>4. CASE m = 0
    <3> DEFINE f == [n \in 0..0 |-> <<>>]
    <3>1. IsRun(f, 0)
      OBVIOUS
    <3> QED BY <2>3, <2>4, <3>1
  <2>5. CASE m # 0
    <3>1. m - 1 \in Nat /\ m - 1 \notin Missing
      <4> HIDE DEF m, Missing
      <4> QED BY <2>2, <2>3, <2>5
    <3>2. PICK f : IsRun(f, m - 1)
      BY <3>1
    <3> DEFINE g == [n \in 0..m |-> IF n = m THEN At(f, m) ELSE f[n]]
    <3> HIDE DEF m, Missing
    <3>3. \A n \in 0..m : g[n] = At(g, n)
      <4>1. \A n \in 0..(m - 1) : f[n] = At(f, n)
        BY <3>2
      <4>2. \A n \in 0..m : n # 0 => n - 1 \in 0..m /\ n - 1 # m
        BY <2>3
      <4>3. \A n \in 0..m : n # 0 => g[n - 1] = f[n - 1]
        BY <4>2
      <4>4. \A n \in 0..m : n # m => n \in 0..(m - 1)
        BY <2>3
      <4> QED BY <4>1, <4>3, <4>4
    <3>4. IsRun(g, m)
      BY <3>3
    <3> QED BY <2>3, <3>4
  <2> QED BY <2>4, <2>5
<1>4. \E f : IsRun(f, last)
  BY <1>1, <1>3
<1> DEFINE step == CHOOSE f : f = [n \in 0..last |-> At(f, n)]
<1>5. BridgeCurrencies = step[last]
  BY DEF BridgeCurrencies, Added, last
<1>6. step[last] \in Seq(Codes)
  <2>1. step = [n \in 0..last |-> At(step, n)]
    BY <1>4, Zenon
  <2> HIDE DEF step
  <2>2. \A n \in 0..last : step[n] = At(step, n)
    BY <2>1
  <2>3. step[0] \in Seq(Codes)
    <3>1. 0 \in 0..last
      BY <1>1
    <3>2. step[0] = <<>>
      BY <2>2, <3>1
    <3> QED BY <3>2
  <2> DEFINE Wrong == {n \in 0..last : step[n] \notin Seq(Codes)}
             n == Min(Wrong)
  <2>4. Wrong = {}
    <3> SUFFICES ASSUME Wrong # {} PROVE FALSE
      OBVIOUS
    <3>1. Wrong \subseteq Nat
      BY <1>1
    <3>2. n \in Wrong /\ \A k \in Wrong : n <= k
      <4> HIDE DEF Wrong
      <4> QED BY <3>1, LeastOf
    <3>3. n \in 0..last /\ step[n] \notin Seq(Codes)
      BY <3>2
    <3>4. n - 1 \notin Wrong
      <4> HIDE DEF Wrong, n
      <4> QED BY <3>1, <3>2
    <3> HIDE DEF n
    <3>5. n # 0
      BY <2>3, <3>3
    <3>6. n \in 1..last /\ n - 1 \in 0..last
      BY <1>1, <3>3, <3>5
    <3>7. step[n - 1] \in Seq(Codes) /\ Normal[BridgeTexts[n]] \in Codes
      BY <1>1, <3>4, <3>6
    <3>8. Added(step[n - 1], Normal[BridgeTexts[n]]) \in Seq(Codes)
      BY <1>2, <3>7
    <3> QED BY <2>2, <3>3, <3>5, <3>8
  <2> QED BY <1>1, <2>4
<1> QED BY <1>5, <1>6

(* What a catalog has normalised is a table, each alias at the end of its  *)
(* chain.                                                                  *)
LEMMA NormalizedIsTable ==
    ASSUME NEW normal, IsTable(normal)
    PROVE  LET table == NormalizedCodeAliases(normal)
           IN  /\ IsTable(table) /\ DOMAIN table = DOMAIN normal
               /\ \A a \in DOMAIN table : table[a] = ResolveAliasChain(normal, a)
<1> DEFINE table == NormalizedCodeAliases(normal)
<1>1. DOMAIN table = DOMAIN normal
         /\ \A a \in DOMAIN table : table[a] = ResolveAliasChain(normal, a)
  BY DEF NormalizedCodeAliases
<1>2. \A a \in DOMAIN normal : ResolveAliasChain(normal, a) \in Codes
  BY ChainTyped DEF IsTable
<1> HIDE DEF table
<1>3. IsTable(table)
  BY <1>1, <1>2 DEF IsTable
<1> QED BY <1>1, <1>3 DEF table

(* A chain that stops at once, or at the code after.                       *)
LEMMA ShortChain ==
    ASSUME NEW aliases, IsFiniteSet(DOMAIN aliases), NEW code \in DOMAIN aliases,
           LET next == aliases[code]
           IN  next \notin DOMAIN aliases \/ aliases[next] = next
    PROVE  ResolveAliasChain(aliases, code) = aliases[code]
<1> DEFINE last == Cardinality(DOMAIN aliases) + 1
           t == Trail(aliases, code)
<1>1. last \in Nat /\ 1 <= last
  <2>1. Cardinality(DOMAIN aliases) \in Nat
    BY FS_CardinalityType
  <2> QED BY <2>1
<1>2. PICK e \in 0..last : /\ ResolveAliasChain(aliases, code) = t[e]
                           /\ Stops(aliases, t, e)
                           /\ \A n \in 0..last : Stops(aliases, t, n) => e <= n
  BY ChainEnds
<1>3. t[0] = code /\ \A n \in 1..last : t[n] = After(aliases, t[n - 1])
  BY TrailFollows
<1> HIDE DEF last, t
<1>4. 1 \in 1..last /\ 1 \in 0..last /\ 0 \in 0..last
  BY <1>1
<1>5. t[1] = aliases[code]
  <2>1. t[1] = After(aliases, t[1 - 1]) /\ 1 - 1 = 0
    BY <1>3, <1>4
  <2> QED BY <1>3, <2>1 DEF After
<1>6. Stops(aliases, t, 1)
  BY <1>5 DEF Stops
<1>7. e <= 1
  BY <1>2, <1>4, <1>6
<1>8. CASE e = 1
  BY <1>2, <1>5, <1>8
<1>9. CASE e = 0
  <2>1. t[0] \notin Visited(t, 0)
    <3>1. 0..(0 - 1) = {}
      OBVIOUS
    <3> QED BY <3>1 DEF Visited
  <2>2. aliases[code] = code
    BY <1>2, <1>3, <1>9, <2>1 DEF Stops
  <2> QED BY <1>2, <1>3, <1>9, <2>2
<1> QED BY <1>2, <1>7, <1>8, <1>9

(* The tables of a client, of its own calls and of its catalog.            *)
LEMMA ClientTables ==
    ASSUME NEW c \in Clients
    PROVE  /\ IsTable(c.catalog) /\ AliasesValid(c.catalog, CatalogCodes, Valid)
           /\ c.own \in Seq(Words \X Words)
           /\ c.aliases = WithInstrumentCatalog(WithAliases(c.own), c.catalog)
           /\ IsTable(c.aliases)
           /\ c.defaultQuote \in Words \cup {None}
<1>1. PICK own \in OwnAliases,
           normal \in {f \in UNION {Normalisations(t) : t \in Catalogs} :
                          AliasesValid(f, CatalogCodes, Valid)},
           synthetic \in BOOLEAN, explicitOnly \in BOOLEAN, default \in DefaultQuotes :
          c = [aliases      |-> WithInstrumentCatalog(WithAliases(own), normal),
               own          |-> own,
               catalog      |-> normal,
               synthetic    |-> synthetic,
               explicitOnly |-> explicitOnly,
               defaultQuote |-> default]
  BY DEF Clients
<1>2. c.own = own /\ c.catalog = normal /\ c.defaultQuote = default
         /\ c.aliases = WithInstrumentCatalog(WithAliases(own), normal)
  BY <1>1
<1>3. own \in Seq(Words \X Words) /\ default \in Words \cup {None}
  BY ConversionAssumption
<1>4. AliasesValid(normal, CatalogCodes, Valid)
  BY <1>1
<1>5. IsTable(normal)
  <2>1. PICK written \in Catalogs : normal \in Normalisations(written)
    BY <1>1
  <2>2. DOMAIN written \subseteq Words /\ IsFiniteSet(DOMAIN written)
    BY ConversionAssumption
  <2> DEFINE D == {Normal[w] : w \in DOMAIN written}
             f == [w \in DOMAIN written |-> Normal[w]]
  <2>3. normal \in [D -> Codes]
    BY <2>1 DEF Normalisations
  <2>4. D \subseteq Codes
    BY <2>2, AliasAssumption, ConversionAssumption
  <2>5. IsFiniteSet(D)
    <3>1. f \in Surjection(DOMAIN written, D)
      BY DEF Surjection
    <3> HIDE DEF D, f
    <3> QED BY <2>2, <3>1, FS_Surjection
  <2> HIDE DEF D
  <2> QED BY <2>3, <2>4, <2>5 DEF IsTable
<1>6. IsTable(WithAliases(own)) /\ IsTable(NormalizedCodeAliases(normal))
  BY <1>3, <1>5, WithAliasesIsTable, NormalizedIsTable
<1>7. IsTable(c.aliases)
  BY <1>2, <1>6, OverlayIsTable DEF WithInstrumentCatalog
<1> QED BY <1>2, <1>3, <1>4, <1>5, <1>7

(* A code that the catalog has an alias for is resolved by the client as   *)
(* by the catalog, to one of the catalog's codes.                          *)
LEMMA CatalogDecides ==
    ASSUME NEW c \in Clients, NEW a \in DOMAIN c.catalog,
           LET r == ResolveAliasChain(NormalizedCodeAliases(c.catalog), a)
           IN  r \notin {Normal[c.own[i][1]] : i \in DOMAIN c.own}
    PROVE  LET r == ResolveAliasChain(NormalizedCodeAliases(c.catalog), a)
           IN  ResolveAliasChain(c.aliases, a) = r /\ r \in CatalogCodes
<1> DEFINE table == NormalizedCodeAliases(c.catalog)
           own   == WithAliases(c.own)
           named == {Normal[c.own[i][1]] : i \in DOMAIN c.own}
           r     == ResolveAliasChain(table, a)
<1>1. /\ IsTable(c.catalog) /\ AliasesValid(c.catalog, CatalogCodes, Valid)
      /\ c.own \in Seq(Words \X Words) /\ IsTable(c.aliases)
      /\ c.aliases = Overlay(table, own)
  BY ClientTables DEF WithInstrumentCatalog
<1>2. /\ IsTable(table) /\ DOMAIN table = DOMAIN c.catalog
      /\ \A k \in DOMAIN table : table[k] = ResolveAliasChain(c.catalog, k)
  BY <1>1, NormalizedIsTable
<1>3. DOMAIN own \subseteq named
  BY <1>1, WithAliasesIsTable
<1>4. /\ DOMAIN c.aliases = DOMAIN table \cup DOMAIN own
      /\ \A k \in DOMAIN table : c.aliases[k] = table[k]
  <2> HIDE DEF table, own
  <2>1. /\ DOMAIN Overlay(table, own) = DOMAIN table \cup DOMAIN own
        /\ \A k \in DOMAIN table : Overlay(table, own)[k] = table[k]
    BY OverlayIs
  <2> QED BY <1>1, <2>1
<1>5. \A k \in DOMAIN table : table[k] \in CatalogCodes
  BY <1>1 DEF AliasesValid
<1>6. r \notin named
  OBVIOUS
<1> HIDE DEF own, named, r, table
<1>7. ResolveAliasChain(c.catalog, table[a]) = table[a]
  BY <1>1, <1>2, ResolvingTwice DEF IsTable
<1>8. table[a] \notin DOMAIN table \/ table[table[a]] = table[a]
  BY <1>2, <1>7
<1>9. r = table[a]
  BY <1>2, <1>8, ShortChain DEF IsTable, r
<1>10. c.aliases[a] = r /\ a \in DOMAIN c.aliases
  BY <1>2, <1>4, <1>9
<1>11. r \notin DOMAIN c.aliases \/ c.aliases[r] = r
  BY <1>3, <1>4, <1>6, <1>8, <1>9
<1>12. ResolveAliasChain(c.aliases, a) = r
  BY <1>1, <1>10, <1>11, ShortChain DEF IsTable
<1> QED BY <1>2, <1>5, <1>9, <1>12 DEF r, table

-----------------------------------------------------------------------------
(* What has been typed and read: words, and nothing of a route yet.        *)
RequestInv ==
    /\ client \in Clients
    /\ text \in Texts \cup {<<>>}
    /\ status = "read" =>
           \/ request.kind = "pair" /\ request.from \in Words /\ request.to \in Words
           \/ request.kind = "symbol" /\ request.code \in Words
    /\ status \in {"convert", "explicit"} => symbol \in Words /\ quote \in Words
    /\ status \in {"idle", "read"} => route = 0 /\ half = 1 /\ inverse = FALSE

(* The feed has one answer for a pair, and it is for codes at the end of   *)
(* their chains; a code has no quote against itself.                       *)
AnswersInv ==
    /\ \A p \in DOMAIN answers : /\ answers[p] \in Answers
                                 /\ p[1] = p[2] => answers[p].kind = "none"
    /\ FetchesCanonical

(* How far the search for a route has come: every route before this one,   *)
(* and of this one the leg before, is settled by what the feed has said.   *)
AnsweredNone(from, to) ==
    LET p == <<Resolve(from), Resolve(to)>>
    IN  p \in DOMAIN answers /\ answers[p].kind = "none"

RouteInv ==
    status = "convert" =>
        /\ half \in {1, 2} /\ inverse \in BOOLEAN
        /\ route = 0 => half = 1
        /\ route # 0 =>
               /\ client.synthetic /\ LegMissing(symbol, quote)
               /\ route \in Eligible(0)
               /\ \A j \in Eligible(0) : j < route => RouteMissing(j)
        /\ half = 2 => first \in LegQuotes(symbol, BridgeCurrencies[route])
        /\ inverse => AnsweredNone(Leg[1], Leg[2])

(* A quote in the order of its prices.                                     *)
Quotes == [zero : BOOLEAN, bid : Int, rate : Int, ask : Int, time : Int]

Ordered(q) == q \in Quotes /\ (q.zero \/ (q.bid <= q.rate /\ q.rate <= q.ask))

LegsOrdered == status = "convert" /\ half = 2 => Ordered(first)

ConversionInv ==
    /\ RequestInv
    /\ AnswersInv
    /\ RouteInv
    /\ FirstRouteWins
    /\ LegsOrdered
    /\ QuotesOrdered

-----------------------------------------------------------------------------
(* The order in which a text is tried as a pair and as a symbol.           *)
LEMMA ParseOrder ==
    ASSUME NEW t, NEW mode \in {"Auto", "PairOnly"}
    PROVE  LET r == ParseWithMode(t, mode)
           IN  /\ IsCompactPair(t) => r = NewPair(t[1], t[2])
               /\ ~IsCompactPair(t) /\ HasSlash(t) => r = ParsePairWithSlash(t)
               /\ ~IsCompactPair(t) /\ ~HasSlash(t) /\ mode = "Auto" =>
                      r = IF IsKnownShorthand(t) THEN FromHalves(t) ELSE ParseSymbol(t)
               /\ ~IsCompactPair(t) /\ ~HasSlash(t) /\ mode = "PairOnly" =>
                      r = IF IsPairShorthand(t) THEN FromHalves(t) ELSE Rejected
BY DEF ParseWithMode

(* A pair of codes in capitals, written out, is read as itself.            *)
LEMMA PairReadsBack ==
    ASSUME NEW x \in Valid, NEW y \in Valid
    PROVE  LET r == NewPair(x, y)
           IN  ParseWithMode(Display(r), "Auto") = r
<1> DEFINE r == NewPair(x, y)
           d == Display(r)
<1>1. d = <<Upper[x], Upper[y]>>
  BY DEF Display, NewPair, Pair
<1>2. x \in Words /\ y \in Words /\ Upper[x] \in Valid /\ Upper[y] \in Valid
  BY TextAssumption
<1>3. NewPair(Upper[x], Upper[y]) = r
  BY <1>2, TextAssumption DEF NewPair
<1>4. Trim[Upper[x]] = Upper[x] /\ Trim[Upper[y]] = Upper[y]
  BY <1>2, TextAssumption
<1>5. Len(d) = 2 /\ d[1] = Upper[x] /\ d[2] = Upper[y]
  BY <1>1
<1> HIDE DEF d, r
<1>6. ParseWithMode(d, "Auto") = IF IsCompactPair(d) THEN NewPair(d[1], d[2])
                                 ELSE ParsePairWithSlash(d)
  <2>1. HasSlash(d)
    BY <1>5 DEF HasSlash
  <2> QED BY <2>1, ParseOrder, Zenon
<1>7. ParsePairWithSlash(d) = NewPair(d[1], d[2])
  BY <1>2, <1>4, <1>5 DEF ParsePairWithSlash, TryNewPair
<1>8. ParseWithMode(d, "Auto") = r
  BY <1>3, <1>5, <1>6, <1>7
<1> QED BY <1>8 DEF d, r

(* The halves of a word of letters are codes, and its capitals have theirs.*)
LEMMA HalvesAreCodes ==
    ASSUME NEW w \in Words
    PROVE  /\ Upper[w] \in Words
           /\ w \in DOMAIN Halves \cap Letters <=> Upper[w] \in DOMAIN Halves \cap Letters
           /\ w \in DOMAIN Halves \cap Letters =>
                  /\ Halves[w][1] \in Three /\ Halves[w][2] \in Three
                  /\ Halves[Upper[w]][1] = Upper[Halves[w][1]]
                  /\ Halves[Upper[w]][2] = Upper[Halves[w][2]]
                  /\ Upper[Upper[Halves[w][1]]] = Upper[Halves[w][1]]
                  /\ Upper[Upper[Halves[w][2]]] = Upper[Halves[w][2]]
<1>1. Upper[w] \in Words /\ \A kind \in {Letters, DOMAIN Halves} : Upper[w] \in kind <=> w \in kind
  BY TextAssumption
<1>2. ASSUME w \in DOMAIN Halves \cap Letters
      PROVE  /\ Halves[w][1] \in Three /\ Halves[w][2] \in Three
             /\ Halves[Upper[w]] = <<Upper[Halves[w][1]], Upper[Halves[w][2]]>>
  <2>1. Halves[w] \in Three \X Three
    BY <1>2, TextAssumption
  <2>2. Halves[Upper[w]] = <<Upper[Halves[w][1]], Upper[Halves[w][2]]>>
    BY <1>2, TextAssumption
  <2> QED BY <2>1, <2>2
<1>3. ASSUME NEW v \in Three PROVE Upper[Upper[v]] = Upper[v]
  BY TextAssumption
<1> QED BY <1>1, <1>2, <1>3

(* Whatever is read from a text, written out it is read as the same.       *)
LEMMA TextReadsBack ==
    ASSUME NEW t \in Seq(Words), t # <<>>, NEW mode \in {"Auto", "PairOnly"},
           ParseWithMode(t, mode) # Rejected
    PROVE  LET r == ParseWithMode(t, mode)
           IN  ParseWithMode(Display(r), "Auto") = r
<1> DEFINE r == ParseWithMode(t, mode)
           w == t[1]
<1>1. Len(t) \in Nat /\ Len(t) # 0 /\ \A i \in 1..Len(t) : t[i] \in Words
  OBVIOUS
<1>2. w \in Words
  BY <1>1
<1>4. CASE IsCompactPair(t)
  <2>1. r = NewPair(t[1], t[2])
    BY <1>4, ParseOrder
  <2>2. t[1] \in Valid /\ t[2] \in Valid
    BY <1>4, TextAssumption DEF IsCompactPair
  <2> QED BY <2>1, <2>2, PairReadsBack
<1>5. CASE ~IsCompactPair(t) /\ HasSlash(t)
  <2>1. r = ParsePairWithSlash(t)
    BY <1>5, ParseOrder
  <2>2. Len(t) = 2 /\ {Trim[t[1]], Trim[t[2]]} \subseteq Valid
    BY <2>1 DEF ParsePairWithSlash, TryNewPair
  <2>3. r = NewPair(Trim[t[1]], Trim[t[2]])
    BY <2>1, <2>2 DEF ParsePairWithSlash, TryNewPair
  <2> QED BY <2>2, <2>3, PairReadsBack
<1>6. CASE ~HasSlash(t) /\ r = FromHalves(t) /\ IsPairShorthand(t)
  <2>1. Halves[w][1] \in Valid /\ Halves[w][2] \in Valid
    BY <1>2, <1>6, HalvesAreCodes, TextAssumption DEF IsPairShorthand
  <2> QED BY <1>6, <2>1, PairReadsBack DEF FromHalves
<1>7. CASE ~HasSlash(t) /\ mode = "Auto" /\ ~IsKnownShorthand(t) /\ r = ParseSymbol(t)
  <2>1. Len(t) = 1 /\ w \in Valid /\ r = Symbol(Upper[w])
    BY <1>7 DEF ParseSymbol
  <2> DEFINE d == Display(r)
  <2>2. d = <<Upper[w]>>
    BY <2>1 DEF Display, Symbol
  <2>3. Len(d) = 1 /\ d[1] = Upper[w]
    BY <2>2
  <2>4. Upper[w] \in Valid /\ Upper[Upper[w]] = Upper[w]
    BY <1>2, <2>1, TextAssumption
  <2>5. ~IsKnownShorthand(d)
    <3> SUFFICES ASSUME IsKnownShorthand(d) PROVE FALSE
      OBVIOUS
    <3> HIDE DEF d, r
    <3>1. Upper[w] \in DOMAIN Halves \cap Letters
             /\ \A i \in 1..2 : Upper[Halves[Upper[w]][i]] \in Known
      BY <2>3 DEF IsKnownShorthand, IsPairShorthand
    <3>2. Upper[Halves[Upper[w]][1]] \in Known /\ Upper[Halves[Upper[w]][2]] \in Known
      BY <3>1
    <3>3. w \in DOMAIN Halves \cap Letters
      BY <1>2, <3>1, HalvesAreCodes
    <3>4. Upper[Halves[w][1]] \in Known /\ Upper[Halves[w][2]] \in Known
      BY <1>2, <3>2, <3>3, HalvesAreCodes
    <3>5. IsKnownShorthand(t)
      BY <2>1, <3>3, <3>4 DEF IsKnownShorthand, IsPairShorthand
    <3> QED BY <1>7, <3>5
  <2> HIDE DEF d, r, w
  <2>6. ParseWithMode(d, "Auto") = ParseSymbol(d)
    BY <2>3, <2>5 DEF ParseWithMode, IsCompactPair, HasSlash
  <2>7. ParseSymbol(d) = Symbol(Upper[w])
    BY <2>3, <2>4 DEF ParseSymbol
  <2> QED BY <2>1, <2>6, <2>7 DEF d, r
<1>8. \/ IsCompactPair(t)
      \/ ~IsCompactPair(t) /\ HasSlash(t)
      \/ ~HasSlash(t) /\ r = FromHalves(t) /\ IsPairShorthand(t)
      \/ ~HasSlash(t) /\ mode = "Auto" /\ ~IsKnownShorthand(t) /\ r = ParseSymbol(t)
  <2>1. IsKnownShorthand(t) => IsPairShorthand(t)
    BY DEF IsKnownShorthand
  <2>2. r # Rejected
    OBVIOUS
  <2>3. /\ ~IsCompactPair(t) /\ ~HasSlash(t) /\ mode = "Auto" =>
               r = IF IsKnownShorthand(t) THEN FromHalves(t) ELSE ParseSymbol(t)
        /\ ~IsCompactPair(t) /\ ~HasSlash(t) /\ mode = "PairOnly" =>
               r = IF IsPairShorthand(t) THEN FromHalves(t) ELSE Rejected
    BY ParseOrder
  <2> HIDE DEF r
  <2> QED BY <2>1, <2>2, <2>3
<1> QED BY <1>4, <1>5, <1>6, <1>7, <1>8

(* The same text in capitals is read as the same.                          *)
LEMMA CapitalsReadAlike ==
    ASSUME NEW t \in Seq(Words), t # <<>>, NEW mode \in {"Auto", "PairOnly"},
           ParseWithMode(t, mode) # Rejected
    PROVE  ParseWithMode([i \in DOMAIN t |-> Upper[t[i]]], mode) = ParseWithMode(t, mode)
<1> DEFINE c == [i \in DOMAIN t |-> Upper[t[i]]]
           r == ParseWithMode(t, mode)
           w == t[1]
<1>1. Len(t) \in Nat /\ Len(t) # 0 /\ DOMAIN t = 1..Len(t) /\ \A i \in 1..Len(t) : t[i] \in Words
  OBVIOUS
<1>2. /\ w \in Words
      /\ \A i \in 1..Len(t) : Upper[t[i]] \in Words
  BY <1>1, TextAssumption
<1>3. Len(c) = Len(t) /\ \A i \in 1..Len(t) : c[i] = Upper[t[i]]
  <2>1. c \in Seq(Words)
    BY <1>1, <1>2
  <2> QED BY <1>1, <2>1
<1> HIDE DEF c
<1>4. \A v \in Words : Upper[v] \in Three <=> v \in Three
  BY TextAssumption
<1>5. IsCompactPair(c) <=> IsCompactPair(t)
  <2>1. Len(t) = 2 => /\ t[1] \in Words /\ t[2] \in Words
                      /\ c[1] = Upper[t[1]] /\ c[2] = Upper[t[2]]
    BY <1>1, <1>3
  <2> QED BY <1>3, <1>4, <2>1 DEF IsCompactPair
<1>6. HasSlash(c) <=> HasSlash(t)
  BY <1>3 DEF HasSlash
<1>7. \A x, y \in Words : NewPair(Upper[x], Upper[y]) = NewPair(x, y)
  BY TextAssumption DEF NewPair
<1>8. CASE IsCompactPair(t)
  <2>1. Len(t) = 2
    BY <1>8 DEF IsCompactPair
  <2>2. ParseWithMode(t, mode) = NewPair(t[1], t[2]) /\ ParseWithMode(c, mode) = NewPair(c[1], c[2])
    BY <1>5, <1>8, ParseOrder
  <2>3. c[1] = Upper[t[1]] /\ c[2] = Upper[t[2]] /\ t[1] \in Words /\ t[2] \in Words
    BY <1>1, <1>3, <2>1
  <2> QED BY <1>7, <2>2, <2>3 DEF c
<1>9. CASE ~IsCompactPair(t) /\ HasSlash(t)
  <2>1. ParseWithMode(t, mode) = ParsePairWithSlash(t) /\ ParseWithMode(c, mode) = ParsePairWithSlash(c)
    BY <1>5, <1>6, <1>9, ParseOrder
  <2>2. Len(t) = 2 /\ {Trim[t[1]], Trim[t[2]]} \subseteq Valid
    BY <2>1 DEF ParsePairWithSlash, TryNewPair
  <2>3. c[1] = Upper[t[1]] /\ c[2] = Upper[t[2]] /\ t[1] \in Words /\ t[2] \in Words
    BY <1>1, <1>3, <2>2
  <2>4. /\ Trim[c[1]] = Upper[Trim[t[1]]] /\ Trim[c[2]] = Upper[Trim[t[2]]]
        /\ Trim[t[1]] \in Words /\ Trim[t[2]] \in Words
    BY <2>3, TextAssumption
  <2>5. Trim[c[1]] \in Valid /\ Trim[c[2]] \in Valid
    BY <2>2, <2>4, TextAssumption
  <2>6. ParsePairWithSlash(t) = NewPair(Trim[t[1]], Trim[t[2]])
    BY <2>2 DEF ParsePairWithSlash, TryNewPair
  <2>7. ParsePairWithSlash(c) = NewPair(Trim[c[1]], Trim[c[2]])
    BY <1>3, <2>2, <2>5 DEF ParsePairWithSlash, TryNewPair
  <2> QED BY <1>7, <2>1, <2>4, <2>6, <2>7 DEF c
<1>10. CASE ~IsCompactPair(t) /\ ~HasSlash(t)
  <2>1. Len(t) = 1 /\ Len(c) = 1 /\ c[1] = Upper[w]
    BY <1>1, <1>3, <1>10 DEF HasSlash
  <2>2. IsPairShorthand(c) <=> IsPairShorthand(t)
    BY <1>2, <2>1, HalvesAreCodes DEF IsPairShorthand
  <2>3. ASSUME IsPairShorthand(t)
        PROVE  FromHalves(c) = FromHalves(t) /\ (IsKnownShorthand(c) <=> IsKnownShorthand(t))
    <3>1. /\ Halves[w][1] \in Words /\ Halves[w][2] \in Words
          /\ Halves[c[1]][1] = Upper[Halves[w][1]] /\ Halves[c[1]][2] = Upper[Halves[w][2]]
          /\ Upper[Upper[Halves[w][1]]] = Upper[Halves[w][1]]
          /\ Upper[Upper[Halves[w][2]]] = Upper[Halves[w][2]]
      BY <1>2, <2>1, <2>3, HalvesAreCodes, TextAssumption DEF IsPairShorthand
    <3>2. FromHalves(c) = FromHalves(t)
      BY <1>7, <3>1 DEF FromHalves
    <3>3. \A i \in 1..2 : Upper[Halves[c[1]][i]] = Upper[Halves[w][i]]
      BY <3>1
    <3>4. IsKnownShorthand(c) <=> IsKnownShorthand(t)
      BY <2>2, <3>3 DEF IsKnownShorthand
    <3> QED BY <3>2, <3>4
  <2>4. IsKnownShorthand(c) <=> IsKnownShorthand(t)
    BY <2>2, <2>3 DEF IsKnownShorthand
  <2>5. ParseSymbol(c) = ParseSymbol(t)
    BY <1>2, <2>1, TextAssumption DEF ParseSymbol
  <2>6. CASE mode = "Auto"
    <3>1. r = IF IsKnownShorthand(t) THEN FromHalves(t) ELSE ParseSymbol(t)
      BY <1>10, <2>6, ParseOrder
    <3>2. ParseWithMode(c, mode) = IF IsKnownShorthand(c) THEN FromHalves(c) ELSE ParseSymbol(c)
      BY <1>5, <1>6, <1>10, <2>6, ParseOrder
    <3>3. IsKnownShorthand(t) => IsPairShorthand(t)
      BY DEF IsKnownShorthand
    <3> QED BY <2>3, <2>4, <2>5, <3>1, <3>2, <3>3 DEF c
  <2>7. CASE mode = "PairOnly"
    <3>1. r = IF IsPairShorthand(t) THEN FromHalves(t) ELSE Rejected
      BY <1>10, <2>7, ParseOrder
    <3>2. ParseWithMode(c, mode) = IF IsPairShorthand(c) THEN FromHalves(c) ELSE Rejected
      BY <1>5, <1>6, <1>10, <2>7, ParseOrder
    <3> QED BY <2>2, <2>3, <3>1, <3>2 DEF c
  <2> QED BY <2>6, <2>7
<1> QED BY <1>8, <1>9, <1>10

(* The quick path and the other readers mean the same by a text.           *)
LEMMA TextReadersAgree ==
    ASSUME NEW t \in Seq(Words), t # <<>>
    PROVE  /\ IsCompactPair(t) => NewPair(t[1], t[2]) = ParsePairWithSlash(t)
           /\ LET r == ParseWithMode(t, "Auto")
              IN  r.kind = "pair" => r = ParseWithMode(t, "PairOnly") /\ r = ParsePair(t)
<1> DEFINE w == t[1]
<1>1. w \in Words /\ Len(t) \in Nat /\ Len(t) # 0
  OBVIOUS
<1>2. ASSUME IsCompactPair(t)
      PROVE  HasSlash(t) /\ NewPair(t[1], t[2]) = ParsePairWithSlash(t)
  <2>1. Len(t) = 2 /\ t[1] \in Valid /\ t[2] \in Valid
    BY <1>2, TextAssumption DEF IsCompactPair
  <2>2. Trim[t[1]] = t[1] /\ Trim[t[2]] = t[2]
    BY <2>1, TextAssumption
  <2> QED BY <2>1, <2>2 DEF ParsePairWithSlash, TryNewPair, HasSlash
<1>3. ASSUME ParseWithMode(t, "Auto").kind = "pair"
      PROVE  LET r == ParseWithMode(t, "Auto")
             IN  r = ParseWithMode(t, "PairOnly") /\ r = ParsePair(t)
  <2>1. CASE IsCompactPair(t)
    BY <1>2, <2>1, ParseOrder DEF ParsePair
  <2>2. CASE ~IsCompactPair(t) /\ HasSlash(t)
    BY <2>2, ParseOrder DEF ParsePair
  <2>3. CASE ~IsCompactPair(t) /\ ~HasSlash(t)
    <3>1. ParseSymbol(t).kind # "pair"
      BY DEF ParseSymbol, Symbol, Rejected
    <3>2. ParseWithMode(t, "Auto") = IF IsKnownShorthand(t) THEN FromHalves(t) ELSE ParseSymbol(t)
      BY <2>3, ParseOrder
    <3>3. IsKnownShorthand(t) /\ ParseWithMode(t, "Auto") = FromHalves(t)
      BY <1>3, <3>1, <3>2
    <3>4. IsPairShorthand(t)
      BY <3>3 DEF IsKnownShorthand
    <3>5. ParseWithMode(t, "PairOnly") = FromHalves(t)
      BY <2>3, <3>4, ParseOrder
    <3>6. w \in DOMAIN Halves \cap Letters
      BY <3>4 DEF IsPairShorthand
    <3>7. Halves[w][1] \in Valid /\ Halves[w][2] \in Valid
      BY <1>1, <3>6, HalvesAreCodes, TextAssumption
    <3>8. ParsePair(t) = FromHalves(t)
      BY <2>3, <3>6, <3>7 DEF ParsePair, TryNewPair, FromHalves
    <3> QED BY <3>3, <3>5, <3>8
  <2> QED BY <2>1, <2>2, <2>3
<1> QED BY <1>2, <1>3

(* What is read is a request about words.                                  *)
IsRequest(r) ==
    \/ r.kind = "pair" /\ r.from \in Words /\ r.to \in Words
    \/ r.kind = "symbol" /\ r.code \in Words

LEMMA NewPairTyped ==
    ASSUME NEW x \in Words, NEW y \in Words
    PROVE  IsRequest(NewPair(x, y))
<1>1. Upper[x] \in Words /\ Upper[y] \in Words
  BY TextAssumption
<1> QED BY <1>1 DEF IsRequest, NewPair, Pair

LEMMA ReadTyped ==
    ASSUME NEW t \in Seq(Words), t # <<>>, NEW mode \in Modes,
           ParseWithMode(t, mode).kind # "rejected"
    PROVE  IsRequest(ParseWithMode(t, mode))
<1> DEFINE r == ParseWithMode(t, mode)
<1>1. Len(t) \in Nat /\ t[1] \in Words /\ (Len(t) = 2 => t[2] \in Words)
  OBVIOUS
<1>2. Rejected.kind = "rejected"
  BY DEF Rejected
<1>3. IsRequest(ParseSymbol(t)) \/ ParseSymbol(t) = Rejected
  <2>1. Upper[t[1]] \in Words
    BY <1>1, TextAssumption
  <2> QED BY <2>1 DEF IsRequest, ParseSymbol, Symbol
<1>4. IsRequest(ParsePairWithSlash(t)) \/ ParsePairWithSlash(t) = Rejected
  <2>1. Len(t) = 2 => Trim[t[1]] \in Words /\ Trim[t[2]] \in Words
    BY <1>1, TextAssumption
  <2> QED BY <2>1, NewPairTyped DEF ParsePairWithSlash, TryNewPair
<1>5. IsPairShorthand(t) => IsRequest(FromHalves(t))
  <2>1. IsPairShorthand(t) => Halves[t[1]][1] \in Words /\ Halves[t[1]][2] \in Words
    BY <1>1, HalvesAreCodes, TextAssumption DEF IsPairShorthand
  <2> QED BY <2>1, NewPairTyped DEF FromHalves
<1>6. IsCompactPair(t) => IsRequest(NewPair(t[1], t[2]))
  BY <1>1, NewPairTyped DEF IsCompactPair
<1>7. IsKnownShorthand(t) => IsPairShorthand(t)
  BY DEF IsKnownShorthand
<1>8. CASE mode = "SymbolOnly"
  <2>1. r = ParseSymbol(t)
    BY <1>8 DEF ParseWithMode
  <2> QED BY <1>2, <1>3, <2>1
<1>9. CASE mode \in {"Auto", "PairOnly"}
  <2>1. \/ IsCompactPair(t) /\ r = NewPair(t[1], t[2])
        \/ r \in {ParsePairWithSlash(t), ParseSymbol(t), Rejected}
        \/ IsPairShorthand(t) /\ r = FromHalves(t)
    BY <1>7, <1>9, ParseOrder
  <2> HIDE DEF r
  <2>2. IsRequest(r) \/ r = Rejected
    BY <1>3, <1>4, <1>5, <1>6, <2>1
  <2> QED BY <1>2, <2>2 DEF r
<1> QED BY <1>8, <1>9 DEF Modes

(* A code that is looked up is one, and at the end of its chain.           *)
LEMMA ResolveTyped ==
    ASSUME client \in Clients, NEW word \in Words
    PROVE  Resolve(word) \in Codes /\ Resolve(Resolve(word)) = Resolve(word)
<1> DEFINE r == ResolveAliasChain(client.aliases, Normal[word])
<1>1. Normal[word] \in Codes
  BY AliasAssumption, ConversionAssumption
<1>2. IsTable(client.aliases)
  BY ClientTables
<1>3. r \in Codes /\ ResolveAliasChain(client.aliases, r) = r
  BY <1>1, <1>2, ChainTyped, ResolvingTwice DEF IsTable
<1>4. Resolve(word) = r
  BY ResolversAlike DEF Resolve
<1> HIDE DEF r
<1>5. Normal[r] = r
  BY <1>3, AliasAssumption
<1>6. Resolve(r) = ResolveAliasChain(client.aliases, r)
  BY <1>5, ResolversAlike DEF Resolve
<1> QED BY <1>3, <1>4, <1>6

-----------------------------------------------------------------------------
(* Nothing is asked at the start.                                          *)
LEMMA ConversionInvInit == ConversionInit => ConversionInv
<1> SUFFICES ASSUME ConversionInit PROVE ConversionInv
  OBVIOUS
<1>1. status = "idle" /\ answers = <<>> /\ text = <<>> /\ client \in Clients
         /\ route = 0 /\ half = 1 /\ inverse = FALSE
  BY DEF ConversionInit
<1>2. DOMAIN answers = {}
  BY <1>1
<1>3. RequestInv
  BY <1>1 DEF RequestInv
<1>4. AnswersInv
  BY <1>2 DEF AnswersInv, FetchesCanonical
<1>5. RouteInv /\ FirstRouteWins /\ LegsOrdered /\ QuotesOrdered
  BY <1>1 DEF RouteInv, FirstRouteWins, LegsOrdered, QuotesOrdered
<1> QED BY <1>3, <1>4, <1>5 DEF ConversionInv

(* Begin leaves two codes to convert between, or ends.                     *)
LEMMA BeginTyped ==
    ASSUME client \in Clients, NEW from \in Words, NEW to \in Words, Begin(from, to)
    PROVE  /\ symbol' \in Words /\ quote' \in Words
           /\ \/ status' = "convert" \/ status' = "failed"
              \/ status' = "ok" /\ result'.path = "identity"
<1>1. symbol' \in Codes /\ quote' \in Codes
  BY ResolveTyped DEF Begin
<1>2. \/ status' = "convert" \/ status' = "failed"
      \/ status' = "ok" /\ result' = [path |-> "identity", legs |-> <<>>]
  BY DEF Begin
<1> QED BY <1>1, <1>2, ConversionAssumption

LEMMA RequestStep == RequestInv /\ [ConversionNext]_conversionVars => RequestInv'
<1> SUFFICES ASSUME RequestInv, [ConversionNext]_conversionVars PROVE RequestInv'
  OBVIOUS
<1>1. client' = client /\ client \in Clients
  BY DEF RequestInv, ConversionNext, Read, AskPair, AskSymbol, AskInQuote, LookUp, LookUpPair,
         Again, conversionVars
<1>2. ASSUME NEW words \in Texts, NEW mode \in Modes, Read(words, mode)
      PROVE  RequestInv'
  <2>1. words \in Seq(Words) /\ words # <<>>
    BY ConversionAssumption
  <2>2. status' = "rejected" \/ (status' = "read" /\ request'.kind # "rejected")
    BY <1>2 DEF Read
  <2>3. status' = "read" => IsRequest(request')
    BY <1>2, <2>1, <2>2, ReadTyped DEF Read
  <2>4. text' = words /\ status = "idle" /\ UNCHANGED <<route, half, inverse>>
    BY <1>2 DEF Read
  <2> QED BY <1>1, <2>2, <2>3, <2>4 DEF RequestInv, IsRequest
<1>3. CASE AskPair
  BY <1>1, <1>3 DEF AskPair, RequestInv
<1>4. ASSUME NEW to \in Words, Begin(request.code, to), status = "read", request.kind = "symbol",
             text' = <<>>
      PROVE  RequestInv'
  <2>1. request.code \in Words
    BY <1>4 DEF RequestInv
  <2>2. symbol' \in Words /\ quote' \in Words /\ status' \in {"convert", "failed", "ok"}
    BY <1>1, <1>4, <2>1, BeginTyped
  <2> QED BY <1>1, <1>4, <2>2 DEF RequestInv
<1>5. CASE AskSymbol
  <2>1. \/ status' = "disabled" \/ status' = "noquote"
        \/ client.defaultQuote # None /\ Begin(request.code, client.defaultQuote)
    BY <1>5 DEF AskSymbol
  <2>2. client.defaultQuote \in Words \cup {None}
    BY <1>1, ClientTables
  <2>3. status = "read" /\ request.kind = "symbol" /\ text' = <<>>
    BY <1>5 DEF AskSymbol
  <2>4. CASE status' = "disabled" \/ status' = "noquote"
    BY <1>1, <2>3, <2>4 DEF RequestInv
  <2>5. CASE client.defaultQuote # None /\ Begin(request.code, client.defaultQuote)
    BY <1>4, <2>2, <2>3, <2>5
  <2> QED BY <2>1, <2>4, <2>5
<1>6. ASSUME NEW to \in QuoteTexts, AskInQuote(to)
      PROVE  RequestInv'
  BY <1>4, <1>6, ConversionAssumption DEF AskInQuote
<1>7. CASE LookUp \/ LookUpPair
  <2>1. /\ UNCHANGED <<text, request, symbol, quote>>
        /\ status \in {"convert", "explicit"}
        /\ status' \in {status, "ok", "failed", "noroute", "notfound"}
    BY <1>7 DEF LookUp, LookUpPair, Ends, Found, NextRoute
  <2> QED BY <1>1, <2>1 DEF RequestInv
<1>8. CASE Again
  BY <1>1, <1>8 DEF Again, RequestInv
<1>9. CASE UNCHANGED conversionVars
  BY <1>9 DEF conversionVars, RequestInv
<1> QED BY <1>2, <1>3, <1>5, <1>6, <1>7, <1>8, <1>9 DEF ConversionNext

-----------------------------------------------------------------------------
(* What the feed has said of a pair it says again.                         *)
Extends(new, old) == \A p \in DOMAIN old : p \in DOMAIN new /\ new[p] = old[p]

LEMMA AnswersGrow ==
    ASSUME AnswersInv, NEW pair, NEW a \in AnswerTo(pair),
           answers' = Overlay([p \in {pair} |-> a], answers)
    PROVE  /\ Extends(answers', answers)
           /\ pair \in DOMAIN answers' /\ answers'[pair] = a
           /\ DOMAIN answers' = DOMAIN answers \cup {pair}
           /\ a \in Answers /\ (pair[1] = pair[2] => a.kind = "none")
<1> DEFINE one == [p \in {pair} |-> a]
<1>1. DOMAIN one = {pair} /\ one[pair] = a
  OBVIOUS
<1> HIDE DEF one
<1>2. /\ DOMAIN answers' = {pair} \cup DOMAIN answers
      /\ answers'[pair] = a
      /\ \A p \in DOMAIN answers \ {pair} : answers'[p] = answers[p]
  <2>1. answers' = Overlay(one, answers)
    BY DEF one
  <2>2. /\ DOMAIN Overlay(one, answers) = DOMAIN one \cup DOMAIN answers
        /\ \A k \in DOMAIN one : Overlay(one, answers)[k] = one[k]
        /\ \A k \in DOMAIN answers \ DOMAIN one : Overlay(one, answers)[k] = answers[k]
    BY OverlayIs
  <2> QED BY <1>1, <2>1, <2>2
<1>3. [kind |-> "none"] \in Answers /\ [kind |-> "none"].kind = "none"
  BY DEF Answers
<1>4. CASE pair[1] = pair[2]
  <2>1. a = [kind |-> "none"]
    BY <1>4 DEF AnswerTo
  <2>2. pair \in DOMAIN answers => answers[pair] \in Answers /\ answers[pair].kind = "none"
    BY <1>4 DEF AnswersInv
  <2>3. pair \in DOMAIN answers => answers[pair] = a
    BY <2>1, <2>2 DEF Answers
  <2> QED BY <1>2, <1>3, <2>1, <2>3 DEF Extends
<1>5. CASE pair[1] # pair[2]
  <2>1. pair \in DOMAIN answers => a = answers[pair]
    BY <1>5 DEF AnswerTo
  <2>2. a \in Answers
    BY <1>5, <2>1 DEF AnswerTo, AnswersInv
  <2> QED BY <1>2, <1>5, <2>1, <2>2 DEF Extends
<1> QED BY <1>4, <1>5

(* One more pair is answered: the invariant on the answers holds.          *)
LEMMA AnswersKept ==
    ASSUME AnswersInv, client \in Clients, UNCHANGED client,
           NEW x \in Words, NEW y \in Words, NEW a \in AnswerTo(<<Resolve(x), Resolve(y)>>),
           answers' = Overlay([p \in {<<Resolve(x), Resolve(y)>>} |-> a], answers)
    PROVE  AnswersInv'
<1> DEFINE pair == <<Resolve(x), Resolve(y)>>
<1>1. pair[1] = Resolve(x) /\ pair[2] = Resolve(y)
  OBVIOUS
<1>2. Resolve(pair[1]) = pair[1] /\ Resolve(pair[2]) = pair[2]
  BY <1>1, ResolveTyped
<1> HIDE DEF pair
<1>3. /\ a \in AnswerTo(pair) /\ answers' = Overlay([p \in {pair} |-> a], answers)
  BY DEF pair
<1>4. /\ Extends(answers', answers)
      /\ pair \in DOMAIN answers' /\ answers'[pair] = a
      /\ DOMAIN answers' = DOMAIN answers \cup {pair}
      /\ a \in Answers /\ (pair[1] = pair[2] => a.kind = "none")
  BY <1>3, AnswersGrow
<1>5. \A p \in DOMAIN answers' : /\ answers'[p] \in Answers
                                 /\ p[1] = p[2] => answers'[p].kind = "none"
  BY <1>4 DEF AnswersInv, Extends
<1>6. \A p \in DOMAIN answers' : \A i \in 1..2 : Resolve(p[i])' = p[i]
  <2>1. \A w : Resolve(w)' = Resolve(w)
    BY DEF Resolve
  <2>2. \A p \in DOMAIN answers' : \A i \in 1..2 : Resolve(p[i]) = p[i]
    BY <1>2, <1>4 DEF AnswersInv, FetchesCanonical
  <2> QED BY <2>1, <2>2
<1> QED BY <1>5, <1>6 DEF AnswersInv, FetchesCanonical

LEMMA BridgeIsCode ==
    ASSUME NEW i \in DOMAIN BridgeCurrencies
    PROVE  i \in Nat /\ BridgeCurrencies[i] \in Codes
<1> DEFINE b == BridgeCurrencies
<1>1. b \in Seq(Codes)
  BY BridgesTyped
<1> HIDE DEF b
<1>2. \A k \in DOMAIN b : k \in Nat /\ b[k] \in Codes
  BY <1>1
<1> QED BY <1>2 DEF b

(* The codes of a leg are words.                                           *)
LEMMA LegTyped ==
    ASSUME RequestInv, RouteInv, status = "convert"
    PROVE  /\ Leg = <<Leg[1], Leg[2]>>
           /\ Leg[1] \in Words /\ Leg[2] \in Words
           /\ route = 0 => Leg[1] = symbol /\ Leg[2] = quote
           /\ route # 0 =>
                  /\ route \in DOMAIN BridgeCurrencies
                  /\ half = 1 => Leg[1] = symbol /\ Leg[2] = BridgeCurrencies[route]
                  /\ half = 2 => Leg[1] = BridgeCurrencies[route] /\ Leg[2] = quote
<1>1. symbol \in Words /\ quote \in Words /\ half \in {1, 2}
  BY DEF RequestInv, RouteInv
<1>2. route # 0 => route \in DOMAIN BridgeCurrencies /\ BridgeCurrencies[route] \in Words
  <2>1. route # 0 => route \in DOMAIN BridgeCurrencies
    BY DEF RouteInv, Eligible
  <2> QED BY <2>1, BridgeIsCode, ConversionAssumption
<1>3. \/ route = 0 /\ Leg = <<symbol, quote>>
      \/ route # 0 /\ half = 1 /\ Leg = <<symbol, BridgeCurrencies[route]>>
      \/ route # 0 /\ half = 2 /\ Leg = <<BridgeCurrencies[route], quote>>
  BY <1>1 DEF Leg
<1> QED BY <1>1, <1>2, <1>3

(* A pair that is asked for is answered, and nothing else changes what has *)
(* been answered but that the caller asks anew.                            *)
LEMMA AnswersStep ==
    RequestInv /\ AnswersInv /\ RouteInv /\ [ConversionNext]_conversionVars => AnswersInv'
<1> SUFFICES ASSUME RequestInv, AnswersInv, RouteInv, [ConversionNext]_conversionVars
             PROVE  AnswersInv'
  OBVIOUS
<1>1. client' = client /\ client \in Clients
  BY DEF RequestInv, ConversionNext, Read, AskPair, AskSymbol, AskInQuote, LookUp, LookUpPair,
         Again, conversionVars
<1>2. ASSUME UNCHANGED answers PROVE AnswersInv'
  BY <1>1, <1>2 DEF AnswersInv, FetchesCanonical, Resolve
<1>3. CASE LookUp
  <2>1. CASE UNCHANGED answers
    BY <1>2, <2>1
  <2>2. CASE ~UNCHANGED answers
    <3>1. PICK a \in AnswerTo(Fetched) : answers' = Overlay([p \in {Fetched} |-> a], answers)
      BY <1>3, <2>2 DEF LookUp
    <3>2. Leg[1] \in Words /\ Leg[2] \in Words
      BY <1>3, LegTyped DEF LookUp
    <3>3. Asked = <<Leg[1], Leg[2]>> \/ Asked = <<Leg[2], Leg[1]>>
      BY <1>3, LegTyped DEF Asked, LookUp
    <3>4. PICK x \in Words, y \in Words : Fetched = <<Resolve(x), Resolve(y)>>
      BY <3>2, <3>3 DEF Fetched
    <3> QED BY <1>1, <3>1, <3>4, AnswersKept
  <2> QED BY <2>1, <2>2
<1>4. CASE LookUpPair
  <2>1. CASE UNCHANGED answers
    BY <1>2, <2>1
  <2>2. CASE ~UNCHANGED answers
    <3>1. PICK a \in AnswerTo(<<Resolve(symbol), Resolve(quote)>>) :
              answers' = Overlay([p \in {<<Resolve(symbol), Resolve(quote)>>} |-> a], answers)
      BY <1>4, <2>2 DEF LookUpPair
    <3>2. symbol \in Words /\ quote \in Words
      BY <1>4 DEF LookUpPair, RequestInv
    <3> QED BY <1>1, <3>1, <3>2, AnswersKept
  <2> QED BY <2>1, <2>2
<1>5. CASE Again
  <2>1. answers' = <<>>
    BY <1>5 DEF Again
  <2>2. DOMAIN answers' = {}
    BY <2>1
  <2> QED BY <2>2 DEF AnswersInv, FetchesCanonical
<1>6. CASE ~LookUp /\ ~LookUpPair /\ ~Again
  <2>1. UNCHANGED answers
    BY <1>6 DEF ConversionNext, Read, AskPair, AskSymbol, AskInQuote, conversionVars
  <2> QED BY <1>2, <2>1
<1> QED BY <1>3, <1>4, <1>5, <1>6

-----------------------------------------------------------------------------
(* A price the feed has is in order, and so is its inverse.                *)
LEMMA InvertOrdered ==
    ASSUME NEW q \in Quotes, ~q.zero, Ordered(q)
    PROVE  Ordered(Invert(q))
<1> DEFINE i == Invert(q)  r == -q.rate  a == -q.bid  b == -q.ask
<1>1. q.rate \in Int /\ q.ask \in Int /\ q.bid \in Int /\ q.bid <= q.rate /\ q.rate <= q.ask
  BY DEF Quotes, Ordered
<1>2. r \in Int /\ a \in Int /\ b \in Int /\ b <= r /\ r <= a
  BY <1>1
<1>3. i = [q EXCEPT !.rate = r, !.ask = a, !.bid = b]
  BY DEF Invert
<1> HIDE DEF i, r, a, b
<1>4. i \in Quotes /\ i.rate = r /\ i.ask = a /\ i.bid = b
  BY <1>2, <1>3 DEF Quotes
<1>5. Ordered(i)
  BY <1>2, <1>4 DEF Ordered
<1> QED BY <1>5 DEF i

LEMMA PriceOrdered ==
    ASSUME NEW a \in Answers, a.kind = "quote"
    PROVE  a.quote \in Quotes /\ Ordered(a.quote)
<1>1. a.quote \in Prices
  BY DEF Answers
<1> QED BY <1>1, ConversionAssumption DEF Quotes, Ordered

(* What one lookup of a leg finds: nothing yet, nothing at all, or a quote.*)
LEMMA LookUpOutcome ==
    ASSUME RequestInv, AnswersInv, RouteInv, LookUp
    PROVE  \E from, to \in Words :
               /\ Leg[1] = from /\ Leg[2] = to
               /\ Extends(answers', answers)
               /\ \/ Ends("failed")
                  \/ /\ inverse' = TRUE /\ UNCHANGED <<status, route, half, first, result>>
                     /\ AnsweredNone(from, to)'
                  \/ NextRoute /\ LegMissing(from, to)'
                  \/ \E q : Found(q) /\ q \in LegQuotes(from, to)' /\ Ordered(q)
<1>1. status = "convert" /\ UNCHANGED <<client, symbol, quote>> /\ client \in Clients
  BY DEF LookUp, RequestInv
<1>2. Leg[1] \in Words /\ Leg[2] \in Words /\ inverse \in BOOLEAN
  BY <1>1, LegTyped DEF RouteInv
<1>3. PICK from, to \in Words : Leg[1] = from /\ Leg[2] = to
  BY <1>2
<1>4. \A w : Resolve(w)' = Resolve(w)
  BY <1>1 DEF Resolve
<1>5. /\ ~inverse => Fetched = <<Resolve(from), Resolve(to)>>
      /\ inverse => Fetched = <<Resolve(to), Resolve(from)>>
  BY <1>3 DEF Fetched, Asked
<1>6. CASE Ends("failed") /\ UNCHANGED answers
  <2>1. Extends(answers', answers)
    BY <1>6 DEF Extends
  <2> QED BY <1>3, <1>6, <2>1
<1>7. CASE ~(Ends("failed") /\ UNCHANGED answers)
  <2>1. PICK a \in AnswerTo(Fetched) :
            /\ answers' = Overlay([p \in {Fetched} |-> a], answers)
            /\ CASE a.kind = "error"             -> Ends("failed")
                 [] a.kind = "none" /\ ~inverse  ->
                      inverse' = TRUE /\ UNCHANGED <<status, route, half, first, result>>
                 [] a.kind = "none" /\ inverse   -> NextRoute
                 [] a.kind = "quote" /\ ~inverse -> Found(a.quote)
                 [] OTHER -> IF a.quote.zero THEN Ends("failed") ELSE Found(Invert(a.quote))
    BY <1>7 DEF LookUp
  <2>2. /\ Extends(answers', answers)
        /\ Fetched \in DOMAIN answers' /\ answers'[Fetched] = a /\ a \in Answers
    BY <2>1, AnswersGrow
  <2>3. a.kind \in {"error", "none", "quote"}
    BY <2>2 DEF Answers
  <2>4. CASE a.kind = "error"
    BY <1>3, <2>1, <2>2, <2>4
  <2>5. CASE a.kind = "none" /\ ~inverse
    <3>1. inverse' = TRUE /\ UNCHANGED <<status, route, half, first, result>>
      BY <2>1, <2>5
    <3>2. AnsweredNone(from, to)'
      BY <1>4, <1>5, <2>2, <2>5 DEF AnsweredNone
    <3> QED BY <1>3, <2>2, <3>1, <3>2
  <2>6. CASE a.kind = "none" /\ inverse
    <3>1. NextRoute
      BY <1>2, <2>1, <2>6
    <3>2. AnsweredNone(from, to)
      BY <1>1, <1>3, <2>6 DEF RouteInv
    <3>3. LegMissing(from, to)'
      BY <1>4, <1>5, <2>2, <2>6, <3>2 DEF AnsweredNone, LegMissing, Extends
    <3> QED BY <1>3, <2>2, <3>1, <3>3
  <2>7. CASE a.kind = "quote" /\ ~inverse
    <3>1. Found(a.quote)
      BY <2>1, <2>7
    <3>2. a.quote \in LegQuotes(from, to)'
      BY <1>4, <1>5, <2>2, <2>7 DEF LegQuotes, Quoted
    <3>3. Ordered(a.quote)
      BY <2>2, <2>7, PriceOrdered
    <3> QED BY <1>3, <2>2, <3>1, <3>2, <3>3
  <2>8. CASE a.kind = "quote" /\ inverse
    <3>1. IF a.quote.zero THEN Ends("failed") ELSE Found(Invert(a.quote))
      BY <1>2, <2>1, <2>8
    <3>2. CASE a.quote.zero
      BY <1>3, <2>2, <3>1, <3>2
    <3>3. CASE ~a.quote.zero
      <4>1. Found(Invert(a.quote))
        BY <3>1, <3>3
      <4>2. a.quote \in Quoted(to, from)'
        BY <1>4, <1>5, <2>2, <2>8 DEF Quoted
      <4>3. Invert(a.quote) \in LegQuotes(from, to)'
        BY <4>2 DEF LegQuotes
      <4>4. Ordered(Invert(a.quote))
        BY <2>2, <2>8, <3>3, PriceOrdered, InvertOrdered
      <4> QED BY <1>3, <2>2, <4>1, <4>3, <4>4
    <3> QED BY <3>2, <3>3
  <2> QED BY <1>2, <2>3, <2>4, <2>5, <2>6, <2>7, <2>8
<1> QED BY <1>6, <1>7

(* What has been settled about a leg or a route stays so as more pairs are *)
(* answered.                                                               *)
LEMMA StillSo ==
    ASSUME UNCHANGED <<client, symbol, quote>>, Extends(answers', answers)
    PROVE  /\ Eligible(0)' = Eligible(0)
           /\ LegMissing(symbol, quote) => LegMissing(symbol, quote)'
           /\ \A b : LegQuotes(symbol, b) \subseteq LegQuotes(symbol, b)'
           /\ \A i : RouteMissing(i) => RouteMissing(i)'
<1>1. \A w : Resolve(w)' = Resolve(w)
  BY DEF Resolve
<1>2. Resolve(symbol)' = Resolve(symbol) /\ Resolve(quote)' = Resolve(quote)
  BY DEF Resolve
<1>3. Eligible(0)' = Eligible(0)
  BY DEF Eligible
<1>4. LegMissing(symbol, quote) => LegMissing(symbol, quote)'
  BY <1>2 DEF LegMissing, Extends
<1>5. \A b : LegMissing(symbol, b) => LegMissing(symbol, b)'
  BY <1>1, <1>2 DEF LegMissing, Extends
<1>6. \A b : LegMissing(b, quote) => LegMissing(b, quote)'
  BY <1>1, <1>2 DEF LegMissing, Extends
<1>7. \A b : LegQuotes(symbol, b) \subseteq LegQuotes(symbol, b)'
  <2>1. \A b : Quoted(symbol, b) \subseteq Quoted(symbol, b)'
    BY <1>1, <1>2 DEF Quoted, Extends
  <2>2. \A b : Quoted(b, symbol) \subseteq Quoted(b, symbol)'
    BY <1>1, <1>2 DEF Quoted, Extends
  <2> QED BY <2>1, <2>2 DEF LegQuotes
<1>8. \A i : RouteMissing(i) => RouteMissing(i)'
  BY <1>5, <1>6 DEF RouteMissing
<1> QED BY <1>3, <1>4, <1>7, <1>8

-----------------------------------------------------------------------------
(* The least and the greatest of two prices.                               *)
LEMMA MinMaxOfTwo ==
    ASSUME NEW x \in Int, NEW y \in Int
    PROVE  /\ Min({x, y}) <= x /\ Min({x, y}) <= y /\ Min({x, y}) \in {x, y}
           /\ x <= Max({x, y}) /\ y <= Max({x, y}) /\ Max({x, y}) \in {x, y}
<1>1. x <= y \/ y <= x
  OBVIOUS
<1>2. \E m \in {x, y} : \A z \in {x, y} : m <= z
  BY <1>1
<1>3. \E m \in {x, y} : \A z \in {x, y} : m >= z
  BY <1>1
<1>4. Min({x, y}) \in {x, y} /\ \A z \in {x, y} : Min({x, y}) <= z
  BY <1>2, Zenon DEF Min
<1>5. Max({x, y}) \in {x, y} /\ \A z \in {x, y} : Max({x, y}) >= z
  BY <1>3, Zenon DEF Max
<1> HIDE DEF Min, Max
<1>6. Max({x, y}) \in Int /\ Min({x, y}) \in Int
  BY <1>4, <1>5
<1> QED BY <1>4, <1>5, <1>6

(* A rate over a bridge has the order of its two legs.                     *)
LEMMA SyntheticOrdered ==
    ASSUME NEW q1, Ordered(q1), NEW q2, Ordered(q2)
    PROVE  LET s == Synthetic(q1, q2)
           IN  s.zero \/ (s.bid <= s.rate /\ s.rate <= s.ask)
<1> DEFINE b == q1.bid + q2.bid
           r == q1.rate + q2.rate
           a == q1.ask + q2.ask
           s == Synthetic(q1, q2)
<1>1. s.zero = (q1.zero \/ q2.zero) /\ s.rate = r /\ s.bid = Min({b, a}) /\ s.ask = Max({b, a})
  BY DEF Synthetic
<1>2. CASE q1.zero \/ q2.zero
  BY <1>1, <1>2
<1>3. CASE ~q1.zero /\ ~q2.zero
  <2>1. /\ q1.bid \in Int /\ q1.rate \in Int /\ q1.ask \in Int
        /\ q2.bid \in Int /\ q2.rate \in Int /\ q2.ask \in Int
        /\ q1.bid <= q1.rate /\ q1.rate <= q1.ask /\ q2.bid <= q2.rate /\ q2.rate <= q2.ask
    BY <1>3 DEF Ordered, Quotes
  <2>2. b \in Int /\ r \in Int /\ a \in Int /\ b <= r /\ r <= a
    BY <2>1
  <2> HIDE DEF b, r, a, s
  <2>3. /\ Min({b, a}) <= b /\ a <= Max({b, a})
        /\ Min({b, a}) \in {b, a} /\ Max({b, a}) \in {b, a}
    BY <2>2, MinMaxOfTwo
  <2>4. Min({b, a}) <= r /\ r <= Max({b, a})
    BY <2>2, <2>3
  <2>5. s.bid <= s.rate /\ s.rate <= s.ask
    BY <1>1, <2>4
  <2> QED BY <2>5 DEF s
<1> QED BY <1>2, <1>3

SearchInv == RouteInv /\ FirstRouteWins /\ LegsOrdered /\ QuotesOrdered

(* Nothing is claimed of a request that is not being converted, was not    *)
(* answered and has not been found to have no route.                       *)
LEMMA NotSearching ==
    ASSUME status' \notin {"convert", "ok", "noroute"}
    PROVE  SearchInv'
BY DEF SearchInv, RouteInv, FirstRouteWins, LegsOrdered, QuotesOrdered

(* A conversion begins with the direct route and the pair as it is.        *)
LEMMA BeginSearches ==
    ASSUME RequestInv, status = "read", NEW from, NEW to, Begin(from, to),
           UNCHANGED <<route, half, inverse>>
    PROVE  SearchInv'
<1>1. route' = 0 /\ half' = 1 /\ inverse' = FALSE
  BY DEF RequestInv
<1>2. \/ status' = "convert" \/ status' = "failed"
      \/ status' = "ok" /\ result' = [path |-> "identity", legs |-> <<>>]
  BY DEF Begin
<1>3. status' = "ok" => result'.path = "identity"
  BY <1>2
<1>4. RouteInv' /\ LegsOrdered'
  <2>1. half' \in {1, 2} /\ half' # 2 /\ ~(route' # 0)
    BY <1>1
  <2>2. inverse' \in BOOLEAN /\ ~(inverse')
    BY <1>1, Zenon
  <2>3. RouteInv'
    BY <1>1, <2>1, <2>2, Zenon DEF RouteInv
  <2>4. LegsOrdered'
    BY <2>1, Zenon DEF LegsOrdered
  <2> QED BY <2>3, <2>4
<1>5. status' # "noroute"
  BY <1>2
<1>6. FirstRouteWins' /\ QuotesOrdered'
  BY <1>3, <1>5 DEF FirstRouteWins, QuotesOrdered
<1> QED BY <1>4, <1>6 DEF SearchInv

(* The answer to an explicit pair is the quote of that pair.               *)
LEMMA PairFound ==
    ASSUME RequestInv, AnswersInv, LookUpPair
    PROVE  SearchInv'
<1> DEFINE pair == <<Resolve(symbol), Resolve(quote)>>
<1>1. CASE Ends("failed") /\ UNCHANGED answers
  BY <1>1, NotSearching DEF Ends
<1>2. CASE ~(Ends("failed") /\ UNCHANGED answers)
  <2>1. PICK a \in AnswerTo(pair) :
            /\ answers' = Overlay([p \in {pair} |-> a], answers)
            /\ CASE a.kind = "error" -> Ends("failed")
                 [] a.kind = "none"  -> Ends("notfound")
                 [] OTHER -> /\ status' = "ok"
                             /\ result' = [path |-> "explicit", legs |-> <<a.quote>>,
                                           rate |-> a.quote]
                             /\ UNCHANGED <<route, half, inverse, first>>
    BY <1>2 DEF LookUpPair
  <2>2. a \in Answers
    BY <2>1, AnswersGrow
  <2>3. CASE status' = "failed" \/ status' = "notfound"
    BY <2>3, NotSearching
  <2>4. CASE ~(status' = "failed" \/ status' = "notfound")
    <3>1. /\ status' = "ok" /\ a.kind = "quote"
          /\ result' = [path |-> "explicit", legs |-> <<a.quote>>, rate |-> a.quote]
      BY <2>1, <2>2, <2>4 DEF Answers, Ends
    <3>2. result'.path = "explicit" /\ result'.rate = a.quote
      BY <3>1
    <3>3. Ordered(a.quote)
      BY <2>2, <3>1, PriceOrdered
    <3> QED BY <3>1, <3>2, <3>3
            DEF SearchInv, RouteInv, FirstRouteWins, LegsOrdered, QuotesOrdered, Ordered
  <2> QED BY <2>3, <2>4
<1> QED BY <1>1, <1>2
(* The codes of the leg looked for, and what is settled, after the answer. *)
LEMMA StillSettled ==
    ASSUME RequestInv, RouteInv, status = "convert",
           UNCHANGED <<client, symbol, quote>>, Extends(answers', answers)
    PROVE  /\ route \in Nat /\ half \in {1, 2} /\ (route = 0 => half = 1)
           /\ route # 0 =>
                  /\ client.synthetic /\ client'.synthetic
                  /\ LegMissing(symbol, quote)'
                  /\ route \in Eligible(0) /\ route \in Eligible(0)'
                  /\ \A j \in Eligible(0)' : j < route => RouteMissing(j)'
           /\ \A b : half = 2 /\ b = BridgeCurrencies[route] => first \in LegQuotes(symbol, b)'
           /\ Eligible(0)' = Eligible(0)
           /\ Eligible(0) \subseteq Nat /\ Eligible(route) \subseteq Nat
           /\ \A i \in Eligible(0) : i > route <=> i \in Eligible(route)
           /\ Eligible(route) \subseteq Eligible(0)
<1>1. /\ Eligible(0)' = Eligible(0)
      /\ LegMissing(symbol, quote) => LegMissing(symbol, quote)'
      /\ \A b : LegQuotes(symbol, b) \subseteq LegQuotes(symbol, b)'
      /\ \A i : RouteMissing(i) => RouteMissing(i)'
  BY StillSo
<1>2. route \in Nat /\ half \in {1, 2} /\ (route = 0 => half = 1)
  <2>1. route # 0 => route \in DOMAIN BridgeCurrencies
    BY DEF RouteInv, Eligible
  <2> QED BY <2>1, BridgeIsCode DEF RouteInv
<1>3. \A b : half = 2 /\ b = BridgeCurrencies[route] => first \in LegQuotes(symbol, b)'
  <2>1. half = 2 => first \in LegQuotes(symbol, BridgeCurrencies[route])
    BY DEF RouteInv
  <2> QED BY <1>1, <2>1
<1>4. /\ Eligible(0) \subseteq Nat /\ Eligible(route) \subseteq Nat
      /\ \A i \in Eligible(0) : i > route <=> i \in Eligible(route)
      /\ Eligible(route) \subseteq Eligible(0)
  <2>1. \A i \in DOMAIN BridgeCurrencies : i \in Nat
    BY BridgeIsCode
  <2> QED BY <1>2, <2>1 DEF Eligible
<1>5. route # 0 =>
          /\ client.synthetic /\ client'.synthetic
          /\ LegMissing(symbol, quote)'
          /\ route \in Eligible(0) /\ route \in Eligible(0)'
          /\ \A j \in Eligible(0)' : j < route => RouteMissing(j)'
  BY <1>1 DEF RouteInv
<1> QED BY <1>1, <1>2, <1>3, <1>4, <1>5

(* The pair is not there: its inverse is asked for.                        *)
LEMMA InverseNext ==
    ASSUME RequestInv, RouteInv, LegsOrdered, status = "convert",
           UNCHANGED <<client, symbol, quote>>, Extends(answers', answers),
           NEW from, NEW to, Leg[1] = from, Leg[2] = to,
           inverse' = TRUE, UNCHANGED <<status, route, half, first, result>>,
           AnsweredNone(from, to)'
    PROVE  SearchInv'
<1>1. Leg' = Leg
  BY DEF Leg
<1>2. AnsweredNone(Leg[1], Leg[2])'
  <2>1. Leg[1]' = from /\ Leg[2]' = to
    BY <1>1
  <2> QED BY <2>1 DEF AnsweredNone, Resolve
<1>3. inverse' \in BOOLEAN
  BY Zenon
<1>4. half = 2 => (first \in LegQuotes(symbol, BridgeCurrencies[route]))'
  <2> DEFINE b == BridgeCurrencies[route]
  <2>1. half = 2 => first \in LegQuotes(symbol, b)'
    BY StillSettled
  <2> QED BY <2>1
<1>5. RouteInv'
  BY <1>2, <1>3, <1>4, StillSettled DEF RouteInv
<1>6. LegsOrdered'
  BY DEF LegsOrdered, Ordered
<1> QED BY <1>5, <1>6 DEF SearchInv, FirstRouteWins, QuotesOrdered

(* A leg is missing: the next bridge is tried, if there is one.            *)
LEMMA RouteAfter ==
    ASSUME RequestInv, RouteInv, status = "convert",
           UNCHANGED <<client, symbol, quote>>, Extends(answers', answers),
           NEW from, NEW to, Leg[1] = from, Leg[2] = to,
           NextRoute, LegMissing(from, to)'
    PROVE  SearchInv'
<1>1. /\ route \in Nat /\ half \in {1, 2} /\ (route = 0 => half = 1)
      /\ route # 0 => /\ client.synthetic /\ client'.synthetic
                      /\ LegMissing(symbol, quote)'
                      /\ route \in Eligible(0)
                      /\ \A j \in Eligible(0)' : j < route => RouteMissing(j)'
      /\ Eligible(0)' = Eligible(0)
      /\ Eligible(0) \subseteq Nat /\ Eligible(route) \subseteq Nat
      /\ \A i \in Eligible(0) : i > route <=> i \in Eligible(route)
      /\ Eligible(route) \subseteq Eligible(0)
  BY StillSettled
<1>2. LegMissing(symbol, quote)'
  <2>1. CASE route = 0
    <3>1. from = symbol /\ to = quote
      BY <2>1, LegTyped
    <3> QED BY <3>1 DEF LegMissing, Resolve
  <2>2. CASE route # 0
    BY <1>1, <2>2
  <2> QED BY <2>1, <2>2
<1>3. ASSUME NEW j, j = route, route # 0 PROVE RouteMissing(j)'
  <2>1. \/ from = symbol /\ to = BridgeCurrencies[j]
        \/ from = BridgeCurrencies[j] /\ to = quote
    BY <1>1, <1>3, LegTyped
  <2> QED BY <2>1 DEF RouteMissing, LegMissing, Resolve
<1>4. \A j \in Eligible(0) : j <= route => RouteMissing(j)'
  <2> TAKE j \in Eligible(0)
  <2>1. j \in Nat /\ j # 0
    BY <1>1 DEF Eligible
  <2>2. j < route => RouteMissing(j)'
    BY <1>1, <2>1
  <2> QED BY <1>1, <1>3, <2>1, <2>2
<1>5. CASE Ends("noroute") /\ ((route = 0 /\ ~client.synthetic) \/ Eligible(route) = {})
  <2>1. client'.synthetic => \A i \in Eligible(0)' : RouteMissing(i)'
    BY <1>1, <1>4, <1>5
  <2> QED BY <1>2, <1>5, <2>1
          DEF Ends, SearchInv, RouteInv, FirstRouteWins, LegsOrdered, QuotesOrdered
<1>6. CASE /\ ~(route = 0 /\ ~client.synthetic) /\ Eligible(route) # {}
           /\ route' = Min(Eligible(route)) /\ half' = 1 /\ inverse' = FALSE
           /\ UNCHANGED <<status, result>>
  <2>1. route' \in Eligible(route) /\ \A j \in Eligible(route) : route' <= j
    BY <1>1, <1>6, LeastOf
  <2>2. route' \in Eligible(0)' /\ route' \in Nat
    BY <1>1, <2>1
  <2>3. \A j \in Eligible(0) : j < route' => j <= route
    BY <1>1, <2>1, <2>2
  <2>4. \A j \in Eligible(0)' : j < route' => RouteMissing(j)'
    BY <1>1, <1>4, <2>3
  <2>5. client'.synthetic
    BY <1>1, <1>6
  <2>6. inverse' \in BOOLEAN /\ ~(inverse')
    BY <1>6, Zenon
  <2>7. RouteInv'
    <3>1. half' \in {1, 2} /\ half' # 2
      BY <1>6
    <3> QED BY <1>2, <1>6, <2>2, <2>4, <2>5, <2>6, <3>1, Zenon DEF RouteInv
  <2>8. status' = "convert" /\ half' # 2
    BY <1>6
  <2> QED BY <2>7, <2>8 DEF SearchInv, FirstRouteWins, LegsOrdered, QuotesOrdered
<1> QED BY <1>5, <1>6 DEF NextRoute

(* A leg is found: it is the answer, the first leg or the second.          *)
LEMMA LegFound ==
    ASSUME RequestInv, RouteInv, LegsOrdered, status = "convert",
           UNCHANGED <<client, symbol, quote>>, Extends(answers', answers),
           NEW from, NEW to, Leg[1] = from, Leg[2] = to,
           NEW q, Found(q), q \in LegQuotes(from, to)', Ordered(q)
    PROVE  SearchInv'
<1>1. /\ route \in Nat /\ half \in {1, 2} /\ (route = 0 => half = 1)
      /\ route # 0 => /\ client'.synthetic
                      /\ LegMissing(symbol, quote)'
                      /\ route \in Eligible(0)'
                      /\ \A j \in Eligible(0)' : j < route => RouteMissing(j)'
      /\ \A b : half = 2 /\ b = BridgeCurrencies[route] => first \in LegQuotes(symbol, b)'
  BY StillSettled
<1>2. CASE route = 0
  <2>1. q \in LegQuotes(symbol, quote)'
    <3>1. from = symbol /\ to = quote
      BY <1>2, LegTyped
    <3> QED BY <3>1 DEF LegQuotes, Quoted, Resolve
  <2>2. /\ status' = "ok" /\ result' = [path |-> "direct", legs |-> <<q>>, rate |-> q]
    BY <1>2 DEF Found
  <2>3. result'.path = "direct" /\ result'.legs[1] = q /\ result'.rate = q
    BY <2>2
  <2> QED BY <2>1, <2>2, <2>3
          DEF SearchInv, RouteInv, FirstRouteWins, LegsOrdered, QuotesOrdered, Ordered
<1>3. CASE route # 0 /\ half = 1
  <2>1. /\ half' = 2 /\ inverse' = FALSE /\ first' = q /\ UNCHANGED <<status, route, result>>
    BY <1>3 DEF Found
  <2>2. (first \in LegQuotes(symbol, BridgeCurrencies[route]))'
    <3>1. from = symbol /\ to = BridgeCurrencies[route]
      BY <1>3, LegTyped
    <3> QED BY <2>1, <3>1 DEF LegQuotes, Quoted, Resolve
  <2>3. inverse' \in BOOLEAN /\ ~(inverse')
    BY <2>1, Zenon
  <2>4. RouteInv'
    <3>1. half' \in {1, 2} /\ ~(route' = 0)
      BY <1>3, <2>1
    <3>2. /\ client'.synthetic /\ LegMissing(symbol, quote)'
          /\ route' \in Eligible(0)'
          /\ \A j \in Eligible(0)' : j < route' => RouteMissing(j)'
      BY <1>1, <1>3, <2>1
    <3> QED BY <2>2, <2>3, <3>1, <3>2, Zenon DEF RouteInv
  <2>5. LegsOrdered' /\ status' = "convert"
    BY <2>1 DEF LegsOrdered, Ordered
  <2> QED BY <2>4, <2>5 DEF SearchInv, FirstRouteWins, QuotesOrdered
<1>4. CASE route # 0 /\ half = 2
  <2> DEFINE s == Synthetic(first, q)
  <2>1. status' = "ok" /\ result' = [path |-> "synthetic", legs |-> <<first, q>>, rate |-> s]
    BY <1>4 DEF Found
  <2>2. s.zero \/ (s.bid <= s.rate /\ s.rate <= s.ask)
    BY <1>4, SyntheticOrdered DEF LegsOrdered
  <2> HIDE DEF s
  <2>3. /\ result'.path = "synthetic" /\ result'.legs[1] = first /\ result'.legs[2] = q
        /\ result'.rate = s
    BY <2>1
  <2>4. QuotesOrdered'
    BY <2>2, <2>3 DEF QuotesOrdered
  <2>5. PICK i : i = route
    OBVIOUS
  <2>6. PICK bridge : bridge = BridgeCurrencies[i]
    OBVIOUS
  <2>7. first \in LegQuotes(symbol, bridge)'
    BY <1>1, <1>4, <2>5, <2>6
  <2>8. q \in LegQuotes(bridge, quote)'
    <3>1. from = bridge /\ to = quote
      BY <1>4, <2>5, <2>6, LegTyped
    <3> QED BY <3>1 DEF LegQuotes, Quoted, Resolve
  <2>9. /\ i \in Eligible(0)' /\ client'.synthetic /\ LegMissing(symbol, quote)'
        /\ \A j \in Eligible(0)' : j < i => RouteMissing(j)'
    BY <1>1, <1>4, <2>5
  <2>10. /\ (result.legs[1] \in LegQuotes(symbol, BridgeCurrencies[i]))'
         /\ (result.legs[2] \in LegQuotes(BridgeCurrencies[i], quote))'
    BY <2>3, <2>6, <2>7, <2>8
  <2>11. FirstRouteWins'
    BY <2>1, <2>3, <2>9, <2>10 DEF FirstRouteWins
  <2> QED BY <2>1, <2>4, <2>11 DEF SearchInv, RouteInv, LegsOrdered
<1> QED BY <1>1, <1>2, <1>3, <1>4

(* The search for a route goes on, ends with the first there is, or has    *)
(* looked for every one.                                                   *)
LEMMA SearchStep ==
    RequestInv /\ AnswersInv /\ SearchInv /\ [ConversionNext]_conversionVars => SearchInv'
<1> SUFFICES ASSUME RequestInv, AnswersInv, SearchInv, [ConversionNext]_conversionVars
             PROVE  SearchInv'
  OBVIOUS
<1>1. RouteInv /\ LegsOrdered
  BY DEF SearchInv
<1>2. ASSUME NEW words \in Texts, NEW mode \in Modes, Read(words, mode)
      PROVE  SearchInv'
  <2>1. status' = "rejected" \/ status' = "read"
    BY <1>2 DEF Read
  <2> QED BY <2>1, NotSearching
<1>3. CASE AskPair
  BY <1>3, NotSearching DEF AskPair
<1>4. CASE AskSymbol
  <2>1. \/ status' = "disabled" \/ status' = "noquote" \/ Begin(request.code, client.defaultQuote)
    BY <1>4 DEF AskSymbol
  <2>2. status = "read" /\ UNCHANGED <<route, half, inverse>>
    BY <1>4 DEF AskSymbol
  <2>3. CASE status' = "disabled" \/ status' = "noquote"
    BY <2>3, NotSearching
  <2> QED BY <2>1, <2>2, <2>3, BeginSearches
<1>5. ASSUME NEW to \in QuoteTexts, AskInQuote(to)
      PROVE  SearchInv'
  <2>1. status = "read" /\ UNCHANGED <<route, half, inverse>> /\ Begin(request.code, to)
    BY <1>5 DEF AskInQuote
  <2> QED BY <2>1, BeginSearches
<1>6. CASE LookUp
  <2>1. status = "convert" /\ UNCHANGED <<client, symbol, quote>>
    BY <1>6 DEF LookUp
  <2>2. PICK from \in Words, to \in Words :
            /\ Leg[1] = from /\ Leg[2] = to
            /\ Extends(answers', answers)
            /\ \/ Ends("failed")
               \/ /\ inverse' = TRUE /\ UNCHANGED <<status, route, half, first, result>>
                  /\ AnsweredNone(from, to)'
               \/ NextRoute /\ LegMissing(from, to)'
               \/ \E q : Found(q) /\ q \in LegQuotes(from, to)' /\ Ordered(q)
    BY <1>1, <1>6, LookUpOutcome
  <2>3. CASE Ends("failed")
    BY <2>3, NotSearching DEF Ends
  <2>4. CASE /\ inverse' = TRUE /\ UNCHANGED <<status, route, half, first, result>>
             /\ AnsweredNone(from, to)'
    BY <1>1, <2>1, <2>2, <2>4, InverseNext
  <2>5. CASE NextRoute /\ LegMissing(from, to)'
    BY <1>1, <2>1, <2>2, <2>5, RouteAfter
  <2>6. CASE \E q : Found(q) /\ q \in LegQuotes(from, to)' /\ Ordered(q)
    BY <1>1, <2>1, <2>2, <2>6, LegFound
  <2> QED BY <2>2, <2>3, <2>4, <2>5, <2>6
<1>7. CASE LookUpPair
  BY <1>7, PairFound
<1>8. CASE Again
  BY <1>8, NotSearching DEF Again
<1>9. CASE UNCHANGED conversionVars
  <2>1. /\ \A w : Resolve(w)' = Resolve(w)
        /\ Resolve(symbol)' = Resolve(symbol) /\ Resolve(quote)' = Resolve(quote)
    BY <1>9 DEF conversionVars, Resolve
  <2>2. /\ LegMissing(symbol, quote)' = LegMissing(symbol, quote)
        /\ Eligible(0)' = Eligible(0) /\ Leg' = Leg
    BY <1>9, <2>1 DEF conversionVars, LegMissing, Eligible, Leg
  <2>3. RouteInv'
    BY <1>1, <1>9, <2>1, <2>2
       DEF conversionVars, RouteInv, LegQuotes, Quoted, RouteMissing, LegMissing, AnsweredNone
  <2>4. FirstRouteWins'
    <3>1. /\ \A b : LegQuotes(symbol, b)' = LegQuotes(symbol, b)
          /\ \A b : LegQuotes(b, quote)' = LegQuotes(b, quote)
          /\ LegQuotes(symbol, quote)' = LegQuotes(symbol, quote)
      BY <1>9, <2>1 DEF conversionVars, LegQuotes, Quoted
    <3>2. \A j : RouteMissing(j)' = RouteMissing(j)
      BY <1>9, <2>1 DEF conversionVars, RouteMissing, LegMissing
    <3> QED BY <1>9, <2>2, <3>1, <3>2 DEF conversionVars, SearchInv, FirstRouteWins
  <2>5. LegsOrdered' /\ QuotesOrdered'
    BY <1>9 DEF conversionVars, SearchInv, LegsOrdered, QuotesOrdered, Ordered
  <2> QED BY <2>3, <2>4, <2>5 DEF SearchInv
<1> QED BY <1>2, <1>3, <1>4, <1>5, <1>6, <1>7, <1>8, <1>9 DEF ConversionNext
-----------------------------------------------------------------------------
(* What is claimed of a client, a request and a search for a route holds   *)
(* from the start, and every step keeps it.                                *)
LEMMA ConversionInvariant == ConversionSpec => []ConversionInv
<1>1. ConversionInit => ConversionInv
  BY ConversionInvInit
<1>2. ConversionInv /\ [ConversionNext]_conversionVars => ConversionInv'
  <2> SUFFICES ASSUME ConversionInv, [ConversionNext]_conversionVars PROVE ConversionInv'
    OBVIOUS
  <2>1. RequestInv /\ AnswersInv /\ RouteInv /\ SearchInv
    BY DEF ConversionInv, SearchInv
  <2>2. RequestInv'
    BY <2>1, RequestStep
  <2>3. AnswersInv'
    BY <2>1, AnswersStep
  <2>4. SearchInv'
    BY <2>1, SearchStep
  <2> QED BY <2>2, <2>3, <2>4 DEF ConversionInv, SearchInv
<1> QED BY <1>1, <1>2, PTL DEF ConversionSpec

(* FirstRouteWins: a symbol is converted by the first route there is, from *)
(* quotes the feed has for its legs, and no route is reported only when    *)
(* every route was looked for (client.rs, the conversion in a quote).      *)
THEOREM FirstRouteAlwaysWins == ConversionSpec => []FirstRouteWins
<1>1. ConversionInv => FirstRouteWins
  BY DEF ConversionInv
<1> QED BY <1>1, ConversionInvariant, PTL

(* QuotesOrdered: inverting a quote and multiplying two keep the bid below *)
(* the rate and the ask above it, unless a price was rounded to zero.      *)
THEOREM QuotesAlwaysOrdered == ConversionSpec => []QuotesOrdered
<1>1. ConversionInv => QuotesOrdered
  BY DEF ConversionInv
<1> QED BY <1>1, ConversionInvariant, PTL

(* FetchesCanonical: only codes at the end of their chain of aliases, or   *)
(* on its circle, are fetched.                                             *)
THEOREM OnlyCanonicalFetched == ConversionSpec => []FetchesCanonical
<1>1. ConversionInv => FetchesCanonical
  BY DEF ConversionInv, AnswersInv
<1> QED BY <1>1, ConversionInvariant, PTL

(* ReadsBack: what a text is read as by Auto or PairOnly is displayed as a *)
(* text that Auto reads as the same, and capitals do not matter            *)
(* (models.rs, the parser); SymbolOnly is not meant.                       *)
THEOREM AlwaysReadsBack == ConversionSpec => []ReadsBack
<1>1. ConversionInv => ReadsBack
  <2> SUFFICES ASSUME ConversionInv, text # <<>>, NEW mode \in {"Auto", "PairOnly"},
                      ParseWithMode(text, mode) # Rejected
               PROVE  /\ ParseWithMode(Display(ParseWithMode(text, mode)), "Auto")
                             = ParseWithMode(text, mode)
                      /\ ParseWithMode([i \in DOMAIN text |-> Upper[text[i]]], mode)
                             = ParseWithMode(text, mode)
    BY Zenon DEF ReadsBack
  <2>1. text \in Seq(Words)
    BY ConversionAssumption DEF ConversionInv, RequestInv
  <2> QED BY <2>1, TextReadsBack, CapitalsReadAlike
<1> QED BY <1>1, ConversionInvariant, PTL

(* ReadersAgree: the quick path for compact pairs, the modes of the parser *)
(* and the parser of a pair alone read a text as the same pair.            *)
THEOREM ReadersAlwaysAgree == ConversionSpec => []ReadersAgree
<1>1. ConversionInv => ReadersAgree
  <2> SUFFICES ASSUME ConversionInv, text # <<>>
               PROVE  ReadersAgree
    BY DEF ReadersAgree
  <2>1. text \in Seq(Words)
    BY ConversionAssumption DEF ConversionInv, RequestInv
  <2> QED BY <2>1, TextReadersAgree DEF ReadersAgree
<1> QED BY <1>1, ConversionInvariant, PTL

(* CatalogWins: a code the catalog has an alias for is resolved by the     *)
(* client as by the catalog, unless code_alias gave its canonical code     *)
(* another meaning.                                                        *)
THEOREM CatalogAlwaysWins == ConversionSpec => []CatalogWins
<1>1. ConversionInv => CatalogWins
  <2> SUFFICES ASSUME ConversionInv, NEW w \in Words,
                      Normal[w] \in DOMAIN client.catalog,
                      CatalogResolve(client.catalog, w)
                          \notin {Normal[client.own[i][1]] : i \in DOMAIN client.own}
               PROVE  /\ Resolve(w) = CatalogResolve(client.catalog, w)
                      /\ CatalogResolve(client.catalog, w) \in CatalogCodes
    BY Zenon DEF CatalogWins
  <2>1. client \in Clients
    BY DEF ConversionInv, RequestInv
  <2>2. Resolve(w) = ResolveAliasChain(client.aliases, Normal[w])
    BY ResolversAlike DEF Resolve
  <2> QED BY <2>1, <2>2, CatalogDecides DEF CatalogResolve
<1> QED BY <1>1, ConversionInvariant, PTL

(* Following the aliases of a code that was resolved changes nothing, for  *)
(* any finite table of codes, with chains, forks and circles (client.rs,   *)
(* resolve_code_alias).                                                    *)
THEOREM ResolvedForGood ==
    ASSUME NEW aliases, IsTable(aliases), NEW word \in DOMAIN Normal
    PROVE  LET r == ResolveCodeAlias(aliases, word)
           IN  r \in Codes /\ ResolveCodeAlias(aliases, r) = r
<1> DEFINE r == ResolveAliasChain(aliases, Normal[word])
<1>1. r \in Codes /\ ResolveAliasChain(aliases, r) = r
  BY AliasAssumption, ChainTyped, ResolvingTwice DEF IsTable
<1>2. ResolveCodeAlias(aliases, word) = r
  BY ResolversAlike
<1> HIDE DEF r
<1>3. ResolveCodeAlias(aliases, r) = ResolveAliasChain(aliases, Normal[r]) /\ Normal[r] = r
  BY <1>1, ResolversAlike, AliasAssumption
<1> QED BY <1>1, <1>2, <1>3
=============================================================================
