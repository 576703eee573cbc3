-------------------------- MODULE FetchCacheProofs --------------------------
(***************************************************************************)
(* Theorems about FetchCache, for any number of calls, urls, permits and   *)
(* retries and any capacity of the cache.  The inductive invariant IInv is *)
(* the conjunction of TypeOK, of the agreement between the in-flight map   *)
(* and the leaders, and of what each label of pc implies about the flight  *)
(* a call holds, the permits it holds and the result it publishes.  First  *)
(* the one fact about the cache they need: no key comes in unasked.        *)
(***************************************************************************)
EXTENDS FetchCache, FiniteSetTheorems, TLAPS

(* Taking one key out of a cache brings none in,                           *)
LEMMA WithoutKey ==
    ASSUME NEW Keys, NEW held \in Seq(Keys), NEW key \in Keys
    PROVE  /\ Without(held, key) \in Seq(Keys)
           /\ \A k \in Keys : Cached(Without(held, key), k) => Cached(held, k)
<1>1. CASE ~Cached(held, key)
  BY <1>1 DEF Without, Cached
<1>2. CASE Cached(held, key)
  <2> DEFINE p == PositionOf(held, key)
             before == SubSeq(held, 1, p - 1)
             after  == SubSeq(held, p + 1, Len(held))
  <2>1. p \in 1..Len(held) /\ Len(held) \in Nat
    BY <1>2 DEF Cached, PositionOf
  <2>2. Without(held, key) = before \o after
    BY <1>2 DEF Without, RemoveAt
  <2>3. before \in Seq(Keys) /\ after \in Seq(Keys)
    BY <2>1
  <2>4. /\ \A i \in DOMAIN before : \E n \in DOMAIN held : before[i] = held[n]
        /\ \A i \in DOMAIN after : \E n \in DOMAIN held : after[i] = held[n]
    <3>1. \A i \in DOMAIN before : i \in DOMAIN held /\ before[i] = held[i]
      BY <2>1
    <3>2. \A i \in DOMAIN after : p + i \in DOMAIN held /\ after[i] = held[p + i]
      BY <2>1
    <3> HIDE DEF before, after
    <3> QED BY <3>1, <3>2
  <2> HIDE DEF before, after
  <2>5. \A i \in DOMAIN (before \o after) :
            \E n \in DOMAIN held : (before \o after)[i] = held[n]
    <3> SUFFICES ASSUME NEW i \in DOMAIN (before \o after)
                 PROVE  \E n \in DOMAIN held : (before \o after)[i] = held[n]
      OBVIOUS
    <3>1. \/ i \in DOMAIN before /\ (before \o after)[i] = before[i]
          \/ /\ i - Len(before) \in DOMAIN after
             /\ (before \o after)[i] = after[i - Len(before)]
      BY <2>3
    <3> QED BY <3>1, <2>4
  <2>6. before \o after \in Seq(Keys)
    BY <2>3
  <2> QED BY <2>2, <2>5, <2>6 DEF Cached
<1> QED BY <1>1, <1>2

(* a get brings its own key to the front,                                  *)
LEMMA PromotedKey ==
    ASSUME NEW Keys, NEW held \in Seq(Keys), NEW key \in Keys
    PROVE  /\ Promote(held, key) \in Seq(Keys) /\ Len(Promote(held, key)) > 0
           /\ \A k \in Keys : Cached(Promote(held, key), k) => Cached(held, k) \/ k = key
<1> DEFINE w == Without(held, key)
<1>1. w \in Seq(Keys) /\ \A k \in Keys : Cached(w, k) => Cached(held, k)
  BY WithoutKey
<1>2. Promote(held, key) = <<key>> \o w
  BY DEF Promote
<1> HIDE DEF w
<1>3. <<key>> \o w \in Seq(Keys) /\ Len(<<key>> \o w) = Len(w) + 1
  BY <1>1
<1>4. \A i \in DOMAIN (<<key>> \o w) :
          (<<key>> \o w)[i] = key \/ \E n \in DOMAIN w : (<<key>> \o w)[i] = w[n]
  <2> SUFFICES ASSUME NEW i \in 1..(Len(w) + 1)
               PROVE  (<<key>> \o w)[i] = key \/ \E n \in DOMAIN w : (<<key>> \o w)[i] = w[n]
    BY <1>1, <1>3
  <2>1. CASE i = 1
    BY <1>1, <2>1
  <2>2. CASE i # 1
    <3>1. i - 1 \in DOMAIN w /\ (<<key>> \o w)[i] = w[i - 1]
      BY <1>1, <2>2
    <3> QED BY <3>1
  <2> QED BY <2>1, <2>2
<1>5. Len(w) \in Nat
  BY <1>1
<1>6. \A k \in Keys : Cached(<<key>> \o w, k) => Cached(w, k) \/ k = key
  BY <1>4, Zenon DEF Cached
<1> QED BY <1>1, <1>2, <1>3, <1>5, <1>6

(* and a put brings in no other.                                           *)
LEMMA InsertedKey ==
    ASSUME NEW Keys, NEW held \in Seq(Keys), NEW key \in Keys, NEW capacity \in Nat
    PROVE  /\ Insert(held, key, capacity) \in Seq(Keys)
           /\ \A k \in Keys : Cached(Insert(held, key, capacity), k) => Cached(held, k) \/ k = key
<1> DEFINE q == Promote(held, key)
           r == Insert(held, key, capacity)
<1>1. /\ q \in Seq(Keys) /\ Len(q) > 0
      /\ \A k \in Keys : Cached(q, k) => Cached(held, k) \/ k = key
  BY PromotedKey
<1>2. r = IF Len(q) > capacity THEN SubSeq(q, 1, Len(q) - 1) ELSE q
  BY DEF Insert, Front
<1> HIDE DEF q, r
<1>3. r \in Seq(Keys) /\ \A i \in DOMAIN r : i \in DOMAIN q /\ r[i] = q[i]
  BY <1>1, <1>2
<1> QED BY <1>1, <1>3 DEF Cached, r
-----------------------------------------------------------------------------

(* The InFlightFetch a call holds: its own, or that of a call of the same  *)
(* url which leads or has led; a woken follower's leader has returned.     *)
FlightHeld ==
    \A c \in Calls :
        /\ pc[c] \in {"idle", "lookup", "enter"} => flight[c] = None
        /\ pc[c] \in Leading => flight[c] = c
        /\ pc[c] \in {"joined", "waiting", "woken"} =>
               /\ flight[c] \in Calls \ {c}
               /\ flight[flight[c]] = flight[c]
               /\ target[flight[c]] = target[c]
               /\ pc[flight[c]] \in Leading \cup {"done"}
        /\ pc[c] = "woken" => pc[flight[c]] = "done"
        /\ flight[c] = c => pc[c] \in Leading \cup {"done"}

(* The outcome of a call is set once; a leader publishes it before it      *)
(* leaves the map.                                                         *)
OutcomeKnown ==
    \A c \in Calls :
        /\ outcome[c] # "none" <=> pc[c] \in {"publish", "deregister", "notify", "done"}
        /\ flight[c] = c => outcome[c] # "cancelled"
        /\ flight[c] = c /\ pc[c] \in {"deregister", "notify", "done"}
               => result[c] = Told(outcome[c])

(* Whatever is cached was once downloaded.                                 *)
CachedWasObtained ==
    \A u \in Urls : Cached(cache, u) =>
        \E c \in Calls : target[c] = u /\ outcome[c] = "data"

(* The calls that hold a permit are finitely many and account for every    *)
(* permit that is not free.                                                *)
HoldersFinite ==
    /\ IsFiniteSet(CallsAt(Requesting))
    /\ IsFiniteSet(CallsAt(Unpacking))

IInv ==
    /\ TypeOK
    /\ EntryHasLeader
    /\ FlightHeld
    /\ OutcomeKnown
    /\ CachedWasObtained
    /\ HoldersFinite
    /\ PermitsBalanced

-----------------------------------------------------------------------------
(* Two sets that differ in c at most differ in size by what c makes.       *)
LEMMA DifferInOne ==
    ASSUME NEW held, NEW holds, NEW c,
           held \ {c} = holds \ {c},
           IsFiniteSet(held)
    PROVE  /\ IsFiniteSet(holds)
           /\ Cardinality(held) \in Nat
           /\ Cardinality(holds) \in Nat
           /\ Cardinality(holds) + (IF c \in held THEN 1 ELSE 0)
                = Cardinality(held) + (IF c \in holds THEN 1 ELSE 0)
<1>1. Cardinality(held) \in Nat
  BY FS_CardinalityType
<1>2. CASE c \in held <=> c \in holds
  <2>1. held = holds
    BY <1>2
  <2> QED BY <1>1, <1>2, <2>1
<1>3. CASE c \notin held /\ c \in holds
  <2>1. holds = held \cup {c}
    BY <1>3
  <2>2. IsFiniteSet(holds) /\ Cardinality(holds) = Cardinality(held) + 1
    BY <1>3, <2>1, FS_AddElement
  <2> QED BY <1>1, <1>3, <2>2
<1>4. CASE c \in held /\ c \notin holds
  <2>1. holds = held \ {c}
    BY <1>4
  <2>2. IsFiniteSet(holds) /\ Cardinality(holds) = Cardinality(held) - 1
    BY <1>4, <2>1, FS_RemoveElement
  <2>3. Cardinality(holds) \in Nat
    BY <2>2, FS_CardinalityType
  <2> QED BY <1>1, <1>4, <2>2, <2>3
<1> QED BY <1>2, <1>3, <1>4

USE ClientConfigAssumption DEF ClientConfigAssumption

(* The invariant holds at the start.                                       *)
LEMMA InitInv == Init => IInv
<1> SUFFICES ASSUME Init PROVE IInv
  OBVIOUS
<1>1. TypeOK
  BY DEF Init, TypeOK, Labels, Leading, Registered, Downloading, Acquiring,
         Requesting, Outcomes
<1>2. EntryHasLeader /\ FlightHeld /\ OutcomeKnown
  BY DEF Init, EntryHasLeader, FlightHeld, OutcomeKnown,
         Leading, Registered, Downloading, Acquiring, Requesting
<1>3. CachedWasObtained
  BY DEF Init, CachedWasObtained, Cached
<1>4. HoldersFinite /\ PermitsBalanced
  <2>1. CallsAt(Requesting) = {} /\ CallsAt(Unpacking) = {}
    BY DEF Init, CallsAt, Requesting, Unpacking
  <2>2. IsFiniteSet({}) /\ Cardinality({}) = 0
    BY FS_EmptySet
  <2>3. requestPermits = MaxInFlight /\ unpackPermits = MaxDecompress
    BY DEF Init
  <2> QED BY <2>1, <2>2, <2>3 DEF HoldersFinite, PermitsBalanced
<1> QED BY <1>1, <1>2, <1>3, <1>4 DEF IInv

(* A call that moves to label l accounts for the permits it takes and      *)
(* gives back.                                                             *)
LEMMA PermitsMove ==
    ASSUME IInv, NEW c \in Calls, NEW l \in Labels,
           pc' = [pc EXCEPT ![c] = l],
           requestPermits' \in Nat,
           unpackPermits' \in Nat,
           requestPermits' = requestPermits + (IF pc[c] \in Requesting THEN 1 ELSE 0)
                     - (IF l \in Requesting THEN 1 ELSE 0),
           unpackPermits' = unpackPermits + (IF pc[c] \in Unpacking THEN 1 ELSE 0)
                     - (IF l \in Unpacking THEN 1 ELSE 0)
    PROVE  /\ requestPermits' \in 0..MaxInFlight
           /\ unpackPermits' \in 0..MaxDecompress
           /\ HoldersFinite'
           /\ PermitsBalanced'
<1>1. /\ pc \in [Calls -> Labels]
      /\ requestPermits \in Nat
      /\ unpackPermits \in Nat
      /\ MaxInFlight \in Nat
      /\ MaxDecompress \in Nat
  BY DEF IInv, TypeOK
<1>2. /\ IsFiniteSet(CallsAt(Requesting))
      /\ IsFiniteSet(CallsAt(Unpacking))
      /\ requestPermits + Cardinality(CallsAt(Requesting)) = MaxInFlight
      /\ unpackPermits + Cardinality(CallsAt(Unpacking)) = MaxDecompress
  BY DEF IInv, HoldersFinite, PermitsBalanced
<1>3. /\ IsFiniteSet(CallsAt(Requesting)')
      /\ requestPermits' + Cardinality(CallsAt(Requesting)') = MaxInFlight
      /\ requestPermits' \in 0..MaxInFlight
  <2> DEFINE held == CallsAt(Requesting)
             holds == CallsAt(Requesting)'
  <2>1. /\ held \ {c} = holds \ {c}
        /\ c \in held <=> pc[c] \in Requesting
        /\ c \in holds <=> l \in Requesting
    <3>1. held = {d \in Calls : pc[d] \in Requesting}
      BY DEF CallsAt
    <3>2. holds = {d \in Calls : pc'[d] \in Requesting}
      BY DEF CallsAt, Requesting
    <3> HIDE DEF held, holds
    <3> QED BY <1>1, <3>1, <3>2
  <2> HIDE DEF held, holds
  <2>2. requestPermits' = requestPermits + (IF c \in held THEN 1 ELSE 0)
                      - (IF c \in holds THEN 1 ELSE 0)
    BY <2>1
  <2>3. IsFiniteSet(held) /\ requestPermits + Cardinality(held) = MaxInFlight
    BY <1>2 DEF held
  <2>4. /\ IsFiniteSet(holds)
        /\ Cardinality(held) \in Nat
        /\ Cardinality(holds) \in Nat
        /\ Cardinality(holds) + (IF c \in held THEN 1 ELSE 0)
             = Cardinality(held) + (IF c \in holds THEN 1 ELSE 0)
    BY <2>1, <2>3, DifferInOne
  <2>5. requestPermits' + Cardinality(holds) = MaxInFlight
    BY <1>1, <2>2, <2>3, <2>4
  <2> QED BY <2>4, <2>5 DEF holds
<1>4. /\ IsFiniteSet(CallsAt(Unpacking)')
      /\ unpackPermits' + Cardinality(CallsAt(Unpacking)') = MaxDecompress
      /\ unpackPermits' \in 0..MaxDecompress
  <2> DEFINE held == CallsAt(Unpacking)
             holds == CallsAt(Unpacking)'
  <2>1. /\ held \ {c} = holds \ {c}
        /\ c \in held <=> pc[c] \in Unpacking
        /\ c \in holds <=> l \in Unpacking
    <3>1. held = {d \in Calls : pc[d] \in Unpacking}
      BY DEF CallsAt
    <3>2. holds = {d \in Calls : pc'[d] \in Unpacking}
      BY DEF CallsAt, Unpacking
    <3> HIDE DEF held, holds
    <3> QED BY <1>1, <3>1, <3>2
  <2> HIDE DEF held, holds
  <2>2. unpackPermits' = unpackPermits + (IF c \in held THEN 1 ELSE 0)
                      - (IF c \in holds THEN 1 ELSE 0)
    BY <2>1
  <2>3. IsFiniteSet(held) /\ unpackPermits + Cardinality(held) = MaxDecompress
    BY <1>2 DEF held
  <2>4. /\ IsFiniteSet(holds)
        /\ Cardinality(held) \in Nat
        /\ Cardinality(holds) \in Nat
        /\ Cardinality(holds) + (IF c \in held THEN 1 ELSE 0)
             = Cardinality(held) + (IF c \in holds THEN 1 ELSE 0)
    BY <2>1, <2>3, DifferInOne
  <2>5. unpackPermits' + Cardinality(holds) = MaxDecompress
    BY <1>1, <2>2, <2>3, <2>4
  <2> QED BY <2>4, <2>5 DEF holds
<1>5. HoldersFinite' /\ PermitsBalanced'
  BY <1>3, <1>4 DEF HoldersFinite, PermitsBalanced
<1> QED BY <1>3, <1>4, <1>5
(* A step that leaves the holders alone and the permits, too.              *)
LEMMA PermitsStay ==
    ASSUME IInv,
           CallsAt(Requesting)' = CallsAt(Requesting),
           CallsAt(Unpacking)' = CallsAt(Unpacking),
           UNCHANGED <<requestPermits, unpackPermits>>
    PROVE  HoldersFinite' /\ PermitsBalanced'
BY DEF IInv, HoldersFinite, PermitsBalanced

(* STEPS *)
USE DEF Labels, Leading, Registered, Downloading, Acquiring, Requesting, Unpacking

(* Steps that only move a call between labels at which it holds nothing.   *)
LEMMA InvokeStep ==
    ASSUME IInv, NEW c \in Calls, Invoke(c)
    PROVE  IInv'
<1>1. TypeOK'
  BY DEF IInv, TypeOK, Outcomes, Invoke, Goto
<1>2. EntryHasLeader'
  BY DEF IInv, TypeOK, EntryHasLeader, Invoke, Goto
<1>3. FlightHeld'
  BY DEF IInv, TypeOK, FlightHeld, EntryHasLeader, Invoke, Goto
<1>4. OutcomeKnown'
  BY DEF IInv, TypeOK, FlightHeld, OutcomeKnown, Invoke, Goto
<1>5. CachedWasObtained'
  BY DEF IInv, TypeOK, OutcomeKnown, CachedWasObtained, Invoke, Goto
<1>7. /\ CallsAt(Requesting)' = CallsAt(Requesting)
      /\ CallsAt(Unpacking)' = CallsAt(Unpacking)
      /\ UNCHANGED <<requestPermits, unpackPermits>>
  BY DEF IInv, TypeOK, CallsAt, Invoke, Goto
<1>8. HoldersFinite' /\ PermitsBalanced'
  BY <1>7, PermitsStay
<1> QED BY <1>1, <1>2, <1>3, <1>4, <1>5, <1>8 DEF IInv


(* Each step of a call keeps it: a lookup that misses,                     *)
LEMMA MissStep ==
    ASSUME IInv, NEW c \in Calls, Miss(c)
    PROVE  IInv'
<1>1. TypeOK'
  BY DEF IInv, TypeOK, Outcomes, Miss, Goto
<1>2. EntryHasLeader'
  BY DEF IInv, TypeOK, EntryHasLeader, Miss, Goto
<1>3. FlightHeld'
  BY DEF IInv, TypeOK, FlightHeld, EntryHasLeader, Miss, Goto
<1>4. OutcomeKnown'
  BY DEF IInv, TypeOK, FlightHeld, OutcomeKnown, Miss, Goto
<1>5. CachedWasObtained'
  BY DEF IInv, TypeOK, OutcomeKnown, CachedWasObtained, Miss, Goto
<1>7. /\ CallsAt(Requesting)' = CallsAt(Requesting)
      /\ CallsAt(Unpacking)' = CallsAt(Unpacking)
      /\ UNCHANGED <<requestPermits, unpackPermits>>
  BY DEF IInv, TypeOK, CallsAt, Miss, Goto
<1>8. HoldersFinite' /\ PermitsBalanced'
  BY <1>7, PermitsStay
<1> QED BY <1>1, <1>2, <1>3, <1>4, <1>5, <1>8 DEF IInv


(* a follower that begins to listen,                                       *)
LEMMA ListenStep ==
    ASSUME IInv, NEW c \in Calls, Listen(c)
    PROVE  IInv'
<1>1. TypeOK'
  BY DEF IInv, TypeOK, Outcomes, Listen, Goto
<1>2. EntryHasLeader'
  BY DEF IInv, TypeOK, EntryHasLeader, Listen, Goto
<1>3. FlightHeld'
  BY DEF IInv, TypeOK, FlightHeld, EntryHasLeader, Listen, Goto
<1>4. OutcomeKnown'
  BY DEF IInv, TypeOK, FlightHeld, OutcomeKnown, Listen, Goto
<1>5. CachedWasObtained'
  BY DEF IInv, TypeOK, OutcomeKnown, CachedWasObtained, Listen, Goto
<1>7. /\ CallsAt(Requesting)' = CallsAt(Requesting)
      /\ CallsAt(Unpacking)' = CallsAt(Unpacking)
      /\ UNCHANGED <<requestPermits, unpackPermits>>
  BY DEF IInv, TypeOK, CallsAt, Listen, Goto
<1>8. HoldersFinite' /\ PermitsBalanced'
  BY <1>7, PermitsStay
<1> QED BY <1>1, <1>2, <1>3, <1>4, <1>5, <1>8 DEF IInv


(* a leader that tries again,                                              *)
LEMMA RetryStep ==
    ASSUME IInv, NEW c \in Calls, Retry(c)
    PROVE  IInv'
<1>1. TypeOK'
  BY DEF IInv, TypeOK, Outcomes, Retry, Goto
<1>2. EntryHasLeader'
  BY DEF IInv, TypeOK, EntryHasLeader, Retry, Goto
<1>3. FlightHeld'
  BY DEF IInv, TypeOK, FlightHeld, EntryHasLeader, Retry, Goto
<1>4. OutcomeKnown'
  BY DEF IInv, TypeOK, FlightHeld, OutcomeKnown, Retry, Goto
<1>5. CachedWasObtained'
  BY DEF IInv, TypeOK, OutcomeKnown, CachedWasObtained, Retry, Goto
<1>7. /\ CallsAt(Requesting)' = CallsAt(Requesting)
      /\ CallsAt(Unpacking)' = CallsAt(Unpacking)
      /\ UNCHANGED <<requestPermits, unpackPermits>>
  BY DEF IInv, TypeOK, CallsAt, Retry, Goto
<1>8. HoldersFinite' /\ PermitsBalanced'
  BY <1>7, PermitsStay
<1> QED BY <1>1, <1>2, <1>3, <1>4, <1>5, <1>8 DEF IInv

(* A hit returns data that was obtained before.                            *)
LEMMA HitStep ==
    ASSUME IInv, NEW c \in Calls, Hit(c)
    PROVE  IInv'
<1>0. /\ cache' \in Seq(Urls)
      /\ \A u \in Urls : Cached(cache', u) => Cached(cache, u)
  <2>1. /\ cache \in Seq(Urls)
        /\ target[c] \in Urls
        /\ Cached(cache, target[c])
        /\ cache' = Promote(cache, target[c])
    BY DEF IInv, TypeOK, Hit
  <2> QED BY <2>1, PromotedKey
<1>1. TypeOK'
  BY <1>0 DEF IInv, TypeOK, Outcomes, Hit, Return, Goto
<1>2. EntryHasLeader'
  BY DEF IInv, TypeOK, EntryHasLeader, Hit, Return, Goto
<1>3. FlightHeld'
  BY DEF IInv, TypeOK, FlightHeld, EntryHasLeader, Hit, Return, Goto
<1>4. OutcomeKnown'
  BY DEF IInv, TypeOK, FlightHeld, OutcomeKnown, Hit, Return, Goto
<1>5. CachedWasObtained'
  BY <1>0 DEF IInv, TypeOK, OutcomeKnown, CachedWasObtained, Hit, Return, Goto
<1>7. /\ CallsAt(Requesting)' = CallsAt(Requesting)
      /\ CallsAt(Unpacking)' = CallsAt(Unpacking)
      /\ UNCHANGED <<requestPermits, unpackPermits>>
  BY DEF IInv, TypeOK, CallsAt, Hit, Return, Goto
<1>8. HoldersFinite' /\ PermitsBalanced'
  BY <1>7, PermitsStay
<1> QED BY <1>1, <1>2, <1>3, <1>4, <1>5, <1>8 DEF IInv

(* A leader enters the map where there was no entry.                       *)
LEMMA LeadStep ==
    ASSUME IInv, NEW c \in Calls, Lead(c)
    PROVE  IInv'
<1>1. TypeOK'
  BY DEF IInv, TypeOK, Outcomes, Lead, Goto
<1>2. EntryHasLeader'
  BY DEF IInv, TypeOK, EntryHasLeader, Lead, Goto
<1>3. FlightHeld'
  BY DEF IInv, TypeOK, FlightHeld, EntryHasLeader, Lead, Goto
<1>4. OutcomeKnown'
  BY DEF IInv, TypeOK, FlightHeld, OutcomeKnown, Lead, Goto
<1>5. CachedWasObtained'
  BY DEF IInv, TypeOK, OutcomeKnown, CachedWasObtained, Lead, Goto
<1>7. /\ CallsAt(Requesting)' = CallsAt(Requesting)
      /\ CallsAt(Unpacking)' = CallsAt(Unpacking)
      /\ UNCHANGED <<requestPermits, unpackPermits>>
  BY DEF IInv, TypeOK, CallsAt, Lead, Goto
<1>8. HoldersFinite' /\ PermitsBalanced'
  BY <1>7, PermitsStay
<1> QED BY <1>1, <1>2, <1>3, <1>4, <1>5, <1>8 DEF IInv

(* A follower holds the flight of a registered leader.                     *)
LEMMA JoinStep ==
    ASSUME IInv, NEW c \in Calls, Join(c)
    PROVE  IInv'
<1>0. LET f == inFlight[target[c]]
      IN  f \in Calls /\ pc[f] \in Registered /\ target[f] = target[c] /\ flight[f] = f
  BY DEF IInv, TypeOK, EntryHasLeader, FlightHeld, Join
<1>1. TypeOK'
  BY DEF IInv, TypeOK, Outcomes, Join, Goto
<1>2. EntryHasLeader'
  BY DEF IInv, TypeOK, EntryHasLeader, Join, Goto
<1>3. FlightHeld'
  BY <1>0 DEF IInv, TypeOK, FlightHeld, EntryHasLeader, Join, Goto
<1>4. OutcomeKnown'
  BY DEF IInv, TypeOK, FlightHeld, OutcomeKnown, Join, Goto
<1>5. CachedWasObtained'
  BY DEF IInv, TypeOK, OutcomeKnown, CachedWasObtained, Join, Goto
<1>7. /\ CallsAt(Requesting)' = CallsAt(Requesting)
      /\ CallsAt(Unpacking)' = CallsAt(Unpacking)
      /\ UNCHANGED <<requestPermits, unpackPermits>>
  BY DEF IInv, TypeOK, CallsAt, Join, Goto
<1>8. HoldersFinite' /\ PermitsBalanced'
  BY <1>7, PermitsStay
<1> QED BY <1>1, <1>2, <1>3, <1>4, <1>5, <1>8 DEF IInv

(* A follower finds a result: the leader it waited for has published one.  *)
LEMMA ReadResultStep ==
    ASSUME IInv, NEW c \in Calls, ReadResult(c)
    PROVE  IInv'
<1>0. /\ flight[c] \in Calls \ {c}
      /\ flight[flight[c]] = flight[c]
      /\ target[flight[c]] = target[c]
      /\ pc[flight[c]] = "done"
      /\ result[flight[c]] = Told(outcome[flight[c]])
      /\ outcome[flight[c]] # "none"
  BY DEF IInv, TypeOK, FlightHeld, OutcomeKnown, ReadResult
<1>01. /\ pc[c] = "woken"
      /\ result[flight[c]] \in Outcomes \ {"none"}
      /\ Return(c, result[flight[c]])
      /\ UNCHANGED <<target, attempt, flight, inFlight, result, cache,
                     requestPermits, unpackPermits, jobs>>
  BY <1>0 DEF IInv, TypeOK, Outcomes, Told, ReadResult
<1>1. TypeOK'
  BY <1>0, <1>01 DEF IInv, TypeOK, Outcomes, Return, Goto
<1>2. EntryHasLeader'
  BY <1>01 DEF IInv, TypeOK, EntryHasLeader, Return, Goto
<1>3. FlightHeld'
  BY <1>01 DEF IInv, TypeOK, FlightHeld, EntryHasLeader, Return, Goto
<1>4. OutcomeKnown'
  BY <1>01 DEF IInv, TypeOK, FlightHeld, OutcomeKnown, Return, Goto
<1>5. CachedWasObtained'
  BY <1>01 DEF IInv, TypeOK, OutcomeKnown, CachedWasObtained, Return, Goto
<1>7. /\ CallsAt(Requesting)' = CallsAt(Requesting)
      /\ CallsAt(Unpacking)' = CallsAt(Unpacking)
      /\ UNCHANGED <<requestPermits, unpackPermits>>
  BY <1>01 DEF IInv, TypeOK, CallsAt, Return, Goto
<1>8. HoldersFinite' /\ PermitsBalanced'
  BY <1>7, PermitsStay
<1> QED BY <1>1, <1>2, <1>3, <1>4, <1>5, <1>8 DEF IInv

(* The three steps of finish and drop.                                     *)
LEMMA PublishStep ==
    ASSUME IInv, NEW c \in Calls, Publish(c)
    PROVE  IInv'
<1>1. TypeOK'
  BY DEF IInv, TypeOK, Outcomes, Publish, Told, Goto
<1>2. EntryHasLeader'
  BY DEF IInv, TypeOK, EntryHasLeader, Publish, Told, Goto
<1>3. FlightHeld'
  BY DEF IInv, TypeOK, FlightHeld, EntryHasLeader, Publish, Told, Goto
<1>4. OutcomeKnown'
  BY DEF IInv, TypeOK, FlightHeld, OutcomeKnown, Publish, Told, Goto
<1>5. CachedWasObtained'
  BY DEF IInv, TypeOK, OutcomeKnown, CachedWasObtained, Publish, Told, Goto
<1>7. /\ CallsAt(Requesting)' = CallsAt(Requesting)
      /\ CallsAt(Unpacking)' = CallsAt(Unpacking)
      /\ UNCHANGED <<requestPermits, unpackPermits>>
  BY DEF IInv, TypeOK, CallsAt, Publish, Told, Goto
<1>8. HoldersFinite' /\ PermitsBalanced'
  BY <1>7, PermitsStay
<1> QED BY <1>1, <1>2, <1>3, <1>4, <1>5, <1>8 DEF IInv


(* a leader that takes its entry out of the map,                           *)
LEMMA DeregisterStep ==
    ASSUME IInv, NEW c \in Calls, Deregister(c)
    PROVE  IInv'
<1>1. TypeOK'
  BY DEF IInv, TypeOK, Outcomes, Deregister, Goto
<1>2. EntryHasLeader'
  BY DEF IInv, TypeOK, EntryHasLeader, Deregister, Goto
<1>3. FlightHeld'
  BY DEF IInv, TypeOK, FlightHeld, EntryHasLeader, Deregister, Goto
<1>4. OutcomeKnown'
  BY DEF IInv, TypeOK, FlightHeld, OutcomeKnown, Deregister, Goto
<1>5. CachedWasObtained'
  BY DEF IInv, TypeOK, OutcomeKnown, CachedWasObtained, Deregister, Goto
<1>7. /\ CallsAt(Requesting)' = CallsAt(Requesting)
      /\ CallsAt(Unpacking)' = CallsAt(Unpacking)
      /\ UNCHANGED <<requestPermits, unpackPermits>>
  BY DEF IInv, TypeOK, CallsAt, Deregister, Goto
<1>8. HoldersFinite' /\ PermitsBalanced'
  BY <1>7, PermitsStay
<1> QED BY <1>1, <1>2, <1>3, <1>4, <1>5, <1>8 DEF IInv


(* a leader that wakes its followers,                                      *)
LEMMA NotifyWaitersStep ==
    ASSUME IInv, NEW c \in Calls, NotifyWaiters(c)
    PROVE  IInv'
<1>1. TypeOK'
  BY DEF IInv, TypeOK, Outcomes, NotifyWaiters
<1>2. EntryHasLeader'
  BY DEF IInv, TypeOK, EntryHasLeader, NotifyWaiters
<1>3. FlightHeld'
  BY DEF IInv, TypeOK, FlightHeld, EntryHasLeader, NotifyWaiters
<1>4. OutcomeKnown'
  BY DEF IInv, TypeOK, FlightHeld, OutcomeKnown, NotifyWaiters
<1>5. CachedWasObtained'
  BY DEF IInv, TypeOK, OutcomeKnown, CachedWasObtained, NotifyWaiters
<1>7. /\ CallsAt(Requesting)' = CallsAt(Requesting)
      /\ CallsAt(Unpacking)' = CallsAt(Unpacking)
      /\ UNCHANGED <<requestPermits, unpackPermits>>
  BY DEF IInv, TypeOK, CallsAt, NotifyWaiters
<1>8. HoldersFinite' /\ PermitsBalanced'
  BY <1>7, PermitsStay
<1> QED BY <1>1, <1>2, <1>3, <1>4, <1>5, <1>8 DEF IInv

(* Steps of the blocking pool and of clear_cache.                          *)
LEMMA JobEndsStep ==
    ASSUME IInv, NEW c \in Calls, JobEnds(c)
    PROVE  IInv'
<1>1. TypeOK'
  BY DEF IInv, TypeOK, Outcomes, JobEnds
<1>2. EntryHasLeader'
  BY DEF IInv, TypeOK, EntryHasLeader, JobEnds
<1>3. FlightHeld'
  BY DEF IInv, TypeOK, FlightHeld, EntryHasLeader, JobEnds
<1>4. OutcomeKnown'
  BY DEF IInv, TypeOK, FlightHeld, OutcomeKnown, JobEnds
<1>5. CachedWasObtained'
  BY DEF IInv, TypeOK, OutcomeKnown, CachedWasObtained, JobEnds
<1>7. /\ CallsAt(Requesting)' = CallsAt(Requesting)
      /\ CallsAt(Unpacking)' = CallsAt(Unpacking)
      /\ UNCHANGED <<requestPermits, unpackPermits>>
  BY DEF IInv, TypeOK, CallsAt, JobEnds
<1>8. HoldersFinite' /\ PermitsBalanced'
  BY <1>7, PermitsStay
<1> QED BY <1>1, <1>2, <1>3, <1>4, <1>5, <1>8 DEF IInv


(* clear_cache,                                                            *)
LEMMA ClearCacheStep ==
    ASSUME IInv, ClearCache
    PROVE  IInv'
<1>1. TypeOK'
  BY DEF IInv, TypeOK, Outcomes, ClearCache
<1>2. EntryHasLeader'
  BY DEF IInv, TypeOK, EntryHasLeader, ClearCache
<1>3. FlightHeld'
  BY DEF IInv, TypeOK, FlightHeld, EntryHasLeader, ClearCache
<1>4. OutcomeKnown'
  BY DEF IInv, TypeOK, FlightHeld, OutcomeKnown, ClearCache
<1>5. CachedWasObtained'
  BY DEF CachedWasObtained, Cached, ClearCache
<1>7. /\ CallsAt(Requesting)' = CallsAt(Requesting)
      /\ CallsAt(Unpacking)' = CallsAt(Unpacking)
      /\ UNCHANGED <<requestPermits, unpackPermits>>
  BY DEF IInv, TypeOK, CallsAt, ClearCache
<1>8. HoldersFinite' /\ PermitsBalanced'
  BY <1>7, PermitsStay
<1> QED BY <1>1, <1>2, <1>3, <1>4, <1>5, <1>8 DEF IInv

(* Steps that take a permit.                                               *)
LEMMA AcquireRequestStep ==
    ASSUME IInv, NEW c \in Calls, AcquireRequest(c)
    PROVE  IInv'
<1>1. /\ pc' = [pc EXCEPT ![c] = "request"]
      /\ requestPermits' \in Nat
      /\ unpackPermits' \in Nat
      /\ requestPermits' = requestPermits + (IF pc[c] \in Requesting THEN 1 ELSE 0)
                     - (IF "request" \in Requesting THEN 1 ELSE 0)
      /\ unpackPermits' = unpackPermits + (IF pc[c] \in Unpacking THEN 1 ELSE 0)
                     - (IF "request" \in Unpacking THEN 1 ELSE 0)
  BY DEF IInv, TypeOK, AcquireRequest, Goto
<1>2. /\ requestPermits' \in 0..MaxInFlight
      /\ unpackPermits' \in 0..MaxDecompress
      /\ HoldersFinite'
      /\ PermitsBalanced'
  BY <1>1, PermitsMove DEF IInv, TypeOK
<1>3. TypeOK'
  BY <1>2 DEF IInv, TypeOK, Outcomes, AcquireRequest, Goto
<1>4. EntryHasLeader'
  BY DEF IInv, TypeOK, EntryHasLeader, AcquireRequest, Goto
<1>5. FlightHeld'
  BY DEF IInv, TypeOK, FlightHeld, AcquireRequest, Goto
<1>6. OutcomeKnown'
  BY DEF IInv, TypeOK, FlightHeld, OutcomeKnown, AcquireRequest, Goto
<1>7. CachedWasObtained'
  BY DEF IInv, TypeOK, OutcomeKnown, CachedWasObtained, AcquireRequest, Goto
<1> QED BY <1>2, <1>3, <1>4, <1>5, <1>6, <1>7 DEF IInv


(* a leader that hands its bytes to the blocking pool,                     *)
LEMMA StartUnpackStep ==
    ASSUME IInv, NEW c \in Calls, StartUnpack(c)
    PROVE  IInv'
<1>1. /\ pc' = [pc EXCEPT ![c] = "decompress"]
      /\ requestPermits' \in Nat
      /\ unpackPermits' \in Nat
      /\ requestPermits' = requestPermits + (IF pc[c] \in Requesting THEN 1 ELSE 0)
                     - (IF "decompress" \in Requesting THEN 1 ELSE 0)
      /\ unpackPermits' = unpackPermits + (IF pc[c] \in Unpacking THEN 1 ELSE 0)
                     - (IF "decompress" \in Unpacking THEN 1 ELSE 0)
  BY DEF IInv, TypeOK, StartUnpack, Goto
<1>2. /\ requestPermits' \in 0..MaxInFlight
      /\ unpackPermits' \in 0..MaxDecompress
      /\ HoldersFinite'
      /\ PermitsBalanced'
  BY <1>1, PermitsMove DEF IInv, TypeOK
<1>3. TypeOK'
  BY <1>2 DEF IInv, TypeOK, Outcomes, StartUnpack, Goto
<1>4. EntryHasLeader'
  BY DEF IInv, TypeOK, EntryHasLeader, StartUnpack, Goto
<1>5. FlightHeld'
  BY DEF IInv, TypeOK, FlightHeld, StartUnpack, Goto
<1>6. OutcomeKnown'
  BY DEF IInv, TypeOK, FlightHeld, OutcomeKnown, StartUnpack, Goto
<1>7. CachedWasObtained'
  BY DEF IInv, TypeOK, OutcomeKnown, CachedWasObtained, StartUnpack, Goto
<1> QED BY <1>2, <1>3, <1>4, <1>5, <1>6, <1>7 DEF IInv

(* A leader whose download is over gives back the permits it holds and     *)
(* keeps its entry until it has published.                                 *)
LEMMA ConcludeStep ==
    ASSUME IInv, NEW c \in Calls, NEW o \in Outcomes \ {"none", "cancelled"},
           pc[c] \in Downloading, Conclude(c, o),
           UNCHANGED <<target, flight, inFlight, result, jobs>>,
           cache' \in Seq(Urls),
           \A u \in Urls : Cached(cache', u) =>
               Cached(cache, u) \/ (u = target[c] /\ o = "data")
    PROVE  IInv'
<1>1. /\ pc' = [pc EXCEPT ![c] = "publish"]
      /\ requestPermits' \in Nat
      /\ unpackPermits' \in Nat
      /\ requestPermits' = requestPermits + (IF pc[c] \in Requesting THEN 1 ELSE 0)
                     - (IF "publish" \in Requesting THEN 1 ELSE 0)
      /\ unpackPermits' = unpackPermits + (IF pc[c] \in Unpacking THEN 1 ELSE 0)
                     - (IF "publish" \in Unpacking THEN 1 ELSE 0)
  BY DEF IInv, TypeOK, Conclude, ReleasePermits, Goto
<1>2. /\ requestPermits' \in 0..MaxInFlight
      /\ unpackPermits' \in 0..MaxDecompress
      /\ HoldersFinite'
      /\ PermitsBalanced'
  BY <1>1, PermitsMove DEF IInv, TypeOK
<1>3. TypeOK'
  BY <1>2 DEF IInv, TypeOK, Outcomes, Conclude, Goto
<1>4. EntryHasLeader'
  BY DEF IInv, TypeOK, EntryHasLeader, Conclude, Goto
<1>5. FlightHeld'
  BY DEF IInv, TypeOK, FlightHeld, Conclude, Goto
<1>6. OutcomeKnown'
  BY DEF IInv, TypeOK, FlightHeld, OutcomeKnown, Conclude, Goto
<1>7. CachedWasObtained'
  BY DEF IInv, TypeOK, OutcomeKnown, CachedWasObtained, Conclude, Goto
<1> QED BY <1>2, <1>3, <1>4, <1>5, <1>6, <1>7 DEF IInv

(* an answer of the server,                                                *)
LEMMA RespondStep ==
    ASSUME IInv, NEW c \in Calls, NEW r \in Responses, Respond(c, r)
    PROVE  IInv'
<1>1. CASE /\ \E o \in {"notfound", "error"} : Conclude(c, o)
           /\ UNCHANGED <<target, flight, inFlight, result, cache, jobs>>
  <2>1. PICK o \in {"notfound", "error"} : Conclude(c, o)
    BY <1>1
  <2>2. pc[c] \in Downloading
    BY DEF Respond
  <2>3. o \in Outcomes \ {"none", "cancelled"}
    BY DEF Outcomes
  <2>4. cache' = cache /\ cache \in Seq(Urls)
    BY <1>1 DEF IInv, TypeOK
  <2> QED BY <1>1, <2>1, <2>2, <2>3, <2>4, ConcludeStep
<1>2. CASE /\ pc[c] = "request"
           /\ \E l \in {"unpack", "backoff"} : Goto(c, l)
           /\ attempt' \in [Calls -> 0..MaxRetries]
           /\ UNCHANGED <<target, outcome, flight, inFlight, result, cache,
                          requestPermits, unpackPermits, jobs>>
  <2>1. PICK l \in {"unpack", "backoff"} : pc' = [pc EXCEPT ![c] = l]
    BY <1>2 DEF Goto
  <2>2. TypeOK'
    BY <1>2, <2>1 DEF IInv, TypeOK
  <2>3. EntryHasLeader'
    BY <1>2, <2>1 DEF IInv, TypeOK, EntryHasLeader
  <2>4. FlightHeld'
    BY <1>2, <2>1 DEF IInv, TypeOK, FlightHeld
  <2>5. OutcomeKnown'
    BY <1>2, <2>1 DEF IInv, TypeOK, OutcomeKnown
  <2>6. CachedWasObtained'
    BY <1>2 DEF IInv, CachedWasObtained
  <2>7. HoldersFinite' /\ PermitsBalanced'
    <3>1. /\ CallsAt(Requesting)' = CallsAt(Requesting)
          /\ CallsAt(Unpacking)' = CallsAt(Unpacking)
      BY <1>2, <2>1 DEF IInv, TypeOK, CallsAt
    <3> QED BY <1>2, <3>1, PermitsStay
  <2> QED BY <2>2, <2>3, <2>4, <2>5, <2>6, <2>7 DEF IInv
<1>3. CASE r = "body"
  <2>1. attempt' \in [Calls -> 0..MaxRetries]
    BY <1>3 DEF IInv, TypeOK, Respond
  <2> QED BY <1>2, <1>3, <2>1 DEF Respond
<1>4. CASE attempt' = [attempt EXCEPT ![c] = @ + 1] /\ attempt[c] < MaxRetries /\ Goto(c, "backoff")
           /\ UNCHANGED <<outcome, requestPermits, unpackPermits>>
  <2>1. attempt[c] + 1 \in 0..MaxRetries
    BY <1>4 DEF IInv, TypeOK
  <2>2. attempt' \in [Calls -> 0..MaxRetries]
    BY <1>4, <2>1 DEF IInv, TypeOK
  <2> QED BY <1>2, <1>4, <2>2 DEF Respond
<1> QED BY <1>1, <1>3, <1>4 DEF Respond

(* the end of a decompression,                                             *)
LEMMA UnpackedStep ==
    ASSUME IInv, NEW c \in Calls, NEW o \in UnpackOutcomes, Unpacked(c, o)
    PROVE  IInv'
<1>1. /\ cache \in Seq(Urls)
      /\ target[c] \in Urls
      /\ CacheSize \in Nat \ {0}
  BY DEF IInv, TypeOK
<1>2. /\ cache' \in Seq(Urls)
      /\ \A u \in Urls : Cached(cache', u) =>
             Cached(cache, u) \/ (u = target[c] /\ o = "data")
  <2>1. CASE o = "data"
    <3>1. cache' = Insert(cache, target[c], CacheSize)
      BY <2>1 DEF Unpacked
    <3> QED BY <1>1, <2>1, <3>1, InsertedKey
  <2>2. CASE o # "data"
    <3>1. cache' = cache
      BY <2>2 DEF Unpacked
    <3> QED BY <1>1, <3>1
  <2> QED BY <2>1, <2>2
<1>3. /\ pc[c] \in Downloading
      /\ Conclude(c, o)
      /\ UNCHANGED <<target, flight, inFlight, result, jobs>>
  BY DEF Unpacked
<1>4. o \in Outcomes \ {"none", "cancelled"}
  BY DEF Outcomes, UnpackOutcomes
<1> QED BY <1>2, <1>3, <1>4, ConcludeStep

(* and a future that is dropped.                                           *)
LEMMA DropFutureStep ==
    ASSUME IInv, NEW c \in Calls, DropFuture(c)
    PROVE  IInv'
<1>1. CASE pc[c] \in {"waiting", "woken"}
  <2>1. /\ pc' = [pc EXCEPT ![c] = "done"]
        /\ outcome' = [outcome EXCEPT ![c] = "dropped"]
        /\ UNCHANGED <<target, attempt, flight, inFlight, result, cache,
                       requestPermits, unpackPermits, jobs>>
    BY <1>1 DEF DropFuture, Return, Goto
  <2>2. TypeOK'
    BY <2>1 DEF IInv, TypeOK, Outcomes
  <2>3. EntryHasLeader'
    BY <1>1, <2>1 DEF IInv, TypeOK, EntryHasLeader
  <2>4. FlightHeld'
    BY <1>1, <2>1 DEF IInv, TypeOK, FlightHeld
  <2>5. OutcomeKnown'
    BY <1>1, <2>1 DEF IInv, TypeOK, FlightHeld, OutcomeKnown
  <2>6. CachedWasObtained'
    BY <1>1, <2>1 DEF IInv, TypeOK, OutcomeKnown, CachedWasObtained
  <2>7. HoldersFinite' /\ PermitsBalanced'
    <3>1. /\ CallsAt(Requesting)' = CallsAt(Requesting)
          /\ CallsAt(Unpacking)' = CallsAt(Unpacking)
      BY <1>1, <2>1 DEF IInv, TypeOK, CallsAt
    <3> QED BY <2>1, <3>1, PermitsStay
  <2> QED BY <2>2, <2>3, <2>4, <2>5, <2>6, <2>7 DEF IInv
<1>2. CASE pc[c] \in Downloading
  <2>1. /\ Conclude(c, "dropped")
        /\ UNCHANGED <<target, flight, inFlight, result, cache, jobs>>
    BY <1>2 DEF DropFuture
  <2>2. cache \in Seq(Urls)
    BY DEF IInv, TypeOK
  <2>3. "dropped" \in Outcomes \ {"none", "cancelled"}
    BY DEF Outcomes
  <2> QED BY <1>2, <2>1, <2>2, <2>3, ConcludeStep
<1> QED BY <1>1, <1>2 DEF DropFuture

-----------------------------------------------------------------------------
(* IInv is inductive.                                                      *)
THEOREM InductiveInvariance == Spec => []IInv
<1>1. ASSUME IInv, [Next]_vars PROVE IInv'
  <2> USE <1>1
  <2>1. ASSUME NEW c \in Calls, Advance(c) PROVE IInv'
    <3>1. CASE Hit(c)
      BY <3>1, HitStep
    <3>2. CASE Miss(c)
      BY <3>2, MissStep
    <3>3. CASE Lead(c)
      BY <3>3, LeadStep
    <3>4. CASE Join(c)
      BY <3>4, JoinStep
    <3>5. CASE Listen(c)
      BY <3>5, ListenStep
    <3>6. CASE ReadResult(c)
      BY <3>6, ReadResultStep
    <3>7. CASE AcquireRequest(c)
      BY <3>7, AcquireRequestStep
    <3>8. CASE Retry(c)
      BY <3>8, RetryStep
    <3>9. CASE StartUnpack(c)
      BY <3>9, StartUnpackStep
    <3>10. CASE Publish(c)
      BY <3>10, PublishStep
    <3>11. CASE Deregister(c)
      BY <3>11, DeregisterStep
    <3>12. CASE NotifyWaiters(c)
      BY <3>12, NotifyWaitersStep
    <3>13. ASSUME NEW r \in Responses, Respond(c, r) PROVE IInv'
      BY <3>13, RespondStep
    <3>14. ASSUME NEW o \in UnpackOutcomes, Unpacked(c, o) PROVE IInv'
      BY <3>14, UnpackedStep
    <3> QED BY <2>1, <3>1, <3>2, <3>3, <3>4, <3>5, <3>6, <3>7, <3>8, <3>9, <3>10, <3>11, <3>12, <3>13, <3>14 DEF Advance
  <2>2. ASSUME NEW c \in Calls, Invoke(c) PROVE IInv'
    BY <2>2, InvokeStep
  <2>3. ASSUME NEW c \in Calls, JobEnds(c) PROVE IInv'
    BY <2>3, JobEndsStep
  <2>4. ASSUME NEW c \in Calls, DropFuture(c) PROVE IInv'
    BY <2>4, DropFutureStep
  <2>5. CASE ClearCache
    BY <2>5, ClearCacheStep
  <2>6. CASE UNCHANGED vars
    <3>1. /\ TypeOK' /\ EntryHasLeader' /\ FlightHeld' /\ OutcomeKnown'
          /\ CachedWasObtained'
      BY <2>6 DEF vars, IInv, TypeOK, EntryHasLeader, FlightHeld, OutcomeKnown,
                  CachedWasObtained
    <3>2. HoldersFinite' /\ PermitsBalanced'
      BY <2>6, PermitsStay DEF vars, CallsAt
    <3> QED BY <3>1, <3>2 DEF IInv
  <2> QED BY <2>1, <2>2, <2>3, <2>4, <2>5, <2>6 DEF Next
<1> QED BY InitInv, <1>1, PTL DEF Spec

(* Every reachable state is well typed; in particular, no semaphore ever   *)
(* holds more permits than it was created with.                            *)
THEOREM TypeCorrect == Spec => []TypeOK
BY InductiveInvariance, PTL DEF IInv

(* Two calls never download one url at the same time: both would own the   *)
(* one entry of the in-flight map.                                         *)
THEOREM SingleFlightHolds == Spec => []SingleFlight
<1>1. IInv => SingleFlight
  BY DEF IInv, TypeOK, EntryHasLeader, SingleFlight
<1> QED BY <1>1, InductiveInvariance, PTL

(* No cancellation, error or retry leaves an entry without a leader.       *)
THEOREM EntryHasLeaderHolds == Spec => []EntryHasLeader
BY InductiveInvariance, PTL DEF IInv

(* A woken follower always finds the result of its leader.                 *)
THEOREM WokenHasResultHolds == Spec => []WokenHasResult
<1>1. IInv => WokenHasResult
  BY DEF IInv, TypeOK, FlightHeld, OutcomeKnown, WokenHasResult, Told
<1> QED BY <1>1, InductiveInvariance, PTL

(* No permit is lost and none is given back twice.                         *)
THEOREM PermitsBalancedHolds == Spec => []PermitsBalanced
BY InductiveInvariance, PTL DEF IInv

-----------------------------------------------------------------------------
(* The refinement mapping of Callers, named.                               *)
Fetched  == {c \in Calls : flight[c] = c}
Obtained == {target[c] : c \in {d \in Calls : outcome[d] = "data"}}
Answered == [c \in Calls |-> IF pc[c] = "done" THEN outcome[c] ELSE "none"]

(* A step that neither answers a call, nor obtains data, nor changes who   *)
(* fetches, is a stuttering step for the callers.                          *)
LEMMA Unseen ==
    ASSUME IInv,
           UNCHANGED <<target, inFlight>>,
           \A c \in Calls : (flight'[c] = c) <=> (flight[c] = c),
           UNCHANGED Obtained,
           \A c \in Calls : (pc'[c] = "done") <=> (pc[c] = "done"),
           \A c \in Calls : pc[c] = "done" => outcome'[c] = outcome[c]
    PROVE  UNCHANGED Callers!vars
<1>1. UNCHANGED Fetched
  BY DEF Fetched
<1>2. UNCHANGED Answered
  BY DEF Answered
<1> QED BY <1>1, <1>2 DEF Callers!vars, Fetched, Obtained, Answered

(* The data of a url that is already obtained adds nothing.                *)
LEMMA ObtainedStays ==
    ASSUME IInv, NEW c \in Calls, NEW o, outcome' = [outcome EXCEPT ![c] = o],
           outcome[c] # "data", UNCHANGED target,
           o = "data" => target[c] \in Obtained
    PROVE  UNCHANGED Obtained
BY DEF IInv, TypeOK, Obtained

(* The initial states map to initial states.                               *)
LEMMA InitRefines == Init => Callers!Init
BY DEF Init, Callers!Init

(* Steps inside a call that its caller cannot see.                         *)
LEMMA UnseenSteps ==
    ASSUME IInv, NEW c \in Calls,
           \/ Invoke(c) \/ Miss(c) \/ Join(c) \/ Listen(c) \/ AcquireRequest(c)
           \/ Retry(c) \/ StartUnpack(c) \/ JobEnds(c) \/ Publish(c)
    PROVE  UNCHANGED Callers!vars
<1>1. CASE Invoke(c)
  BY <1>1, Unseen DEF IInv, TypeOK, Obtained, Invoke, Goto
<1>2. CASE Miss(c)
  BY <1>2, Unseen DEF IInv, TypeOK, Obtained, Miss, Goto
<1>3. CASE Listen(c)
  BY <1>3, Unseen DEF IInv, TypeOK, Obtained, Listen, Goto
<1>4. CASE Retry(c)
  BY <1>4, Unseen DEF IInv, TypeOK, Obtained, Retry, Goto
<1>5. CASE AcquireRequest(c)
  BY <1>5, Unseen DEF IInv, TypeOK, Obtained, AcquireRequest, Goto
<1>6. CASE StartUnpack(c)
  BY <1>6, Unseen DEF IInv, TypeOK, Obtained, StartUnpack, Goto
<1>7. CASE JobEnds(c)
  BY <1>7, Unseen DEF IInv, TypeOK, Obtained, JobEnds
<1>8. CASE Publish(c)
  BY <1>8, Unseen DEF IInv, TypeOK, Obtained, Publish, Goto
<1>9. CASE Join(c)
  <2>1. inFlight[target[c]] # c /\ flight[c] = None
    BY <1>9 DEF IInv, TypeOK, EntryHasLeader, FlightHeld, Join
  <2> QED BY <1>9, <2>1, Unseen DEF IInv, TypeOK, Obtained, Join, Goto
<1> QED BY <1>1, <1>2, <1>3, <1>4, <1>5, <1>6, <1>7, <1>8, <1>9

(* A call returns a.                                                       *)
LEMMA AnswerRefines ==
    ASSUME IInv, NEW c \in Calls, NEW a \in Callers!Answers,
           pc[c] # "done", pc'[c] = "done", outcome'[c] = a,
           inFlight[target[c]] # c,
           \A d \in Calls \ {c} : /\ (pc'[d] = "done") <=> (pc[d] = "done")
                                  /\ outcome'[d] = outcome[d],
           UNCHANGED <<target, inFlight, flight, Obtained>>,
           a = "data" => target[c] \in Obtained,
           a \in {"notfound", "error"} =>
               \/ flight[c] = c
               \/ \E d \in Calls : /\ flight[d] = d /\ target[d] = target[c]
                                   /\ pc[d] = "done" /\ outcome[d] = a,
           a = "cancelled" =>
               \E d \in Calls : /\ flight[d] = d /\ target[d] = target[c]
                               /\ pc[d] = "done" /\ outcome[d] = "dropped"
    PROVE  Callers!Answer(c, a)
<1>1. Answered[c] = "none" /\ inFlight[target[c]] # c
  BY DEF Answered
<1>2. Answered' = [Answered EXCEPT ![c] = a]
  BY DEF Answered
<1>3. UNCHANGED <<target, inFlight, Fetched, Obtained>>
  BY DEF Fetched
<1>4. a \in {"notfound", "error"} =>
          c \in Fetched \/ \E d \in Fetched : target[d] = target[c] /\ Answered[d] = a
  BY DEF Fetched, Answered
<1>5. a = "cancelled" =>
          \E d \in Fetched : target[d] = target[c] /\ Answered[d] = "dropped"
  BY DEF Fetched, Answered
<1>6. CASE a = "data"
  BY <1>1, <1>2, <1>3, <1>6 DEF Callers!Answer, Fetched, Obtained, Answered
<1>7. CASE a \in {"notfound", "error"}
  BY <1>1, <1>2, <1>3, <1>4, <1>7
     DEF Callers!Answer, Callers!ToldBy, Fetched, Obtained, Answered
<1>8. CASE a = "cancelled"
  BY <1>1, <1>2, <1>3, <1>5, <1>8
     DEF Callers!Answer, Callers!ToldBy, Fetched, Obtained, Answered
<1>9. CASE a = "dropped"
  BY <1>1, <1>2, <1>3, <1>9 DEF Callers!Answer, Fetched, Obtained, Answered
<1> QED BY <1>6, <1>7, <1>8, <1>9 DEF Callers!Answers

(* A call that is not registered does not own the entry of its url.        *)
LEMMA NotRegistered ==
    ASSUME IInv, NEW c \in Calls, pc[c] \notin Registered
    PROVE  inFlight[target[c]] # c
<1> SUFFICES ASSUME inFlight[target[c]] = c PROVE FALSE
  OBVIOUS
<1>1. target[c] \in Urls /\ inFlight[target[c]] # None
  BY DEF IInv, TypeOK
<1>2. pc[inFlight[target[c]]] \in Registered
  BY <1>1, Zenon DEF IInv, EntryHasLeader
<1> QED BY <1>2

(* A hit is an answer with data.                                           *)
LEMMA HitRefines ==
    ASSUME IInv, NEW c \in Calls, Hit(c)
    PROVE  Callers!Answer(c, "data")
<1>1. target[c] \in Obtained
  BY DEF IInv, TypeOK, CachedWasObtained, Obtained, Hit
<1>2. pc[c] = "lookup" /\ outcome[c] # "data"
  BY DEF IInv, OutcomeKnown, Hit
<1>3. UNCHANGED Obtained
  BY <1>1, <1>2, ObtainedStays DEF Hit, Return
<1>4. inFlight[target[c]] # c
  BY <1>2, NotRegistered
<1>5. /\ pc'[c] = "done" /\ outcome'[c] = "data"
      /\ \A d \in Calls \ {c} : pc'[d] = pc[d] /\ outcome'[d] = outcome[d]
      /\ UNCHANGED <<target, inFlight, flight>>
  BY DEF IInv, TypeOK, Hit, Return, Goto
<1>6. "data" \in Callers!Answers
  BY DEF Callers!Answers
<1> QED BY <1>1, <1>2, <1>3, <1>4, <1>5, <1>6, AnswerRefines

(* A call that becomes leader begins a fetch.                              *)
LEMMA LeadRefines ==
    ASSUME IInv, NEW c \in Calls, Lead(c)
    PROVE  Callers!Begin(c)
<1>1. /\ pc[c] = "enter" /\ inFlight[target[c]] = None
      /\ inFlight' = [inFlight EXCEPT ![target[c]] = c]
      /\ flight' = [flight EXCEPT ![c] = c]
      /\ pc' = [pc EXCEPT ![c] = "acquire"]
      /\ UNCHANGED <<target, outcome>>
  BY DEF Lead, Goto
<1>2. c \notin Fetched /\ Fetched' = Fetched \cup {c}
  BY <1>1 DEF IInv, TypeOK, FlightHeld, Fetched
<1>3. UNCHANGED Obtained
  BY <1>1 DEF Obtained
<1>4. Answered[c] = "none" /\ UNCHANGED Answered
  BY <1>1 DEF IInv, TypeOK, Answered
<1> QED BY <1>1, <1>2, <1>3, <1>4
       DEF Callers!Begin, Fetched, Obtained, Answered

(* A download that ends without data is not seen until it is published.    *)
LEMMA FailureUnseen ==
    ASSUME IInv, NEW c \in Calls, NEW o, o # "data",
           pc[c] \in Downloading, Conclude(c, o),
           UNCHANGED <<target, flight, inFlight>>
    PROVE  UNCHANGED Callers!vars
<1>1. outcome[c] = "none"
  BY DEF IInv, OutcomeKnown
<1>2. UNCHANGED Obtained
  BY <1>1, ObtainedStays DEF Conclude
<1> QED BY <1>2, Unseen DEF IInv, TypeOK, Conclude, Goto

(* An answer of the server is not seen by the callers,                     *)
LEMMA RespondUnseen ==
    ASSUME IInv, NEW c \in Calls, NEW r \in Responses, Respond(c, r)
    PROVE  UNCHANGED Callers!vars
<1>1. CASE \E o \in {"notfound", "error"} : Conclude(c, o)
  <2>1. PICK o \in {"notfound", "error"} : Conclude(c, o)
    BY <1>1
  <2> QED BY <2>1, FailureUnseen DEF Respond
<1>2. CASE /\ UNCHANGED <<target, outcome, flight, inFlight>>
           /\ \E l \in {"unpack", "backoff"} : Goto(c, l)
  <2>1. UNCHANGED Obtained
    BY <1>2 DEF Obtained
  <2> QED BY <1>2, <2>1, Unseen DEF IInv, TypeOK, Respond, Goto
<1> QED BY <1>1, <1>2 DEF Respond, Responses

(* but data that could be decompressed is obtained.                        *)
LEMMA UnpackedRefines ==
    ASSUME IInv, NEW c \in Calls, NEW o \in UnpackOutcomes, Unpacked(c, o)
    PROVE  Callers!Obtain(c) \/ UNCHANGED Callers!vars
<1>1. pc[c] = "decompress" /\ inFlight[target[c]] = c
  BY DEF IInv, EntryHasLeader, Unpacked
<1>2. CASE o = "data"
  <2>1. /\ outcome' = [outcome EXCEPT ![c] = "data"]
        /\ pc' = [pc EXCEPT ![c] = "publish"]
        /\ UNCHANGED <<target, flight, inFlight>>
    BY <1>2 DEF Unpacked, Conclude, Goto
  <2>2. Obtained' = Obtained \cup {target[c]}
    BY <1>1, <2>1 DEF IInv, TypeOK, OutcomeKnown, Obtained
  <2>3. UNCHANGED Fetched
    BY <2>1 DEF Fetched
  <2>4. UNCHANGED Answered
    BY <1>1, <2>1 DEF IInv, TypeOK, Answered
  <2> QED BY <1>1, <2>1, <2>2, <2>3, <2>4
         DEF Callers!Obtain, Fetched, Obtained, Answered
<1>3. CASE o # "data"
  BY <1>1, <1>3, FailureUnseen DEF Unpacked
<1> QED BY <1>2, <1>3

(* An entry taken out of the map is the end of a fetch.                    *)
LEMMA DeregisterRefines ==
    ASSUME IInv, NEW c \in Calls, Deregister(c)
    PROVE  Callers!End(c)
<1>1. pc[c] = "deregister" /\ inFlight[target[c]] = c
  BY DEF IInv, EntryHasLeader, Deregister
<1>2. /\ inFlight' = [inFlight EXCEPT ![target[c]] = None]
      /\ pc' = [pc EXCEPT ![c] = "notify"]
      /\ UNCHANGED <<target, outcome, flight>>
  BY DEF Deregister, Goto
<1>3. UNCHANGED Answered
  BY <1>1, <1>2 DEF IInv, TypeOK, Answered
<1>4. UNCHANGED Fetched /\ UNCHANGED Obtained
  BY <1>2 DEF Fetched, Obtained
<1> QED BY <1>1, <1>2, <1>3, <1>4
       DEF Callers!End, Fetched, Obtained, Answered

(* The leader returns as it wakes its followers.                           *)
LEMMA NotifyWaitersRefines ==
    ASSUME IInv, NEW c \in Calls, NotifyWaiters(c)
    PROVE  \E a \in Callers!Answers : Callers!Answer(c, a)
<1>1. /\ pc[c] = "notify" /\ flight[c] = c
      /\ outcome[c] \in Callers!Answers \ {"cancelled"}
  BY DEF IInv, TypeOK, FlightHeld, OutcomeKnown, Outcomes, NotifyWaiters,
         Callers!Answers
<1>2. PICK a \in Callers!Answers \ {"cancelled"} : a = outcome[c]
  BY <1>1
<1>3. inFlight[target[c]] # c
  BY <1>1, NotRegistered
<1>4. /\ pc'[c] = "done"
      /\ \A d \in Calls \ {c} : (pc'[d] = "done") <=> (pc[d] = "done")
      /\ UNCHANGED <<outcome, target, inFlight, flight>>
  BY DEF NotifyWaiters
<1>5. UNCHANGED Obtained
  BY <1>4 DEF Obtained
<1>6. a = "data" => target[c] \in Obtained
  BY <1>2 DEF Obtained
<1>7. \A d \in Calls \ {c} : /\ (pc'[d] = "done") <=> (pc[d] = "done")
                            /\ outcome'[d] = outcome[d]
  BY <1>4
<1>8. pc[c] # "done" /\ outcome'[c] = a /\ a # "cancelled"
  BY <1>1, <1>2, <1>4
<1>9. Callers!Answer(c, a)
  BY <1>1, <1>2, <1>3, <1>4, <1>5, <1>6, <1>7, <1>8, AnswerRefines
<1> QED BY <1>9

(* A follower answers what its leader has been told.                       *)
LEMMA ReadResultRefines ==
    ASSUME IInv, NEW c \in Calls, ReadResult(c)
    PROVE  \E a \in Callers!Answers : Callers!Answer(c, a)
<1> DEFINE f == flight[c]
<1>1. /\ f \in Calls \ {c} /\ flight[f] = f /\ target[f] = target[c]
      /\ pc[f] = "done" /\ result[f] = Told(outcome[f])
      /\ outcome[f] \in Outcomes \ {"none", "cancelled"}
      /\ pc[c] = "woken" /\ outcome[c] = "none"
  BY DEF IInv, TypeOK, FlightHeld, OutcomeKnown, ReadResult
<1>2. PICK a \in Callers!Answers : a = result[f]
  BY <1>1 DEF Outcomes, Told, Callers!Answers
<1>3. /\ outcome' = [outcome EXCEPT ![c] = a]
      /\ pc' = [pc EXCEPT ![c] = "done"]
      /\ UNCHANGED <<target, inFlight, flight>>
  BY <1>2 DEF ReadResult, Return, Goto, Callers!Answers
<1>4. inFlight[target[c]] # c
  BY <1>1, NotRegistered
<1>5. a = "data" => target[c] \in Obtained
  BY <1>1, <1>2 DEF Told, Obtained
<1>6. UNCHANGED Obtained
  BY <1>1, <1>3, <1>5, ObtainedStays
<1>7. a \in {"notfound", "error"} =>
          \E d \in Calls : /\ flight[d] = d /\ target[d] = target[c]
                          /\ pc[d] = "done" /\ outcome[d] = a
  BY <1>1, <1>2 DEF Told, Outcomes
<1>8. a = "cancelled" =>
          \E d \in Calls : /\ flight[d] = d /\ target[d] = target[c]
                          /\ pc[d] = "done" /\ outcome[d] = "dropped"
  BY <1>1, <1>2 DEF Told, Outcomes
<1>9. pc[c] # "done" /\ pc'[c] = "done" /\ outcome'[c] = a
  BY <1>1, <1>3 DEF IInv, TypeOK
<1>10. \A d \in Calls \ {c} : /\ (pc'[d] = "done") <=> (pc[d] = "done")
                             /\ outcome'[d] = outcome[d]
  BY <1>3 DEF IInv, TypeOK
<1>11. Callers!Answer(c, a)
  BY <1>3, <1>4, <1>5, <1>6, <1>7, <1>8, <1>9, <1>10, AnswerRefines
<1> QED BY <1>11

(* A dropped future answers as such, or is not seen.                       *)
LEMMA DropFutureRefines ==
    ASSUME IInv, NEW c \in Calls, DropFuture(c)
    PROVE  Callers!Answer(c, "dropped") \/ UNCHANGED Callers!vars
<1>1. CASE pc[c] \in {"waiting", "woken"}
  <2>1. /\ pc' = [pc EXCEPT ![c] = "done"]
        /\ outcome' = [outcome EXCEPT ![c] = "dropped"]
        /\ UNCHANGED <<target, flight, inFlight>>
    BY <1>1 DEF DropFuture, Return, Goto
  <2>2. inFlight[target[c]] # c /\ outcome[c] = "none"
    BY <1>1, NotRegistered DEF IInv, OutcomeKnown
  <2>3. UNCHANGED Obtained
    BY <2>1, <2>2, ObtainedStays
  <2>4. "dropped" \in Callers!Answers
    BY DEF Callers!Answers
  <2>5. /\ pc'[c] = "done" /\ outcome'[c] = "dropped"
        /\ \A d \in Calls \ {c} : pc'[d] = pc[d] /\ outcome'[d] = outcome[d]
    BY <2>1 DEF IInv, TypeOK
  <2> QED BY <1>1, <2>1, <2>2, <2>3, <2>4, <2>5, AnswerRefines
<1>2. CASE pc[c] \in Downloading
  BY <1>2, FailureUnseen DEF DropFuture
<1> QED BY <1>1, <1>2 DEF DropFuture

(* fetch_cached keeps the promise of CoalescedFetch to its callers: one    *)
(* fetcher per url, data only once it was obtained, and nothing told to a  *)
(* call but what a fetcher of its url returned.                            *)
THEOREM Refinement == Spec => ImplementsCoalescedFetch
<1>1. ASSUME IInv, [Next]_vars PROVE [Callers!Next]_(Callers!vars)
  <2> USE <1>1
  <2>1. ASSUME NEW c \in Calls, Advance(c)
        PROVE  Callers!Next \/ UNCHANGED Callers!vars
    <3>1. CASE Hit(c)
      BY <3>1, HitRefines DEF Callers!Next, Callers!Answers
    <3>2. CASE Lead(c)
      BY <3>2, LeadRefines DEF Callers!Next
    <3>3. CASE Deregister(c)
      BY <3>3, DeregisterRefines DEF Callers!Next
    <3>4. CASE NotifyWaiters(c)
      BY <3>4, NotifyWaitersRefines DEF Callers!Next
    <3>5. CASE ReadResult(c)
      BY <3>5, ReadResultRefines DEF Callers!Next
    <3>6. ASSUME NEW o \in UnpackOutcomes, Unpacked(c, o)
          PROVE  Callers!Next \/ UNCHANGED Callers!vars
      BY <3>6, UnpackedRefines DEF Callers!Next
    <3>7. ASSUME NEW r \in Responses, Respond(c, r)
          PROVE  UNCHANGED Callers!vars
      BY <3>7, RespondUnseen
    <3>8. ASSUME \/ Miss(c) \/ Join(c) \/ Listen(c) \/ AcquireRequest(c)
                 \/ Retry(c) \/ StartUnpack(c) \/ Publish(c)
          PROVE  UNCHANGED Callers!vars
      BY <3>8, UnseenSteps
    <3> QED BY <2>1, <3>1, <3>2, <3>3, <3>4, <3>5, <3>6, <3>7, <3>8 DEF Advance
  <2>2. ASSUME NEW c \in Calls, Invoke(c) \/ JobEnds(c)
        PROVE  UNCHANGED Callers!vars
    BY <2>2, UnseenSteps
  <2>3. ASSUME NEW c \in Calls, DropFuture(c)
        PROVE  Callers!Next \/ UNCHANGED Callers!vars
    BY <2>3, DropFutureRefines DEF Callers!Next, Callers!Answers
  <2>4. CASE ClearCache
    BY <2>4, Unseen DEF ClearCache, Obtained
  <2>5. CASE UNCHANGED vars
    BY <2>5, Unseen DEF vars, Obtained
  <2> QED BY <2>1, <2>2, <2>3, <2>4, <2>5 DEF Next
<1> QED
  BY InitRefines, InductiveInvariance, <1>1, PTL
     DEF Spec, ImplementsCoalescedFetch, Callers!Spec
=============================================================================
