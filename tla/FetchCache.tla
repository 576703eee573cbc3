----------------------------- MODULE FetchCache -----------------------------
(***************************************************************************)
(* ConfiguredClient::fetch_cached: the cached, coalesced download of one   *)
(* hour of ticks.  Every member of Calls is one invocation of the async    *)
(* function, on any task of the multi-threaded runtime; a label of pc      *)
(* stands before each step that touches shared state, so that two calls    *)
(* interleave wherever the runtime lets them.  A call leads at most one    *)
(* download, hence the leader's name serves as the identity of the         *)
(* Arc<InFlightFetch> it creates.                                          *)
(***************************************************************************)
EXTENDS Integers, FiniteSets, Lru

CONSTANTS Calls,          \* invocations of fetch_cached
          Urls,           \* the hours that are asked for
          None,           \* no call
          CacheSize,      \* ClientConfig::cache_size
          MaxInFlight,    \* ClientConfig::max_in_flight_requests
          MaxDecompress,  \* ClientConfig::max_decompression_jobs
          MaxRetries      \* ClientConfig::max_retries

(* DukascopyClientBuilder::build raises every size to at least one.        *)
ASSUME ClientConfigAssumption ==
    /\ None \notin Calls
    /\ CacheSize \in Nat \ {0}
    /\ MaxInFlight \in Nat \ {0}
    /\ MaxDecompress \in Nat \ {0}
    /\ MaxRetries \in Nat

VARIABLES pc,             \* where each call stands
          target,         \* the url it was invoked with
          outcome,        \* what it is going to return, or returned
          attempt,        \* retries made by a leader
          flight,         \* whose InFlightFetch it holds
          inFlight,       \* in_flight_fetches: url -> InFlightFetch
          result,         \* InFlightFetch::result
          cache,          \* the LRU of downloaded hours
          requestPermits, \* free permits of request_limiter
          unpackPermits,  \* free permits of decompress_limiter
          jobs            \* decompressions on the blocking pool

vars == <<pc, target, outcome, attempt, flight, inFlight, result, cache,
          requestPermits, unpackPermits, jobs>>

-----------------------------------------------------------------------------
(* The awaits of a leader; its permits are held at some of them.           *)
Acquiring   == {"acquire"}
Requesting  == {"request", "backoff", "unpack", "decompress"}
Unpacking   == {"decompress"}
Downloading == Acquiring \cup Requesting

(* A leader's entry is in the map from Lead until Deregister.                  *)
Registered  == Downloading \cup {"publish", "deregister"}
Leading     == Registered \cup {"notify"}

Labels   == Leading \cup {"idle", "lookup", "enter", "joined", "waiting",
                          "woken", "done"}
Outcomes == {"none", "data", "notfound", "error", "dropped", "cancelled"}

(* Mutant of Told: Drop leaves the result empty.                           *)
ToldNothing(o) == IF o = "dropped" THEN "none" ELSE o

(* What followers are told: Drop replaces the missing result by an error.  *)
Told(o) == IF o = "dropped" THEN "cancelled" ELSE o

Init ==
    /\ pc = [c \in Calls |-> "idle"]
    /\ target \in [Calls -> Urls]
    /\ outcome = [c \in Calls |-> "none"]
    /\ attempt = [c \in Calls |-> 0]
    /\ flight = [c \in Calls |-> None]
    /\ inFlight = [u \in Urls |-> None]
    /\ result = [c \in Calls |-> "none"]
    /\ cache = <<>>
    /\ requestPermits = MaxInFlight
    /\ unpackPermits = MaxDecompress
    /\ jobs = {}

-----------------------------------------------------------------------------
Goto(c, label) == pc' = [pc EXCEPT ![c] = label]

Return(c, o) ==
    /\ outcome' = [outcome EXCEPT ![c] = o]
    /\ Goto(c, "done")

(* Mutant of ReleasePermits: permits come back whether held or not.        *)
ReleaseUnheld(c) ==
    /\ requestPermits' = requestPermits + 1
    /\ unpackPermits' = unpackPermits + 1

(* Both permits live until fetch_uncached_and_store returns or is dropped. *)
ReleasePermits(c) ==
    /\ requestPermits' = requestPermits + (IF pc[c] \in Requesting THEN 1 ELSE 0)
    /\ unpackPermits' = unpackPermits + (IF pc[c] \in Unpacking THEN 1 ELSE 0)

(* fetch_uncached_and_store ends with o: its permits and its attempt       *)
(* counter go out of scope.                                                *)
Conclude(c, o) ==
    /\ outcome' = [outcome EXCEPT ![c] = o]
    /\ attempt' = [attempt EXCEPT ![c] = 0]
    /\ ReleasePermits(c)
    /\ Goto(c, "publish")

Invoke(c) ==
    /\ pc[c] = "idle"
    /\ Goto(c, "lookup")
    /\ UNCHANGED <<target, outcome, attempt, flight, inFlight, result, cache,
                   requestPermits, unpackPermits, jobs>>

Hit(c) ==
    /\ pc[c] = "lookup"
    /\ Cached(cache, target[c])
    /\ cache' = Promote(cache, target[c])
    /\ Return(c, "data")
    /\ UNCHANGED <<target, attempt, flight, inFlight, result,
                   requestPermits, unpackPermits, jobs>>

(* The cache lock is released before the in-flight map is locked.          *)
Miss(c) ==
    /\ pc[c] = "lookup"
    /\ ~Cached(cache, target[c])
    /\ Goto(c, "enter")
    /\ UNCHANGED <<target, outcome, attempt, flight, inFlight, result, cache,
                   requestPermits, unpackPermits, jobs>>

(* Mutant of Lead: the map is not consulted before the insert.             *)
LeadBlindly(c) ==
    /\ pc[c] = "enter"
    /\ inFlight' = [inFlight EXCEPT ![target[c]] = c]
    /\ flight' = [flight EXCEPT ![c] = c]
    /\ Goto(c, "acquire")
    /\ UNCHANGED <<target, outcome, attempt, result, cache,
                   requestPermits, unpackPermits, jobs>>

Lead(c) ==
    /\ pc[c] = "enter"
    /\ inFlight[target[c]] = None
    /\ inFlight' = [inFlight EXCEPT ![target[c]] = c]
    /\ flight' = [flight EXCEPT ![c] = c]
    /\ Goto(c, "acquire")
    /\ UNCHANGED <<target, outcome, attempt, result, cache,
                   requestPermits, unpackPermits, jobs>>

Join(c) ==
    /\ pc[c] = "enter"
    /\ inFlight[target[c]] # None
    /\ flight' = [flight EXCEPT ![c] = inFlight[target[c]]]
    /\ Goto(c, "joined")
    /\ UNCHANGED <<target, outcome, attempt, inFlight, result, cache,
                   requestPermits, unpackPermits, jobs>>

(* Notify::notified: only a call that got this far is seen by              *)
(* notify_waiters, which leaves no permit behind.                          *)
Listen(c) ==
    /\ pc[c] = "joined"
    /\ Goto(c, "waiting")
    /\ UNCHANGED <<target, outcome, attempt, flight, inFlight, result, cache,
                   requestPermits, unpackPermits, jobs>>

ReadResult(c) ==
    /\ pc[c] = "woken"
    /\ IF result[flight[c]] = "none"
         THEN Goto(c, "lookup") /\ UNCHANGED outcome
         ELSE Return(c, result[flight[c]])
    /\ UNCHANGED <<target, attempt, flight, inFlight, result, cache,
                   requestPermits, unpackPermits, jobs>>
-----------------------------------------------------------------------------
AcquireRequest(c) ==
    /\ pc[c] = "acquire"
    /\ requestPermits > 0
    /\ requestPermits' = requestPermits - 1
    /\ Goto(c, "request")
    /\ UNCHANGED <<target, outcome, attempt, flight, inFlight, result, cache,
                   unpackPermits, jobs>>

(* send() and bytes(): a body, an empty body, 404, an error worth a retry, *)
(* or any other error.                                                     *)
Respond(c, r) ==
    /\ pc[c] = "request"
    /\ \/ /\ r = "body"
          /\ Goto(c, "unpack")
          /\ UNCHANGED <<outcome, attempt, requestPermits, unpackPermits>>
       \/ /\ r \in {"empty", "missing"}
          /\ Conclude(c, "notfound")
       \/ /\ r = "retryable"
          /\ attempt[c] < MaxRetries
          /\ attempt' = [attempt EXCEPT ![c] = @ + 1]
          /\ Goto(c, "backoff")
          /\ UNCHANGED <<outcome, requestPermits, unpackPermits>>
       \/ /\ r = "fatal" \/ (r = "retryable" /\ attempt[c] >= MaxRetries)
          /\ Conclude(c, "error")
    /\ UNCHANGED <<target, flight, inFlight, result, cache, jobs>>

Responses == {"body", "empty", "missing", "retryable", "fatal"}

(* The sleep before a retry ends; the request permit is still held.        *)
Retry(c) ==
    /\ pc[c] = "backoff"
    /\ Goto(c, "request")
    /\ UNCHANGED <<target, outcome, attempt, flight, inFlight, result, cache,
                   requestPermits, unpackPermits, jobs>>

(* The permit is held by the future that awaits the blocking job, and not  *)
(* by the job.                                                             *)
StartUnpack(c) ==
    /\ pc[c] = "unpack"
    /\ unpackPermits > 0
    /\ unpackPermits' = unpackPermits - 1
    /\ jobs' = jobs \cup {c}
    /\ Goto(c, "decompress")
    /\ UNCHANGED <<target, outcome, attempt, flight, inFlight, result, cache,
                   requestPermits>>

JobEnds(c) ==
    /\ c \in jobs
    /\ jobs' = jobs \ {c}
    /\ UNCHANGED <<pc, target, outcome, attempt, flight, inFlight, result,
                   cache, requestPermits, unpackPermits>>

(* Mutant of Unpacked: whatever came out of the job is stored.             *)
UnpackedStoresAll(c, o) ==
    /\ pc[c] = "decompress"
    /\ c \notin jobs
    /\ cache' = Insert(cache, target[c], CacheSize)
    /\ Conclude(c, o)
    /\ UNCHANGED <<target, flight, inFlight, result, jobs>>

(* The future resumes with what the job produced: decoded ticks, which it  *)
(* stores before it returns, nothing, or a decoding error.                 *)
Unpacked(c, o) ==
    /\ pc[c] = "decompress"
    /\ c \notin jobs
    /\ cache' = IF o = "data" THEN Insert(cache, target[c], CacheSize) ELSE cache
    /\ Conclude(c, o)
    /\ UNCHANGED <<target, flight, inFlight, result, jobs>>

UnpackOutcomes == {"data", "notfound", "error"}
-----------------------------------------------------------------------------
(* finish, or Drop when the future goes away: three steps, each under a    *)
(* lock of its own, in the same order.                                     *)
Publish(c) ==
    /\ pc[c] = "publish"
    /\ result' = [result EXCEPT ![c] = Told(outcome[c])]
    /\ Goto(c, "deregister")
    /\ UNCHANGED <<target, outcome, attempt, flight, inFlight, cache,
                   requestPermits, unpackPermits, jobs>>

Deregister(c) ==
    /\ pc[c] = "deregister"
    /\ inFlight' = [inFlight EXCEPT ![target[c]] = None]
    /\ Goto(c, "notify")
    /\ UNCHANGED <<target, outcome, attempt, flight, result, cache,
                   requestPermits, unpackPermits, jobs>>

(* Mutant of NotifyWaiters: notify_one in place of notify_waiters.         *)
NotifyOne(c) ==
    /\ pc[c] = "notify"
    /\ LET waiters == {d \in Calls : pc[d] = "waiting" /\ flight[d] = c}
       IN  IF waiters = {}
             THEN Goto(c, "done")
             ELSE \E d \in waiters :
                      pc' = [pc EXCEPT ![c] = "done", ![d] = "woken"]
    /\ UNCHANGED <<target, outcome, attempt, flight, inFlight, result, cache,
                   requestPermits, unpackPermits, jobs>>

NotifyWaiters(c) ==
    /\ pc[c] = "notify"
    /\ pc' = [d \in Calls |->
                IF d = c THEN "done"
                ELSE IF pc[d] = "waiting" /\ flight[d] = c THEN "woken"
                ELSE pc[d]]
    /\ UNCHANGED <<target, outcome, attempt, flight, inFlight, result, cache,
                   requestPermits, unpackPermits, jobs>>

(* Mutants of DropFuture: no guard, so that nothing is cleaned up; permits *)
(* that are given back on return only.                                     *)
DropUnguarded(c) ==
    /\ pc[c] \in Downloading \cup {"waiting", "woken"}
    /\ Return(c, "dropped")
    /\ ReleasePermits(c)
    /\ UNCHANGED <<target, attempt, flight, inFlight, result, cache, jobs>>

DropLeaking(c) ==
    /\ pc[c] \in Downloading
    /\ outcome' = [outcome EXCEPT ![c] = "dropped"]
    /\ Goto(c, "publish")
    /\ UNCHANGED <<target, attempt, flight, inFlight, result, cache,
                   requestPermits, unpackPermits, jobs>>

(* The caller drops the future at an await: a follower just unregisters,   *)
(* a leader runs the guard's Drop.  A job already started runs on.         *)
DropFuture(c) ==
    /\ \/ /\ pc[c] \in {"waiting", "woken"}
          /\ Return(c, "dropped")
          /\ UNCHANGED <<attempt, requestPermits, unpackPermits>>
       \/ /\ pc[c] \in Downloading
          /\ Conclude(c, "dropped")
    /\ UNCHANGED <<target, flight, inFlight, result, cache, jobs>>

ClearCache ==
    /\ cache' = <<>>
    /\ UNCHANGED <<pc, target, outcome, attempt, flight, inFlight, result,
                   requestPermits, unpackPermits, jobs>>

-----------------------------------------------------------------------------
(* The steps of a call that the runtime, the server (every request has a   *)
(* timeout) and the blocking pool carry out once they can.                 *)
Advance(c) ==
    \/ Hit(c) \/ Miss(c) \/ Lead(c) \/ Join(c) \/ Listen(c) \/ ReadResult(c)
    \/ AcquireRequest(c) \/ Retry(c) \/ StartUnpack(c)
    \/ \E r \in Responses : Respond(c, r)
    \/ \E o \in UnpackOutcomes : Unpacked(c, o)
    \/ Publish(c) \/ Deregister(c) \/ NotifyWaiters(c)

Next ==
    \/ \E c \in Calls : Invoke(c) \/ Advance(c) \/ JobEnds(c) \/ DropFuture(c)
    \/ ClearCache

Spec == Init /\ [][Next]_vars

Fairness == \A c \in Calls : WF_vars(Advance(c)) /\ WF_vars(JobEnds(c))

FairSpec == Spec /\ Fairness
-----------------------------------------------------------------------------
TypeOK ==
    /\ pc \in [Calls -> Labels]
    /\ target \in [Calls -> Urls]
    /\ outcome \in [Calls -> Outcomes]
    /\ attempt \in [Calls -> 0..MaxRetries]
    /\ flight \in [Calls -> Calls \cup {None}]
    /\ inFlight \in [Urls -> Calls \cup {None}]
    /\ result \in [Calls -> Outcomes]
    /\ cache \in Seq(Urls)
    /\ requestPermits \in 0..MaxInFlight
    /\ unpackPermits \in 0..MaxDecompress
    /\ jobs \in SUBSET Calls

(* fetch_cached, "only one task fetches/decompresses": two downloads of    *)
(* one url never overlap, whoever is cancelled and whenever.               *)
SingleFlight ==
    \A c, d \in Calls :
        pc[c] \in Registered /\ pc[d] \in Registered /\ target[c] = target[d]
            => c = d

(* The map and the leaders agree: an entry never outlives the leader that  *)
(* will remove it, which would block its url for ever, and remove(&key)    *)
(* never takes out the entry of another leader.                            *)
EntryHasLeader ==
    /\ \A u \in Urls : inFlight[u] # None =>
           pc[inFlight[u]] \in Registered /\ target[inFlight[u]] = u
    /\ \A c \in Calls : pc[c] \in Registered => inFlight[target[c]] = c

(* A follower that is woken finds the result of its leader, so that the    *)
(* `continue` after the await is never taken and the url is not fetched    *)
(* again on behalf of the follower; the leader is past its last step.      *)
WokenHasResult ==
    \A c \in Calls : pc[c] = "woken" =>
        /\ result[flight[c]] # "none"
        /\ pc[flight[c]] = "done"
        /\ target[flight[c]] = target[c]

CallsAt(labels) == {c \in Calls : pc[c] \in labels}

(* No path through retries, errors and cancellations loses a permit or     *)
(* gives one back twice.                                                   *)
PermitsBalanced ==
    /\ requestPermits + Cardinality(CallsAt(Requesting)) = MaxInFlight
    /\ unpackPermits + Cardinality(CallsAt(Unpacking)) = MaxDecompress

(* The callers' view: fetch_cached implements CoalescedFetch.              *)
Callers == INSTANCE CoalescedFetch WITH
    wants    <- target,
    fetcher  <- inFlight,
    fetched  <- {c \in Calls : flight[c] = c},
    obtained <- {target[c] : c \in {d \in Calls : outcome[d] = "data"}},
    answer   <- [c \in Calls |-> IF pc[c] = "done" THEN outcome[c] ELSE "none"]

ImplementsCoalescedFetch == Callers!Spec

(* A call that became leader returns, or is dropped: permits come back to  *)
(* it and retries are bounded.                                             *)
LeaderReturns == \A c \in Calls : pc[c] = "acquire" ~> pc[c] = "done"

(* A follower that listens while its leader is at work is woken, however   *)
(* the leader ends.                                                        *)
WaiterReturns ==
    \A c \in Calls :
        (pc[c] = "waiting" /\ pc[flight[c]] \in Leading) ~> pc[c] = "done"
-----------------------------------------------------------------------------
(* CHANGELOG.md, 0.5.1: "Singleflight waiters no longer risk hanging when  *)
(* the leader task is cancelled."  Every follower returns.                 *)
FollowersReturn == \A c \in Calls : pc[c] = "joined" ~> pc[c] = "done"

(* ClientConfig: "Maximum number of concurrent LZMA decompression jobs".   *)
DecompressionCap == Cardinality(jobs) <= MaxDecompress
=============================================================================
