# A formal model of dukascopy-fx

`dukascopy-fx` is a Rust library that downloads hourly tick files from the
Dukascopy data feed and answers questions about exchange rates from them, and a
command line tool, `fx_fetcher`, that keeps files of sampled rates up to date.
This directory holds TLA+ modules translated from its source, TLC
configurations that check them on small instances, and proofs of theorems about
them for TLAPS. Paths below are relative to the repository's root.

1. Inventory
2. Modules and the code they model
3. Runs
4. Fairness, deadlock, bounds
5. Theorems and proofs
6. Disagreements between the code and its documents
7. Abstractions
8. Not modelled
9. Plan

## 1. Inventory

| Component | Code | State | Operations | What is hard | Modelled |
|---|---|---|---|---|---|
| Cached, coalesced hour download | `src/core/client.rs` 491-563, 1058-1231 | LRU of downloaded hours, map of in-flight downloads, a `Notify` and a result per download, two semaphores | `fetch_cached`, `fetch_uncached_and_store`, the leader's guard, `clear_cache` | tasks of a multi-threaded runtime interleave at every lock and await; futures are dropped at any await; retries; a blocking job survives the future that spawned it | yes |
| Rate lookup | `src/core/client.rs` 605-674, 1348-1390 | none but the caches | `get_exchange_rate`: backward search over hourly files | truncation to seconds, hour boundaries, bound of the search, closed market | yes |
| Range and history query | `src/core/client.rs` 868-999 | hour cache, fallback cache, rows so far | `get_exchange_rates_range` | state carried from one sample to the next and used for another hour | yes |
| Parsed-tick cache | `src/core/client.rs` 1016-1056 | LRU of parsed hours | `get_or_parse_ticks` | agreement with the cache of downloads after `clear_cache` | partly |
| Symbol resolution and conversion | `src/models.rs`, `src/core/client.rs` 676-867, 1392-1475 | the client's configuration | reading a request; explicit, direct, inverse and bridged routes | several readers of one text that must agree; which of several routes is taken when some are missing and some fail; aliases resolved more than once | yes |
| Instrument catalog and aliases | `src/core/catalog.rs`, `src/core/client.rs` 368-432, 839-866 | loaded catalog, table of aliases | `load`, `validate`, `find`, `select_active`, the builder's calls, chains of aliases | chains and cycles; two sources of aliases; spellings | yes |
| Universe sync | `src/bin/fx_fetcher.rs` 343-839, 935-961 | catalog file | `run_sync_universe` | pages fetched a few at a time, some failing; a merge with what the user edits; a file written in place | yes |
| Market calendar | `src/market.rs` | none | `is_market_open`, `get_market_status`, `last_available_tick_time`, `next_market_open` | daylight saving time, the weekends on which it changes, ends of years | yes |
| Incremental and batch downloads | `src/api/ticker.rs` 348-444, 505-757 | checkpoints of a `CheckpointStore` | `fetch_incremental`, `download*` | bounded concurrency; first error drops all; checkpoints moved by jobs whose rows are dropped; calls that overlap on a store; a fetch that misses its wakeup | yes |
| Checkpoint store | `src/storage/checkpoint.rs` | map in memory, JSON file | `open`, `get`, `set_many`, `persist` | crash between the steps of a replacement, failed writes and renames | yes |
| Data sinks | `src/storage/sink.rs` | buffered rows, CSV file, parquet parts, a file of an earlier release | `open` with its migration, `write_batch`, `flush`, drop | buffers lost in a crash, automatic flush, numbering of parts across restarts, a migration that dies half way | yes |
| Fetcher runs | `src/bin/fx_fetcher.rs` 840-1410 | one run's jobs and results; checkpoints; output | `run_backfill`, `run_update` | symbols fail one by one, workers panic, saving and flushing are two steps, runs follow one another after failures | yes |
| Parser, instrument table, export, CLI, types | the other files | none | pure functions | formats and wording | no, see section 8 |

How they interact. A text becomes a request, and a request a pair of codes, by
way of the aliases of the client and its catalog. A `Ticker` asks its
`ConfiguredClient` for a rate or a range; the client serves each sample from an
hour's ticks, which it gets through `fetch_cached` and `get_or_parse_ticks`; many
tasks share one client. The calendar decides from when a lookup starts, which
samples of a range are passed over, and where an update ends. The batch
functions of `ticker.rs` run one query per ticker and move the checkpoints of a
shared store. `fx_fetcher` selects instruments from the catalog file, which
`sync-universe` and the user write, runs one query per symbol on spawned workers,
hands the rows to a sink, saves all checkpoints at once and flushes the sink.

The hazards of this code, line by line, are in `PROJECT.json`, with the
properties that look for each.

## 2. Modules and the code they model

```
 Lru <--- FetchCache -implements-> CoalescedFetch
             ^     ^
             |  FetchCacheProofs
         MCFetchCache

 HourFiles <- RateLookup <- RangeQuery <- RangeQueryProofs
      ^                          ^
      |                     MCRangeQuery
 TickHistory <- CheckpointFile <- FetcherRun <- MCFetcherRun
      ^               DataSink <-     ^
      |                         FetcherRunProofs
 BatchDownload <- MCBatchDownload
      ^
 BatchDownloadProofs

 MarketCalendar <- MarketCalendarProofs
       ^
 MCMarketCalendar

 RequestText, CodeAliases <- PairConversion <- PairConversionProofs
                                   ^
                              MCPairConversion

 MCSyncUniverse -> SyncUniverse <- SyncUniverseProofs

```
An arrow points to the module that is extended. `HourFilesProofs` extends `HourFiles` with
lemmas that `RangeQueryProofs`, `FetcherRunProofs` and `BatchDownloadProofs` use.

**`Lru`** is the `LruCache` of the `lru` crate as the client uses it: `get`, which
promotes, and `put`, which inserts in front and evicts the last key. A sequence
of keys stands for it, most recent first.

**`FetchCache`** is `fetch_cached` with everything it calls. Each member of `Calls`
is one invocation, and `pc[c]` is the point of the code it has reached: `lookup`
before the cache's lock, `enter` before the in-flight map's, `joined` between leaving that
lock and `notified()`, `waiting` at the await, `woken` after it; `acquire`,
`request`, `backoff`, `unpack`, `decompress` are the awaits of a leader; `publish`,
`deregister` and `notify` the three steps of `InFlightLeaderGuard::finish`. Since a
call leads at most one download, the call that created an `InFlightFetch`
identifies it: `inFlight[u]`, `flight[c]` and `result[c]` are the map, the `Arc` a
call holds, and the result in it. `DropFuture` is the drop of the future at any
await: the permits it holds return, and a leader's guard goes on with `publish`,
with the error that `Drop` makes up. A decompression job stays in `jobs` until the
blocking pool has done it, whether or not somebody waits for it. `ClearCache` may
happen at any time.

**`CoalescedFetch`** is what callers may rely on, with neither locks nor permits:
one fetcher per url at a time, data only if some fetcher obtained them, followers
told only what their fetcher obtained or an error. `FetchCache` implements it
under the mapping given there.

**`HourFiles`** has the arithmetic of hours, seconds and closed hours, with time in units of
which several make a second, and what the client reads from the files as functions
of the times of the ticks: `Finds` for one lookup and `History` for one range. A
sample of a range yields the last tick of its own hour at or before it; failing
that it repeats the row before, which adds none, and only samples before any row
look back to earlier hours. So `History` leaves out a tick that no sample's own
hour shows, as the code does (section 6, `range_carry_over`). `Covered` is what such
a history can be relied on for: no interval without a sample, and of each sample
the tick that its own hour has for it.

**`RateLookup`** is `get_exchange_rate`. A file is the set of its ticks' offsets in
the hour. `StepBack`, `GiveUp`, `Answer` and
`FetchFails` are the arms of the loop; the two places that count an attempt have
one action, their conditions a disjunction (`MayStepBack`).

**`RangeQuery`** is `get_exchange_rates_range`, with `RateLookup` as the nested call
`LookBack` makes (`Ask`) and `LookedBack` takes the answer of. A sample is served in
the order the code tries: ticks of the hour, the row before, the remembered
fallback, and then the lookup. `RowsAreHistory` ties this module to those that download: a range
that ends well has the rows of `History`, neither more nor fewer.

**`MarketCalendar`** is `market.rs`: the code's functions of a year and a time, a day being its
number in the year and a time of day an hour and a second in it. The state
machine around them is a caller who asks for the market's status every second, year
after year. `Trading` is independent of the code's table of UTC hours: it reckons the
time in New York, with clocks that change at 2:00 local time, and has the week
of trading from Sunday to Friday at 17:00.

**`RequestText`** is how `models.rs` reads a text in each of its modes, how
`CurrencyPair::from_str` does, and how a request is displayed. **`CodeAliases`** is the two
resolvers of alias chains, of client and catalog, with the operations that fill their tables;
a chain is a function on numbers (`Trail`) that is followed until it ends or comes
back. **`PairConversion`** composes the two into `get_exchange_rate_for_request` and
`get_exchange_rate_in_quote_with_path`, one lookup of the feed at a time: `LookUp` is
a leg of a route, direct or inverse, `NextRoute` the passage to the next bridge, and
`Invert` and `Synthetic` make the quotes. What the feed says of a pair is chosen
when it is first asked, and kept.

**`SyncUniverse`** is `fx_fetcher sync-universe` around the catalog file: `StartSync` opens the file,
`SitemapRead` lists instruments and pages, `PageEnds` is one page arriving or failing with
the next one asked for, `MergeDiscovered` the merge and the validation, `BeginWrite` and
`EndWrite` the write in place with a `WriteFails` or a `Crash` in it. `Edit` is the user's
editor, and `Selections` what the other commands would work on if they opened the
file at that moment.

**`TickHistory`** adds to `HourFiles` what the next modules share: where an incremental range
starts, and the bound on time. They fetch by `History`, with its closed hours, its cut to
seconds and its carried-over rows.

**`CheckpointFile`** is `FileCheckpointStore`. `SetMany` updates memory and starts
`persist`; `CreateTemp`, `WriteTemp`, `Rename`, and `Refused`, `Remove`, `Rename` on the
path where a rename fails, are its steps, and the process may die before each.

**`DataSink`** has the two sinks with state. The rows of a CSV sink move from the
writer's buffer to the file whenever the buffer is full (`Spill`), those of a
parquet sink in parts: `CreatePart` creates a part under its final name,
`ClosePart` completes it. A parquet file that an earlier release left where the
dataset's directory is to be is migrated in two steps, `SetAside` and `MoveIn`, between
which the process may die: `legacy` says where that file is. `Durable` is what a
reader of the output finds, `OnDisk` what has not been destroyed.

**`FetcherRun`** composes the two into the runs of `fx_fetcher backfill` and
`update`: `StartBackfill` and `StartUpdate` open store and sink, after `Migrate` where there is something
to migrate, and fix every symbol's range; `JobEnds`, `FetchFails` and `WorkerPanics` end
jobs in any order; results are
written one by one, update counts and checkpoints are noted, then
`SaveCheckpoints`, the steps of `persist`, `Flush` and `Finish`. `RunFails` is an
error return from any of them and `Crash` the death of the process. `since`, `sampled` and `lost`
are history variables: where the range behind a checkpoint began, at which points the runs
that moved it have sampled since, and which
symbols lost rows because a run saved checkpoints and did not get to flush. `CheckpointCovered`
is `Covered` from `since` to the checkpoint. It says that resuming leaves no interval out and loses no
row; it does not say that every tick becomes a row, which is false of a range query.

**`BatchDownload`** is the library's `download*` family over `fetch_incremental`. A
call has `waiting`, `active` and `done` jobs, as `buffer_unordered` and `try_collect`
have; `Begin` polls the next future for the first time, which reads the
checkpoint; `JobEnds` is the end of a fetch with the `store.set` that follows it
without an await; `JobFails`, `StoreFails` and `Cancel` drop what the call has.
`Hangs` is a fetch that missed its wakeup in `FetchCache` (section 6, `lost_wakeup`): it keeps its
place under the limit until its call fails or is dropped.
Several calls share a store. The `_with_client` variants, whose limit is the
client's, and the plain ones, whose limit is a constant, are calls with one of
the `Limits`.

Definitions named after a change of another one (`LeadBlindly`, `CreateInPlace`,
`MarkAtOnce`, ...) stand just before the definition they change. They are not part of
any specification: each is a plausible mistake in that piece of code, kept to
show that a property would notice it. `PROJECT.json` says which belongs to which.

## 3. Runs

| Run | Instance | What it shows |
|---|---|---|
| `fetch_cache` | 4 calls, 2 urls, 1 cache entry, 2 request permits, 1 decompression permit, 1 retry; symmetry | Downloads of a url never overlap; entries of the map have a leader and leaders an entry; who is woken finds a result; permits are neither lost nor doubled; `CoalescedFetch` is implemented. 426,000 states |
| `fetch_live` | 3 calls, 2 urls, 1 request permit | Leaders return; followers that listen are woken, also when the leader is dropped. 293,000 states |
| `lost_wakeup` | 2 calls, 1 url | Violation, see section 6 |
| `decompression_cap` | 2 calls, 2 urls, 1 decompression permit | Violation, see section 6 |
| `range_query` | every feed of 5 hours over 6 files, an hour of 4 units, 2 to the second, hour 3 closed, search bound 2 | A lookup answers with the last tick within its reach and fails only if there is none; rows ascend; every sample whose hour has a tick yields it; no row is made up; an empty answer is right; the rows are those of `History`. 2,330,000 states |
| `range_carry_over` | every feed of 2 hours | Violation, see section 6 |
| `fetcher` | 2 symbols (one quoted on weekends), 4 hours of 2 units, the third closed, rows once an hour, 3 runs that start at 4 moments, CSV and parquet, with and without a file of an earlier release, flush threshold 3 | The checkpoint file always opens; saved checkpoints are on disk; a checkpoint names a row the sink was given, and behind it no interval is without a sample and no sample's own tick is missing, but for rows lost between saving and flushing; output only grows, through a migration that dies half way too. 2,865,000 states |
| `save_before_flush` | the same, without a file of an earlier release | Violation, see section 6 |
| `batch_download` | 2 calls on a store, 2 tickers, 3 hours of 2 units, the second closed, rows once an hour; call A runs two fetches at a time and downloads periods too, call B one; one fetch may hang | No more fetches than allowed, no ticker lost; answers in the order of the list; what a checkpoint rests on was handed to a caller, but for a call that failed or was dropped; calls end, unless hung fetches are all they wait for. 193,000 states |
| `market_calendar` | 2 seconds to an hour; all 14 kinds of year, leap years in any order | The market is open when New York trades; the last available time is the last second of trading; a reopening that was announced is kept to the second. 246,000 states |
| `pair_conversion` | 13 texts over 18 words, 3 modes, 120 clients (own aliases, catalogs, policies), 2 bridges, 3 quotes | Requests read back as they are displayed; the readers of pairs agree; the first route there is wins; bid, rate and ask stay in order; only codes at the end of their alias chain are fetched; the catalog's aliases win. 79,000 states |
| `sync_universe` | 5 symbols with odd slugs among them, 4 pages, 4 sitemaps, 4 catalogs, 2 pages at a time | No page is left out because another failed; odd slugs do not spoil a sync; what commands work on was switched on by the user; a torn file has been reported; a sync keeps what the user chose. 145,000 states |

## 4. Fairness, deadlock, bounds

*Fairness.* `FetchCache!FairSpec` has weak fairness of each call's own next step
(`Advance(c)`) and of each job on the blocking pool. The first is what a runtime
gives to a task that is ready; `AcquireRequest` needs no more than weak fairness in
the code since tokio's semaphores are first-in first-out, and in the model
because `fetch_live` has finitely many calls, each of which takes a permit at
most once. A request ends because the HTTP client has a timeout. Nobody need
ever call, drop a future or clear the cache, so those actions are not fair.
`BatchDownload!FairSpec` has weak fairness of each call's `Advance(b)`: some future of
the call that can make progress does. A fetch ends by an answer or by the client's timeouts, with
one exception: one that follows a download of another call may miss its wakeup (`lost_wakeup`) and has no
timeout. `Hangs` takes it out of `Advance` for good, and nothing is assumed of it. So
`CallsReturn` does not promise that every call ends, but that one stops short only when it waits for hung
fetches and nothing else (`Stuck`): with a place under the limit left it goes through the rest of its list.
The other specifications are checked for
safety only and have no fairness. In particular a sync need not end: the client that fetches
the sitemap has no timeout (`fx_fetcher.rs` 475), so that no fairness of it is justified.

*Deadlock.* `FetchCache` is never deadlocked by construction, since `ClearCache` is always
possible; the liveness properties are what rules out calls that wait for ever. A
lookup and a range query are sequential and end, so their runs switch the
deadlock check off; it is on everywhere else. `FetcherRun` has a step for the end of the last run, so that the
deadlock check covers every run in progress; callers of `BatchDownload` and `PairConversion` call again,
the clock of `MarketCalendar` goes on into the next year, and a sync that is over may start again.

*Bounds.* `MaxRetries`, `CacheSize`, `MaxInFlight` and `MaxDecompress` are parameters of the
code; the values are the smallest at which a retry, an eviction and a full
semaphore occur. Four calls for two urls make a leader, a follower and two
competing leaders of the other url possible at once. In `range_query` five hours
let a search meet its bound on either side of the break; the six files have
no tick, one in the first unit, in a fraction of the first second or in the
last unit, and two pairs. `MaxRuns` bounds the runs of `FetcherRun`: three are a run that sets
checkpoints up, one that fails or dies, and one that resumes. `MaxTime` bounds its
clock: four hours with an interval of one hour make the retry buffer of two, a weekend, a tick that is
passed over and an hour without a tick possible. `Moments` are the times at which a run or a job may start, the last
unit of each hour; a range that goes on from a checkpoint takes its samples where the tick it names lies, in the first unit of an
hour too, so that later ticks of that hour are passed over: in both instances a tick that is never a row lies behind a checkpoint in some state. `MaxTime`
of 5 in `BatchDownload` leaves room for a call that begins before and ends
after another one that has seen later rows, with a closed hour between. `MaxHung` is 1: one hung fetch blocks call B for good and
leaves call A, which may run two, a place to go on with. Days, hours and years of `MarketCalendar` are not
bounded at all: its state space is finite, and two seconds to an hour are the least with a
first and a last second that differ. In `pair_conversion` the aliases contain a chain of three, a cycle of
two, a code aliased to itself, blanks and an unknown code; two
bridges remain after the blank, the repetition and the symbol's own code are dropped. In `sync_universe`
two of three or more pages are under way, one fails at any moment, and the file has two
spellings of one symbol.

## 5. Theorems and proofs

Everything listed here is proved for all values of the constants under the
named assumptions of the modules.

*`FetchCacheProofs`*. The safety properties are not inductive: that `remove(&key)` never takes
another leader's entry depends on who holds which `Arc`, and that permits never
exceed their number depends on who holds one. `IInv` adds what is missing:
`EntryHasLeader` (map and leaders agree in both directions), `FlightHeld` (whose `Arc` a
call at a label holds), `OutcomeKnown` (outcomes are known
from `publish` on, and a published result is what followers are to be told), `CachedWasObtained` (what is in the cache, a
call obtained), `HoldersFinite` and `PermitsBalanced` (the cardinality of the
holders and the free permits sum up). `InductiveInvariance` has one lemma per action.
From it follow `TypeCorrect`, `SingleFlightHolds`, `EntryHasLeaderHolds`,
`WokenHasResultHolds`, `PermitsBalancedHolds`. `Refinement` shows that
`FetchCache` implements `CoalescedFetch`: the initial states map to initial states and every
action to an action of `CoalescedFetch` or a stutter, again one lemma each. The set of calls
may be infinite; `HoldersFinite` says that only finitely many hold a permit.

*`RangeQueryProofs`*. Four invariants, each on top of the one before. `LookupInv`: a search has
gone as many hours back as it has counted attempts, and the hours behind it hold nothing that
would do (`Searched`); with it the tick of an hour is the last within reach,
`LookupAnswersLatest`, and a miss is right, `LookupMissesRightly`. `SampleInv` adds `QueryInv`: the last row is a tick the feed has at or
before the next sample, the hour that is held is the sample's when its ticks are
used, and a lookup is under way only while there is no row. That the last tick at or before a time does not
go back when the time goes on (`LatestGrows`) then gives `RowsAscend`, and the same
invariant `InHourServed`. `RowInv` says what a lookup's answer is in terms of the feed, and
gives `RowsAreJustified` and `EmptyMeansNothing`. `FirstInv` has that the first row is that of the
first sample which had one, its own or one looked up (`FirstRow`), and that all samples lie in the range; as the
functions of `HourFiles` over the times of the ticks are what the files yield (`HeldOfFiles`,
`FindsOfFiles`), the rows of a finished range are those of `History`: `RangesAreHistory`. What the
theorems about downloads say of `History` they so say of this loop. `TypesCorrect` rests on `SampleInv` too: that a row is a
tick of the feed or a fallback, and what the query holds between its samples, is
no matter of one step. Greatest elements come from the
well-foundedness of the naturals (`GreatestOf`).

*`MarketCalendarProofs`*. The functions of `market.rs` are first proved right at every time of every year,
without a state machine: `OpenIffTrading` (deciding by the UTC date makes no
difference, because both clock changes fall on the hours of a Sunday at which the market is
closed), and `LastAvailableIsLast` (no second between the last available time and a closed
moment has trading). `CalendarInv` then says that `lastOpen` and `status` are what those functions yield,
over the turn of the year as well, where days are counted anew (`Rebased`):
`AlwaysOpenWhileTrading`, `AlwaysLastAvailable`, `AlwaysReopensAsAnnounced`.

*`HourFilesProofs`* has lemmas only: the greatest of a set of times, hours and their starts, that
`History` yields ticks from before its points (`HistoryIsTicks`), that it covers its range up to its last
row (`HistoryCoversRange`), and how covers are joined: two that overlap cover what both do (`CoveredJoins`),
and points added to a cover leave no gap (`CoveredWith`).

*`FetcherRunProofs`*. `CheckpointInv` adds to two properties of the checkpoint file that the temporary file is
complete once a rename is due (`TempIsReady`), that nothing is written but while
a run saves (`PersistOnlyWhileSaving`) and that memory holds the updates of the
run then (`MemoryIsUpdated`). `CheckpointAlwaysOpens` and `SavedMeansOnDisk` follow: the path
that removes the file and renames again may leave no checkpoint file, never a
torn one. `OutputInv` says where parts may be written (`PartsInSequence`, `MigratesFirst`,
`WritesNewPart`): no part is ever written over, so that `OutputOnlyGrows`. `RowsInv` follows a checkpoint back to its row: through the updates of the run, memory
and the temporary file to the disk, with the result it came from still to
be written or the row in the sink; hence `CheckpointsNameRows`. `CoverInv` does the same for
the cover behind a checkpoint, where the range of the run that goes on from it
overlaps it (`Resumes`), so that the two join; hence `CheckpointsCover`. What it claims is
`Covered`, for any lengths of hours and seconds and any weekends: a tick that a carried-over row hides is
outside of it. With all four (`RunInv`), `TypesCorrect` goes through store,
sink and run one by one (`StoreStep`, `SinkStep`, `RunStep`), as the types of each need what
the others guarantee.

*`BatchDownloadProofs`*. `JobsInv` has each job of a running call in exactly one of
`waiting`, `active` and `done` (`Apart`), and counts them (`NoJobIsLost`). `CoverInv` is about calls
that overlap: what the points sampled so far cover up to a checkpoint they cover up to the
checkpoint a fetch began from (`StartsCovered`), although a slow call may set the
checkpoint back (`CheckpointsCover`). As in `FetcherRunProofs`, it is the cover that is proved, not that every tick is a row. `AnswerInv`: a call that returns has each job once among
its ended ones, and the order of jobs numbered from 1 to n without repetition puts
job j in place j (`AnswersInOrder`), by way of a least place where it would not.

*`PairConversionProofs`*. Three groups of lemmas come before the state machine.

Chains of aliases. `Trail` is a function on the numbers; what it yields is proved not by induction on an
operator but by taking the least number at which a claim about it would fail. `TrailStops`
has it by the pigeonhole principle that following stops within one step more than there are
aliases, and `ChainEnds` that a chain resolves to the first code at which it does, in
the client's resolver and the catalog's alike. `ResolvingTwice` says that resolving again changes
nothing, also where a chain runs into a cycle, whose trail comes back to the code it
stopped at (`TrailComesBack`). `CatalogDecides` follows the two sources of aliases through
normalization and overlay. They give `ResolvedForGood`, a theorem about every table of aliases, and
`CatalogAlwaysWins`.

Texts. `TextReadsBack` and `TextReadersAgree` go through the modes of reading a text: what is
displayed is read as the same request, and what one reader takes for a pair is that
pair to the others: `AlwaysReadsBack`, `ReadersAlwaysAgree`. The attempt showed that
`ParseWithMode` had been a `CASE` whose guards overlapped, which in TLA+ leaves open which
branch is taken (TLC takes the first); it is a nested conditional now, as the code is.

The search for a route. `FirstRouteWins` is about the end of a conversion, so the invariant needs to
say how far a search has come. `RouteInv`: every route before the current one is settled as missing by
what the feed has said, the leg before the current one was found, and an inverse is
tried only after the direct pair had none. That a route once settled stays so
(`StillSettled`) needs that answers are kept (`AnswersKept`), that a new answer comes after it
(`RouteAfter`) that no eligible bridge lies between two that are tried in turn. `LegsOrdered` is added for
`QuotesOrdered`: an inverse swaps bid and ask (`InvertOrdered`), and a synthetic quote is ordered if
its legs are (`SyntheticOrdered`). `AnswersInv` has that only ends of chains are asked
for. From `ConversionInv`, the conjunction, follow `FirstRouteAlwaysWins`, `QuotesAlwaysOrdered` and
`OnlyCanonicalFetched`, for any number of bridges.

*`SyncUniverseProofs`*. `SyncInv` adds to the type invariant that the file, the copy a sync has read and the one it is about to
write are valid catalogs (`FileIsValid`), that the copy is the file unless somebody has
edited it meanwhile (`SeenIsFile`), that what is to be written keeps every choice of what was
read (`MergedKeeps`), that only what a user wanted is active in any of the three
(`ActiveIsWanted`), and that pages are under way only between the sitemap and the merge
(`PagesInv`). `MergeKeeps` is the lemma about the merge itself. From these follow `TypeCorrect`,
`EveryPageTried`, `NoSlugSpoilsTheCatalog`, `SelectedOnPurpose`, `TornAlwaysReported` and the action property
`ChoicesKept`.

Only model-checked: liveness (`LeaderReturns` and `WaiterReturns` of run `fetch_live`, `CallsReturn` of run
`batch_download`), since the installed provers cannot reason about `ENABLED` and with it
about fairness; and the disagreements of the next section, which are counterexamples.
Every other property of a passing run is stated by a theorem. Where a
recursively defined function or a sequence is reasoned about, a least place at which
the claim fails stands in for induction, which needs an operator for a parameter.

## 6. Disagreements between the code and its documents

Each is a run that TLC must end with a violation; the quotes are in `PROJECT.json`.

- `lost_wakeup` (`FollowersReturn`). A follower clones the `Arc` under the map's lock and calls `notified()`
  after leaving it. If the leader finishes in between, `notify_waiters` wakes
  nobody, and the follower waits for a notification that never comes. The
  changelog says that waiters no longer hang. Creating the `Notified` under the
  lock, or looking at the result before awaiting, would close the gap.
- `decompression_cap` (`DecompressionCap`). The permit of a decompression belongs to the future, the
  work to the blocking pool: a leader dropped at that await returns the permit
  while the job runs.
- `range_carry_over` (`SamplesAtOrBefore`). A sample whose hour has no earlier tick repeats the row
  before although the hour before has later ticks. A tick that no sample's own hour shows so becomes no
row, and the checkpoint of a download passes over it; `CheckpointCovered` does not claim it.
- `save_before_flush` (`CheckpointIsStored`). Checkpoints are saved before the sink is flushed; a
  failure in between makes the next update skip the rows that were lost.

One more disagreement is in the model and has no run of its own:

- `InstrumentCatalog::find` is documented as case-insensitive (`src/core/catalog.rs:92`). It puts its argument
  in capitals but not the symbols of the catalog, so that a symbol written in small letters in the
  file is never found (`SyncUniverse!Finds`), while the merge counts it as known.

Observations that contradict no document and have no run, visible in the models:

- A leader that registers after another one has finished does not look at the cache again, and
  downloads what has just been cached (`FetchCache!Lead`).
- Stepping back goes to the last millisecond of the earlier hour, which is then cut to
  its last whole second: a tick in the fraction after it is not found (`TargetOf`).
- A remembered fallback that found nothing is looked up again (`Remembered`).
- A migration of an old parquet file that dies between its steps leaves the rows in a
  file ending in `.legacy`, where no later run looks (`DataSink!OpenSink`); they are not in the output, nor
  destroyed, and checkpoints go on naming them.
- Two first incremental calls that overlap may leave a gap before the later start,
  which is why `since` of `BatchDownload` is the latest such start.
- A symbol that was read in `SymbolOnly` mode and looks like a pair is displayed as a text that `Auto` reads
  as that pair: `EURUSD`. `ReadsBack` is about the two other modes.
- An edit of the catalog during a sync is overwritten by it (`KeepsChoices` excepts it, and
  `ActivatedOnPurpose` counts every instrument that was ever wanted).

## 7. Abstractions

- Urls, symbols, rows and ticks are identities; prices, volumes and the wording of
  errors are left out except where section 2 says so. A row is a symbol and the time of its tick.
- In `FetchCache` an outcome is data, missing data, an error, or the error made up for a
  dropped leader. The length of a backoff is left out; that it awaits while
  holding the permit is not.
- `HourFiles` takes the closed hours as a constant. That the code
  computes the right ones is what `MarketCalendar` is about.
- `MarketCalendar` has whole seconds, and days of the year at hand and the weekend before it: days of
  other years are never in daylight saving time, which no weekend of a turn of the year is. No function of the code answers
  `Holiday`. `is_weekend` and `last_trading_day`, which nothing of the
  above calls, are left out.
- A text in `RequestText` is what remains after the blanks around the whole are dropped, split at
  its slashes. Words are atoms about which the constants say what the code tells
  apart. `from_str` cuts a text of six bytes at byte three; texts in which that is not a
  boundary of characters are left out.
- In `PairConversion` a price is its logarithm, which turns products into sums and
  reciprocals into negations; a quote that is rounded to zero is marked, and its inversion
  fails the whole conversion, as in the code. A synthetic quote has the time of its
  earlier leg. The calls of `code_alias` come before the import of the catalog; bridges that are all
  blank, which the builder replaces by its default list, are left out.
- `FetcherRun` and `BatchDownload` take what a fetch yields from `History` and leave its steps, which
  `RangeQuery` has, out; files do not change while a fetch reads them. TLC runs both with two units to an hour and one to a
  second; the proofs are for any.
- `fx_fetcher` respects market hours only if all the instruments it fetches are currencies or metals;
  `RespectMarketHours` is a constant for all
  runs, false in `fetcher`, where one symbol is quoted on weekends, and true in `batch_download`.
- `FetcherRun` has one process at a time and time passes between its runs. A crash is the
  death of the process: what was written to a file stays written. Part of a CSV
  record is never written out alone. All symbols are selected in every
  run; one that is not selected behaves as one that failed.
- `MaxHung` bounds the fetches of `BatchDownload` that hang at a time, in all calls together.
- `BatchDownload` has no empty list of tickers, for which nothing happens.
  `download_range` fixes its range in the call and the others as each future starts;
  the model has the latter.
- `SyncUniverse`'s `WriteFails` is a failure after the file was truncated. One that fails to open the file leaves it as
  it was and ends the sync with an error, the state that `SitemapFails` leads to.
- `SyncUniverse` has one sync at a time, and a user whose editor does not save in the
  instant of the sync's own write. The order of entries in the file is not kept: where the code
  takes the first or the last of several spellings, the model takes any.
- Files of the feed do not change. The hour that is still growing on the server is asked
  for by no sample that an update takes, since its end is an hour ago.

## 8. Not modelled

- The parsed-tick cache as a cache of its own (`client.rs` 1016-1056): an entry is a function of
  the bytes of its hour, so that with files that do not change it cannot disagree with the
  cache of downloads, whatever `clear_cache` drops. It is part of `RangeQuery!HoldHour`. The one
  hazard it has, ticks of an hour that has grown since, is listed in `PROJECT.json`.
- The parser of tick files (`core/parser.rs`), the table of instruments
  (`core/instrument.rs`), data types, time helpers, macros and the Polars
  interop: pure functions on bytes and numbers, without control to get wrong.
- `export`: a sequential copy into a sink that `DataSink` covers.
- Flags, configuration files, exit codes and the wording of errors of `fx_fetcher`; the scanner for
  links in web pages, of which `SyncUniverse` has the result.
- Two processes on one checkpoint store, which share the name of the temporary file: no
  part of the code or its documents provides for it.
- Benchmarks and examples.

## 9. Plan

Done, in this order: `FetchCache` with `CoalescedFetch` and their proofs, `RateLookup`, `RangeQuery`,
`CheckpointFile` with `DataSink` and `FetcherRun`, `BatchDownload`; then the migration in `DataSink`,
`MarketCalendar`, `RequestText` with `CodeAliases` and `PairConversion`, `SyncUniverse`; and
the proofs about the calendar, the checkpoints and their rows, the batches and the range query;
then those about symbol resolution and conversion and about the universe sync, and the type invariants
that were left, so that every safety property of a passing run is a theorem.

Left: a feed whose last hour grows, with the two caches side by side, for the hazard of
parsed ticks that `clear_cache` has dropped; an abstract specification of the
checkpoint store (a map that changes at once or not at all, or is lost with its file) that `CheckpointFile` implements
step by step.
