----------------------------- MODULE FetcherRun -----------------------------
(***************************************************************************)
(* fx_fetcher backfill and fx_fetcher update, run one after the other over *)
(* one checkpoint file and one output: what each run fetches, writes and   *)
(* remembers, and what a failure or the death of the process leaves.       *)
(***************************************************************************)
EXTENDS CheckpointFile, DataSink

CONSTANTS Feeds,     \* the feeds: the times of the ticks of each symbol
          Lookback,  \* --lookback of update
          Period,    \* --period of backfill
          Moments,   \* the bound on time: when a run may start
          MaxRuns    \* the bound on the number of runs

ASSUME FetcherAssumption ==
    /\ Feeds \subseteq [Symbols -> SUBSET (1..MaxTime)]
    /\ Lookback \in Nat \ {0}
    /\ Period \in Nat \ {0}
    /\ Moments \subseteq Times
    /\ MaxRuns \in Nat
    /\ LegacyRows \subseteq Symbols \X Times

VARIABLES feed,      \* the ticks of each symbol
          now,       \* an hour ago: later files are not complete
          runs,      \* the number of runs started
          pc,        \* how far the run has come
          command,   \* "update" or "backfill"
          output,    \* persist_output: --out, not --no-output
          pending,   \* the symbols whose job has not ended
          from,      \* the start of each symbol's range
          results,   \* what the jobs that ended and were not written gave
          updates,   \* checkpoint_updates
          fresh,     \* history: the symbols without a checkpoint when it began
          since,     \* history: where the range behind a checkpoint began
          sampled,   \* history: the points sampled since, by the runs that
                     \* moved the checkpoint
          lost       \* history: the symbols of which a run that had moved the
                     \* checkpoints failed to store some row

worldVars == <<feed, now, runs>>
argVars   == <<command, output>>
jobVars   == <<pending, from, results, updates>>
histVars  == <<fresh, since, sampled, lost>>
runVars   == <<worldVars, pc, argVars, jobVars, histVars>>
vars      == <<storeVars, sinkVars, runVars>>

Row(s, times) == {<<s, t>> : t \in times}
SymbolsOf(rows) == {r[1] : r \in rows}
None == <<>>    \* no result, no update

(* The checkpoints of an earlier release name its last rows.               *)
LegacyMarks ==
    [s \in Symbols |-> LET times == {t \in Times : <<s, t>> \in LegacyRows}
                       IN  IF times = {} THEN Never ELSE Max(times)]

Init ==
    /\ SinkInit
    /\ StoreInit(IF legacy = "path" THEN Whole(LegacyMarks) ELSE Absent)
    /\ feed \in Feeds
    /\ now \in Moments
    /\ runs = 0
    /\ pc = "off"
    /\ command = "update"
    /\ output = FALSE
    /\ pending = {}
    /\ from = [s \in Symbols |-> 0]
    /\ results = None
    /\ updates = None
    /\ fresh = {}
    /\ since = IF legacy = "path" THEN [s \in Symbols |-> LegacyMarks[s] + 1]
                ELSE [s \in Symbols |-> 0]
    /\ sampled = [s \in Symbols |-> {}]
    /\ lost = {}

-----------------------------------------------------------------------------
(* Time passes while no run is under way; an update fixes its end when it  *)
(* starts.                                                                 *)
Tick ==
    /\ pc = "off"
    /\ now' \in {t \in Moments : t > now}
    /\ UNCHANGED <<storeVars, sinkVars, feed, runs, pc, argVars, jobVars, histVars>>

(* Mutant of UpdateStart: checkpoints are not looked at.                   *)
UpdateStartLooksBack(mark) == LastAvailable(now) - Lookback
UpdateStart(mark) == IncrementalStart(mark, LastAvailable(now), Lookback)

Start(cmd, out, starts, jobs) ==
    /\ pc = "off"
    /\ runs < MaxRuns
    /\ runs' = runs + 1
    /\ pc' = IF out /\ legacy = "path" THEN "open" ELSE "fetch"
    /\ command' = cmd
    /\ output' = out
    /\ from' = starts
    /\ pending' = jobs
    /\ OpenStore
    /\ IF pc' = "fetch" /\ out THEN OpenSink ELSE UNCHANGED sinkVars
    /\ fresh' = {s \in Symbols : file.marks[s] = Never}
    /\ UNCHANGED <<feed, now, results, updates, since, sampled, lost>>

StartBackfill(out) ==
    Start("backfill", out, [s \in Symbols |-> now - Period], Symbols)

(* build_update_jobs: a symbol whose range is empty is skipped.            *)
StartUpdate(out) ==
    LET starts == [s \in Symbols |-> UpdateStart(file.marks[s])]
        jobs   == {s \in Symbols : starts[s] < LastAvailable(now)}
    IN  Start("update", out, starts, jobs)

(* A file of an earlier release becomes a dataset before the sink is open; *)
(* what an unfinished migration has set aside stays there.                 *)
Migrate ==
    /\ pc = "open"
    /\ \/ SetAside /\ pc' = pc
       \/ MoveIn /\ pc' = "fetch"
    /\ UNCHANGED <<storeVars, worldVars, argVars, jobVars, histVars>>

(* A backfill reaches up to now, an update to the last open time.          *)
RangeEnd == IF command = "update" THEN LastAvailable(now) ELSE now

(* Mutant of JobEnds: the job stays among those that are to be spawned.    *)
JobEndsAgain(s, result) ==
    /\ pc = "fetch"
    /\ s \in pending
    /\ results' = With(results, s, result)
    /\ UNCHANGED <<storeVars, sinkVars, worldVars, pc, argVars, pending, from,
                   updates, histVars>>

JobEnds(s, result) ==
    /\ pc = "fetch"
    /\ s \in pending
    /\ pending' = pending \ {s}
    /\ results' = With(results, s, result)
    /\ UNCHANGED <<storeVars, sinkVars, worldVars, pc, argVars, from, updates, histVars>>

Fetchable(s)  == History(feed[s], from[s], RangeEnd, Interval)
Fetched(s)     == JobEnds(s, [ok |-> TRUE, times |-> Fetchable(s)])
FetchFails(s)  == JobEnds(s, [ok |-> FALSE, times |-> {}])

(* A worker that panics leaves no result, and no error.                    *)
WorkerPanics(s) ==
    /\ pc = "fetch"
    /\ s \in pending
    /\ pending' = pending \ {s}
    /\ UNCHANGED <<storeVars, sinkVars, worldVars, pc, argVars, from, results,
                   updates, histVars>>

AllFetched ==
    /\ pc = "fetch"
    /\ pending = {}
    /\ pc' = "write"
    /\ UNCHANGED <<storeVars, sinkVars, worldVars, argVars, jobVars, histVars>>

(* The results are taken in the order of their symbols; the checkpoint of  *)
(* one that has rows moves to the last of them, that of one that failed    *)
(* does not move.                                                          *)
WriteResult ==
    /\ pc = "write"
    /\ DOMAIN results # {}
    /\ LET s    == Min(DOMAIN results)
           got  == results[s].times
       IN  /\ updates' = IF got # {} THEN With(updates, s, Max(got)) ELSE updates
           /\ IF output /\ results[s].ok THEN WriteBatch(Row(s, got))
                ELSE writing = NotWriting /\ UNCHANGED sinkVars
           /\ results' = Restrict(results, DOMAIN results \ {s})
    /\ UNCHANGED <<storeVars, worldVars, pc, argVars, pending, from, histVars>>

SpillRows ==
    /\ pc = "write"
    /\ \E r \in buffer :
          Spill({q \in buffer : q[1] < r[1] \/ (q[1] = r[1] /\ q[2] <= r[2])})
    /\ UNCHANGED <<storeVars, runVars>>

(* A part is written on the threshold, or by the flush at the end.         *)
WritePart ==
    /\ CreatePart \/ ClosePart
    /\ UNCHANGED <<storeVars, runVars>>

(* should_persist_checkpoints; its mutant is the code before 0.5.0.        *)
PersistAlways == TRUE
PersistCheckpoints == output

AllWritten == pc = "write" /\ DOMAIN results = {} /\ writing = NotWriting

SaveCheckpoints ==
    /\ AllWritten
    /\ PersistCheckpoints
    /\ updates # None
    /\ SetMany(updates)
    /\ pc' = "save"
    /\ UNCHANGED <<sinkVars, worldVars, argVars, jobVars, histVars>>

NothingToSave ==
    /\ AllWritten
    /\ ~PersistCheckpoints \/ updates = None
    /\ pc' = "flush"
    /\ UNCHANGED <<storeVars, sinkVars, worldVars, argVars, jobVars, histVars>>

PersistStep ==
    /\ CreateTemp \/ WriteTemp \/ Refused \/ Remove
    /\ UNCHANGED <<sinkVars, runVars>>

(* The symbols whose checkpoint no longer rests on the one before it.      *)
Begun == {s \in DOMAIN updates : command = "backfill" \/ s \in fresh}

(* The new file is in place; set_many returns and the flush is next.       *)
Replace ==
    /\ Rename
    /\ pc' = "flush"
    /\ since' = [s \in Symbols |-> IF s \in Begun THEN from[s] ELSE since[s]]
    /\ sampled' = [s \in Symbols |->
           (IF s \in Begun THEN {} ELSE sampled[s]) \cup
               IF s \in DOMAIN updates THEN Points(from[s], RangeEnd, Interval) ELSE {}]
    /\ UNCHANGED <<sinkVars, worldVars, argVars, jobVars, fresh, lost>>

Flush ==
    /\ pc = "flush"
    /\ StartFlush
    /\ UNCHANGED <<storeVars, runVars>>

(* The process is gone, and of the rows in memory those that were kept.    *)
ProcessEnds(kept) ==
    /\ pc' = "off"
    /\ lost' = lost \cup IF pc = "flush" /\ updates # None
                           THEN SymbolsOf(buffer \ (kept \cup Durable)) ELSE {}
    /\ pending' = {}
    /\ from' = [s \in Symbols |-> 0]
    /\ results' = None
    /\ updates' = None
    /\ LeaveStore
    /\ command' = "update"
    /\ output' = FALSE
    /\ fresh' = {}
    /\ UNCHANGED <<worldVars, since, sampled>>

Finish ==
    /\ pc = "flush"
    /\ Flushed
    /\ ProcessEnds(buffer)

(* An error of the sink or of the store ends the run; one in the midst of  *)
(* a batch leaves what one after it may leave.  As the sink is dropped a   *)
(* csv::Writer tries to write its buffer out once more.                    *)
RunFails ==
    /\ \/ pc \in {"open", "write", "flush"} /\ output
       \/ pc = "save" /\ PersistMayFail
    /\ \E kept \in {{}, buffer} :
          /\ format = "parquet" => kept = {}
          /\ DropSink(kept)
          /\ ProcessEnds(kept)

Crash ==
    /\ pc # "off"
    /\ DropSink({})
    /\ ProcessEnds({})

(* The bounds are reached: all that may stop is a fetcher at rest.         *)
NoMoreRuns ==
    /\ pc = "off" /\ runs = MaxRuns
    /\ \A t \in Moments : t <= now
    /\ UNCHANGED vars

-----------------------------------------------------------------------------
Next ==
    \/ Tick
    \/ \E out \in BOOLEAN : StartBackfill(out) \/ StartUpdate(out)
    \/ \E s \in Symbols : Fetched(s) \/ FetchFails(s) \/ WorkerPanics(s)
    \/ Migrate \/ AllFetched \/ WriteResult \/ SpillRows \/ WritePart
    \/ SaveCheckpoints \/ NothingToSave \/ PersistStep \/ Replace
    \/ Flush \/ Finish \/ RunFails \/ Crash
    \/ NoMoreRuns

Spec == Init /\ [][Next]_vars
-----------------------------------------------------------------------------
Rows == Symbols \X Times

TypeOK ==
    /\ StoreTypeOK
    /\ format \in Formats
    /\ csvFile \subseteq Rows /\ buffer \subseteq Rows
    /\ DOMAIN parts \subseteq Nat /\ Range(parts) \subseteq SUBSET Rows
    /\ nextPart \in Nat
    /\ writing \in [step : {"none", "create", "close"}, part : Nat]
    /\ feed \in Feeds
    /\ now \in Times /\ runs \in 0..MaxRuns
    /\ legacy \in {"none", "path", "aside"}
    /\ pc \in {"off", "open", "fetch", "write", "save", "flush"}
    /\ command \in {"update", "backfill"} /\ output \in BOOLEAN
    /\ pending \subseteq Symbols
    /\ from \in [Symbols -> Int] /\ since \in [Symbols -> Int]
    /\ sampled \in [Symbols -> SUBSET Int]
    /\ DOMAIN results \subseteq Symbols \ pending
    /\ Range(results) \subseteq [ok : BOOLEAN, times : SUBSET Times]
    /\ DOMAIN updates \subseteq Symbols /\ Range(updates) \subseteq Times
    /\ fresh \subseteq Symbols /\ lost \subseteq Symbols

(* A process that dies at any step of persist leaves a file that opens.    *)
CheckpointIsWhole == file.kind # "torn"

(* When set_many has returned the checkpoints of the run are on disk, also *)
(* when a rename failed and had to be tried again.                         *)
SavedIsOnDisk ==
    pc = "flush" /\ output =>
        \A s \in Symbols : s \in DOMAIN updates => file.marks[s] = updates[s]

(* The checkpoint on disk is the time of a row that the sink was given:    *)
(* one never moves for a symbol that failed, for rows that did not come,   *)
(* or in a run without output.  Only rows lost after the checkpoints were  *)
(* saved are an exception; the row may be one that was set aside.          *)
CheckpointNamesRow ==
    \A s \in Symbols \ lost :
        file.marks[s] # Never => <<s, file.marks[s]>> \in OnDisk \cup buffer

(* No gap opens behind a checkpoint, however many runs fail, die or are    *)
(* left out in between: from the start of the range that set it up to the  *)
(* checkpoint no interval went by without a sample, and every sample that  *)
(* its own hour had a tick for has that tick in the output, unless a run   *)
(* lost it that had saved its checkpoints and not flushed.  Ticks that no  *)
(* sample's own hour shows are passed over (History): a later run does not *)
(* come back for them.                                                     *)
TimesGiven(s) == {t \in Times : <<s, t>> \in OnDisk \cup buffer}

CheckpointCovered ==
    \A s \in Symbols \ lost :
        file.marks[s] # Never =>
            Covered(feed[s], sampled[s], Interval, since[s], file.marks[s], TimesGiven(s))

(* Runs are append-only: no later run, failure or restart removes a row    *)
(* from the output, other than to set it aside in a migration, and what    *)
(* was set aside stays until it is in the output again.                    *)
StoredIsKept == [][OnDisk \subseteq OnDisk']_vars
-----------------------------------------------------------------------------
(* fx_fetcher.rs, should_persist_checkpoints: checkpoints stand still      *)
(* without output "to avoid data-loss traps"; the row a checkpoint names   *)
(* is in the output once the run is over.                                  *)
CheckpointIsStored ==
    pc = "off" =>
        \A s \in Symbols :
            file.marks[s] # Never => <<s, file.marks[s]>> \in Durable
=============================================================================
