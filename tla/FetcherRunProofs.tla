-------------------------- MODULE FetcherRunProofs --------------------------
(* What a run of the fetcher leaves in the checkpoint file, for every set  *)
(* of symbols, every feed and every sequence of runs; and what a           *)
(* checkpoint stands for: through every failure, death, restart and        *)
(* migration it names a row that the output has, other than for rows that  *)
(* were lost between the saving of checkpoints and the flush.              *)
EXTENDS FetcherRun, HourFilesProofs, FiniteSetTheorems, TLAPS

(* The last of some times is one of them.                                  *)
LEMMA LastOfTimes ==
    ASSUME NEW times, times \subseteq Times, times # {} PROVE Max(times) \in times
<1>1. MaxTime \in Nat /\ times \subseteq 0..MaxTime
      BY HistoryAssumption DEF Times
<1> QED BY <1>1, MaxOf

(* What a job can fetch are times.                                         *)
LEMMA FetchableIsTimes ==
    ASSUME NEW s, feed[s] \subseteq Times PROVE Fetchable(s) \subseteq Times
<1>1. MaxTime \in Nat
      BY HistoryAssumption
<1> QED BY <1>1, HistoryIsTimes DEF Fetchable, Times

(* The temporary file is complete before it gets the name of the store.    *)
TempIsReady == persist \in {"rename", "remove", "retry"} => temp = Whole(memory)

(* Checkpoints are written only while the run saves them.                  *)
PersistOnlyWhileSaving == persist = "idle" \/ pc = "save"

(* What is written are the checkpoints of this run.                        *)
MemoryIsUpdated ==
    pc = "save" => \A s \in Symbols : s \in DOMAIN updates => memory[s] = updates[s]

(* A run without output has nothing to save.                               *)
CheckpointInv ==
    /\ CheckpointIsWhole
    /\ TempIsReady
    /\ PersistOnlyWhileSaving
    /\ MemoryIsUpdated
    /\ SavedIsOnDisk

(* The invariant holds at the start: nothing is being written.             *)
LEMMA InvInit == Init => CheckpointInv
<1> SUFFICES ASSUME Init PROVE CheckpointInv
    OBVIOUS
<1>1. file = Whole(LegacyMarks) \/ file = Absent
      BY DEF Init, StoreInit
<1>2. CheckpointIsWhole
      BY <1>1 DEF CheckpointIsWhole, Whole, Absent
<1>3. pc = "off" /\ persist = "idle"
      BY DEF Init, StoreInit
<1> QED
    BY <1>2, <1>3 DEF CheckpointInv, TempIsReady, PersistOnlyWhileSaving,
       MemoryIsUpdated, SavedIsOnDisk

(* The steps that touch neither the store nor the run's checkpoints.       *)
LEMMA StoreUntouched ==
    ASSUME CheckpointInv, UNCHANGED storeVars, UNCHANGED updates,
           pc' = pc \/ pc' \notin {"save", "flush"},
           persist = "idle" \/ pc' = "save", UNCHANGED output
    PROVE  CheckpointInv'
BY DEF storeVars, CheckpointInv, CheckpointIsWhole, TempIsReady,
       PersistOnlyWhileSaving, MemoryIsUpdated, SavedIsOnDisk, Whole

(* The process may end at any step of a replacement.                       *)
LEMMA EndKeeps ==
    ASSUME CheckpointInv, LeaveStore, pc' = "off"
    PROVE  CheckpointInv'
BY DEF LeaveStore, CheckpointInv, CheckpointIsWhole, TempIsReady,
       PersistOnlyWhileSaving, MemoryIsUpdated, SavedIsOnDisk, Whole

(* Every step keeps the invariant: one case for each action.               *)
LEMMA InvNext == CheckpointInv /\ [Next]_vars => CheckpointInv'
<1> SUFFICES ASSUME CheckpointInv, [Next]_vars PROVE CheckpointInv'
    OBVIOUS
<1>1. CASE Tick
      BY <1>1, StoreUntouched DEF Tick, storeVars, argVars, jobVars, CheckpointInv,
         PersistOnlyWhileSaving
<1>2. ASSUME NEW cmd, NEW out, NEW starts, NEW jobs, Start(cmd, out, starts, jobs)
      PROVE  CheckpointInv'
      BY <1>2 DEF Start, OpenStore, CheckpointInv, CheckpointIsWhole, TempIsReady,
         PersistOnlyWhileSaving, MemoryIsUpdated, SavedIsOnDisk, Whole
<1>3. ASSUME NEW out \in BOOLEAN, StartBackfill(out) \/ StartUpdate(out)
      PROVE  CheckpointInv'
      BY <1>2, <1>3 DEF StartBackfill, StartUpdate
<1>17. CASE Migrate
      <2>1. pc = "open" /\ pc' \in {"open", "fetch"}
            /\ UNCHANGED storeVars /\ UNCHANGED output /\ UNCHANGED updates
            BY <1>17 DEF Migrate, argVars, jobVars
      <2> QED
            BY <2>1, StoreUntouched DEF CheckpointInv, PersistOnlyWhileSaving
<1>4. ASSUME NEW s, NEW result, JobEnds(s, result) PROVE CheckpointInv'
      BY <1>4, StoreUntouched DEF JobEnds, storeVars, argVars, CheckpointInv,
         PersistOnlyWhileSaving
<1>5. ASSUME NEW s \in Symbols, WorkerPanics(s) PROVE CheckpointInv'
      BY <1>5, StoreUntouched DEF WorkerPanics, storeVars, argVars, CheckpointInv,
         PersistOnlyWhileSaving
<1>6. CASE AllFetched
      BY <1>6, StoreUntouched DEF AllFetched, storeVars, argVars, jobVars,
         CheckpointInv, PersistOnlyWhileSaving
<1>7. CASE WriteResult
      <2>1. pc = "write" /\ pc' = "write" /\ UNCHANGED storeVars
            BY <1>7 DEF WriteResult
      <2> QED
            BY <2>1 DEF storeVars, CheckpointInv, CheckpointIsWhole, TempIsReady,
               PersistOnlyWhileSaving, MemoryIsUpdated, SavedIsOnDisk, Whole
<1>8. CASE SpillRows \/ WritePart \/ Flush
      <2>1. UNCHANGED <<storeVars, runVars>>
            BY <1>8 DEF SpillRows, WritePart, Flush
      <2> QED
            BY <2>1, StoreUntouched DEF runVars, argVars, jobVars, CheckpointInv,
               PersistOnlyWhileSaving
<1>9. CASE SaveCheckpoints
      <2>1. pc' = "save" /\ UNCHANGED <<file, temp, updates>>
            BY <1>9 DEF SaveCheckpoints, SetMany, jobVars
      <2>2. persist' = "create"
            BY <1>9 DEF SaveCheckpoints, SetMany
      <2>3. \A s \in Symbols : s \in DOMAIN updates => memory'[s] = updates[s]
            BY <1>9 DEF SaveCheckpoints, SetMany
      <2> QED
            BY <2>1, <2>2, <2>3 DEF CheckpointInv, CheckpointIsWhole, TempIsReady,
               PersistOnlyWhileSaving, MemoryIsUpdated, SavedIsOnDisk
<1>10. CASE NothingToSave
      <2>1. /\ pc = "write" /\ pc' = "flush"
            /\ UNCHANGED storeVars /\ UNCHANGED output /\ UNCHANGED updates
            BY <1>10 DEF NothingToSave, AllWritten, jobVars, argVars
      <2>2. output => updates = <<>>
            BY <1>10 DEF NothingToSave, PersistCheckpoints, None
      <2>3. DOMAIN <<>> = {}
            OBVIOUS
      <2>4. SavedIsOnDisk'
            BY <2>1, <2>2, <2>3 DEF SavedIsOnDisk
      <2> QED
            BY <2>1, <2>4 DEF storeVars, CheckpointInv, CheckpointIsWhole, TempIsReady,
               PersistOnlyWhileSaving, MemoryIsUpdated, Whole
<1>11. CASE PersistStep
      <2>1. /\ UNCHANGED pc /\ UNCHANGED updates
            /\ persist # "idle" /\ UNCHANGED memory
            BY <1>11 DEF PersistStep, runVars, jobVars, CreateTemp, WriteTemp, Refused,
               Remove
      <2>2. pc = "save"
            BY <2>1 DEF CheckpointInv, PersistOnlyWhileSaving
      <2>3. file' = file \/ file' = Absent
            BY <1>11 DEF PersistStep, CreateTemp, WriteTemp, Refused, Remove
      <2>4. TempIsReady'
            BY <1>11 DEF PersistStep, CreateTemp, WriteTemp, Refused, Remove,
               CheckpointInv, TempIsReady, Whole
      <2> QED
            BY <2>1, <2>2, <2>3, <2>4 DEF CheckpointInv, CheckpointIsWhole, Absent,
               PersistOnlyWhileSaving, MemoryIsUpdated, SavedIsOnDisk
<1>12. CASE Replace
      <2>1. /\ pc' = "flush" /\ UNCHANGED updates
            /\ persist \in {"rename", "retry"} /\ persist' = "idle"
            /\ file' = temp
            BY <1>12 DEF Replace, Rename, jobVars
      <2>2. temp = Whole(memory)
            BY <2>1 DEF CheckpointInv, TempIsReady
      <2>3. pc = "save"
            BY <2>1 DEF CheckpointInv, PersistOnlyWhileSaving
      <2>4. file'.marks = memory /\ file'.kind = "whole"
            BY <2>1, <2>2 DEF Whole
      <2>5. \A s \in Symbols : s \in DOMAIN updates => memory[s] = updates[s]
            BY <2>3 DEF CheckpointInv, MemoryIsUpdated
      <2> QED
            BY <2>1, <2>4, <2>5 DEF CheckpointInv, CheckpointIsWhole, TempIsReady,
               PersistOnlyWhileSaving, MemoryIsUpdated, SavedIsOnDisk
<1>13. ASSUME NEW kept, ProcessEnds(kept) PROVE CheckpointInv'
      BY <1>13, EndKeeps DEF ProcessEnds
<1>14. CASE Finish \/ RunFails \/ Crash
      BY <1>13, <1>14 DEF Finish, RunFails, Crash
<1>15. CASE UNCHANGED vars
      BY <1>15, StoreUntouched DEF vars, runVars, argVars, jobVars, CheckpointInv,
         PersistOnlyWhileSaving
<1>16. CASE NoMoreRuns
      BY <1>15, <1>16 DEF NoMoreRuns
<1> QED
    BY <1>1, <1>3, <1>4, <1>5, <1>6, <1>7, <1>8, <1>9, <1>10, <1>11, <1>12, <1>14,
       <1>15, <1>16, <1>17 DEF Next, Fetched, FetchFails

(* FileCheckpointStore::persist: whatever step the process dies in, the    *)
(* file it leaves opens again.                                             *)
THEOREM CheckpointAlwaysOpens == Spec => []CheckpointIsWhole
<1>1. CheckpointInv => CheckpointIsWhole
      BY DEF CheckpointInv
<1> QED BY InvInit, InvNext, <1>1, PTL DEF Spec

(* set_many answers Ok only when the checkpoints of the run are on disk,   *)
(* whether the rename succeeded at once or after the file was removed.     *)
THEOREM SavedMeansOnDisk == Spec => []SavedIsOnDisk
<1>1. CheckpointInv => SavedIsOnDisk
      BY DEF CheckpointInv
<1> QED BY InvInit, InvNext, <1>1, PTL DEF Spec
-----------------------------------------------------------------------------
(* The output.  Parts are numbered without a gap, whatever run wrote them  *)
(* and however it ended, and an open sink counts on from the last of them; *)
(* so a new part never takes the name of an old one.                       *)
SinkOpen ==
    output /\ format = "parquet" /\ pc \in {"fetch", "write", "save", "flush"}

PartsInSequence ==
    \E n \in Nat : DOMAIN parts = 0..(n - 1) /\ (SinkOpen => nextPart = n)

MigratesFirst ==
    /\ legacy = "path" \/ pc = "open" => DOMAIN parts = {}
    /\ SinkOpen => legacy # "path"

(* What is being written is a part that has no rows as yet.                *)
WritesNewPart ==
    /\ writing # NotWriting => SinkOpen
    /\ writing.step = "close" => /\ writing.part \in DOMAIN parts
                                 /\ parts[writing.part] = {}

BufferedForOutput == buffer # {} => output /\ pc # "off"

OutputInv == PartsInSequence /\ MigratesFirst /\ WritesNewPart /\ BufferedForOutput

(* The last of the parts.                                                  *)
LEMMA MaxOfParts ==
    ASSUME NEW n \in Nat \ {0} PROVE Max(0..(n - 1)) = n - 1
<1>1. n - 1 \in 0..(n - 1) /\ \A y \in 0..(n - 1) : n - 1 >= y
      OBVIOUS
<1>2. ASSUME NEW m \in 0..(n - 1), \A y \in 0..(n - 1) : m >= y PROVE m = n - 1
      BY <1>1, <1>2
<1> QED
    BY <1>1, <1>2 DEF Max

(* detect_next_part_index counts on from parts without a gap.              *)
LEMMA NextIndexOfParts ==
    ASSUME NEW n \in Nat, DOMAIN parts = 0..(n - 1) PROVE NextIndex = n
<1>1. CASE n = 0
      BY <1>1 DEF NextIndex
<1>2. CASE n # 0
      <2>1. Max(DOMAIN parts) = n - 1
            BY <1>2, MaxOfParts
      <2>2. DOMAIN parts # {}
            BY <1>2
      <2> QED
            BY <2>1, <2>2 DEF NextIndex
<1> QED BY <1>1, <1>2

(* next_part_path takes the first index it tries.                          *)
LEMMA PartPathIsNext ==
    ASSUME NEW n \in Nat, DOMAIN parts = 0..(n - 1), nextPart = n
    PROVE  PartPath = n
<1>1. Cardinality(DOMAIN parts) \in Nat
      BY FS_Interval, FS_CardinalityType
<1>2. /\ n \in nextPart..(nextPart + Cardinality(DOMAIN parts))
      /\ n \notin DOMAIN parts
      /\ \A k \in nextPart..(n - 1) : k \in DOMAIN parts
      BY <1>1
<1>3. ASSUME NEW m \in nextPart..(nextPart + Cardinality(DOMAIN parts)),
             \A k \in nextPart..(m - 1) : k \in DOMAIN parts
      PROVE  m = n
      BY <1>1, <1>2, <1>3
<1> QED
    BY <1>2, <1>3 DEF PartPath

(* A part that is new, or has no rows yet, takes none from the others.     *)
LEMMA AddedPart ==
    ASSUME NEW n, NEW rows, n \in DOMAIN parts => parts[n] = {}
    PROVE  /\ DOMAIN With(parts, n, rows) = DOMAIN parts \cup {n}
           /\ With(parts, n, rows)[n] = rows
           /\ (UNION Range(parts)) \cup rows \subseteq UNION Range(With(parts, n, rows))
<1> DEFINE g == With(parts, n, rows)
<1>1. DOMAIN g = DOMAIN parts \cup {n} /\ g[n] = rows
      BY DEF With
<1>2. \A x \in DOMAIN parts \ {n} : g[x] = parts[x]
      BY DEF With
<1> HIDE DEF g
<1>3. \A x \in DOMAIN g : g[x] \in Range(g)
      BY DEF Range
<1>4. rows \subseteq UNION Range(g)
      BY <1>1, <1>3
<1>5. ASSUME NEW x \in DOMAIN parts PROVE parts[x] \subseteq UNION Range(g)
      BY <1>1, <1>2, <1>3
<1>6. UNION Range(parts) \subseteq UNION Range(g)
      BY <1>5 DEF Range
<1>7. (UNION Range(parts)) \cup rows \subseteq UNION Range(g)
      BY <1>4, <1>6
<1> QED
    BY <1>1, <1>7 DEF g

(* At the start there are no parts.                                        *)
LEMMA OutputInit == Init => OutputInv
<1> SUFFICES ASSUME Init PROVE OutputInv
    OBVIOUS
<1>1. parts = <<>> /\ buffer = {} /\ writing = NotWriting /\ pc = "off"
      BY DEF Init, SinkInit
<1>2. DOMAIN parts = {}
      BY <1>1
<1>3. 0 \in Nat /\ {} = 0..(0 - 1)
      OBVIOUS
<1>4. writing.step = "none"
      BY <1>1 DEF NotWriting
<1>5. PartsInSequence
      BY <1>1, <1>2, <1>3 DEF PartsInSequence, SinkOpen
<1> QED
    BY <1>1, <1>2, <1>4, <1>5 DEF OutputInv, MigratesFirst, WritesNewPart,
       BufferedForOutput, SinkOpen

(* The steps that leave the sink alone.                                    *)
LEMMA SinkUntouched ==
    ASSUME OutputInv, UNCHANGED sinkVars, SinkOpen' = SinkOpen,
           pc' = "open" => pc = "open" \/ legacy = "path",
           buffer # {} => output' /\ pc' # "off"
    PROVE  OutputInv' /\ OnDisk \subseteq OnDisk'
<1>1. /\ parts' = parts /\ legacy' = legacy /\ writing' = writing /\ buffer' = buffer
      /\ nextPart' = nextPart /\ csvFile' = csvFile
      BY DEF sinkVars
<1>2. PartsInSequence'
      BY <1>1 DEF OutputInv, PartsInSequence
<1>3. MigratesFirst' /\ WritesNewPart' /\ BufferedForOutput'
      BY <1>1 DEF OutputInv, MigratesFirst, WritesNewPart, BufferedForOutput, NotWriting
<1>4. OnDisk' = OnDisk
      BY <1>1 DEF OnDisk, Durable, Range
<1> QED
    BY <1>2, <1>3, <1>4 DEF OutputInv

(* The steps by which rows move from the buffer to the CSV file.           *)
LEMMA CsvGrows ==
    ASSUME csvFile \subseteq csvFile', UNCHANGED <<parts, legacy>>
    PROVE  OnDisk \subseteq OnDisk'
BY DEF OnDisk, Durable, Range

(* A process that ends, with its sink closed or dropped.                   *)
LEMMA SinkCloses ==
    ASSUME OutputInv, pc' = "off", UNCHANGED <<format, parts, legacy>>,
           csvFile \subseteq csvFile', buffer' = {}, writing' = NotWriting
    PROVE  OutputInv' /\ OnDisk \subseteq OnDisk'
<1>1. ~SinkOpen' /\ writing'.step = "none"
      BY DEF SinkOpen, NotWriting
<1>2. PartsInSequence'
      BY <1>1 DEF OutputInv, PartsInSequence
<1>3. MigratesFirst' /\ WritesNewPart' /\ BufferedForOutput'
      BY <1>1 DEF OutputInv, MigratesFirst, WritesNewPart, BufferedForOutput, NotWriting
<1> QED
    BY <1>2, <1>3, CsvGrows DEF OutputInv

(* Opening a sink: the directory is there, and its parts are counted.      *)
LEMMA OpenCounts ==
    ASSUME OutputInv, OpenSink, pc' = "fetch", pc = "off"
    PROVE  OutputInv' /\ OnDisk \subseteq OnDisk'
<1>1. /\ parts' = parts /\ legacy' = legacy /\ writing' = writing /\ buffer' = buffer
      /\ csvFile' = csvFile /\ format' = format /\ legacy # "path"
      BY DEF OpenSink
<1>2. buffer = {} /\ writing = NotWriting /\ ~SinkOpen
      BY DEF OutputInv, WritesNewPart, BufferedForOutput, SinkOpen
<1>3. PICK n \in Nat : DOMAIN parts = 0..(n - 1)
      BY DEF OutputInv, PartsInSequence
<1>4. NextIndex = n
      BY <1>3, NextIndexOfParts
<1>5. SinkOpen' => nextPart' = n
      BY <1>1, <1>4 DEF OpenSink, SinkOpen
<1>6. PartsInSequence'
      BY <1>1, <1>3, <1>5 DEF PartsInSequence
<1>7. MigratesFirst' /\ WritesNewPart' /\ BufferedForOutput'
      BY <1>1, <1>2 DEF OutputInv, MigratesFirst, WritesNewPart, BufferedForOutput, NotWriting
<1> QED
    BY <1>1, <1>6, <1>7, CsvGrows DEF OutputInv

(* A part is made, under the next index, and then filled.                  *)
LEMMA PartIsMade ==
    ASSUME OutputInv, CreatePart, UNCHANGED <<pc, output>>
    PROVE  OutputInv' /\ OnDisk \subseteq OnDisk'
<1>1. SinkOpen /\ SinkOpen' /\ legacy # "path" /\ pc # "open" /\ pc' # "open"
      BY DEF CreatePart, OutputInv, WritesNewPart, MigratesFirst, SinkOpen, NotWriting
<1>2. PICK n \in Nat : DOMAIN parts = 0..(n - 1) /\ nextPart = n
      BY <1>1 DEF OutputInv, PartsInSequence
<1>3. PartPath = n /\ n \notin DOMAIN parts
      BY <1>2, PartPathIsNext
<1>4. parts' = With(parts, n, {}) /\ nextPart' = n + 1
      BY <1>3 DEF CreatePart
<1>5. /\ DOMAIN parts' = DOMAIN parts \cup {n} /\ parts'[n] = {}
      /\ UNION Range(parts) \subseteq UNION Range(parts')
      BY <1>3, <1>4, AddedPart
<1>6. n + 1 \in Nat /\ DOMAIN parts' = 0..((n + 1) - 1)
      BY <1>2, <1>5
<1>7. PartsInSequence'
      BY <1>4, <1>6 DEF PartsInSequence
<1>8. writing' = [step |-> "close", part |-> n]
      BY <1>3 DEF CreatePart
<1>9. WritesNewPart'
      BY <1>1, <1>5, <1>8 DEF WritesNewPart
<1>10. UNCHANGED <<csvFile, buffer, legacy>>
       BY DEF CreatePart
<1>11. OnDisk \subseteq OnDisk'
       BY <1>5, <1>10 DEF OnDisk, Durable
<1> QED
    BY <1>1, <1>7, <1>9, <1>10, <1>11 DEF OutputInv, MigratesFirst, BufferedForOutput

(* Filling the part that has just been made removes no row.                *)
LEMMA PartIsFilled ==
    ASSUME OutputInv, ClosePart, UNCHANGED <<pc, output>>
    PROVE  OutputInv' /\ OnDisk \subseteq OnDisk'
<1>1. writing # NotWriting /\ writing.part \in DOMAIN parts /\ parts[writing.part] = {}
      BY DEF ClosePart, OutputInv, WritesNewPart, NotWriting
<1>2. SinkOpen /\ SinkOpen' /\ legacy # "path" /\ pc # "open" /\ pc' # "open"
      BY <1>1 DEF ClosePart, OutputInv, WritesNewPart, MigratesFirst, SinkOpen
<1>0. parts' = With(parts, writing.part, buffer)
      BY DEF ClosePart
<1>3. /\ DOMAIN parts' = DOMAIN parts \cup {writing.part}
      /\ (UNION Range(parts)) \cup buffer \subseteq UNION Range(parts')
      BY <1>0, <1>1, AddedPart
<1>4. UNCHANGED <<csvFile, nextPart, legacy>> /\ buffer' = {} /\ writing' = NotWriting
      BY DEF ClosePart
<1>5. PartsInSequence'
      BY <1>1, <1>2, <1>3, <1>4 DEF OutputInv, PartsInSequence
<1>6. OnDisk \subseteq OnDisk'
      BY <1>3, <1>4 DEF OnDisk, Durable
<1> QED
    BY <1>2, <1>4, <1>5, <1>6 DEF OutputInv, MigratesFirst, BufferedForOutput,
       WritesNewPart, NotWriting

(* A migration leaves the old rows aside, and then has them in part 0.     *)
LEMMA MigrationKeeps ==
    ASSUME OutputInv, Migrate
    PROVE  OutputInv' /\ OnDisk \subseteq OnDisk'
<1>1. /\ DOMAIN parts = {} /\ ~SinkOpen /\ writing = NotWriting /\ pc = "open"
      /\ pc' \in {"open", "fetch"} /\ UNCHANGED <<csvFile, buffer, writing, output>>
      BY DEF Migrate, SetAside, MoveIn, OutputInv, MigratesFirst, WritesNewPart, SinkOpen,
         argVars
<1>2. BufferedForOutput' /\ writing'.step = "none"
      BY <1>1 DEF OutputInv, BufferedForOutput, NotWriting
<1>3. CASE SetAside /\ pc' = pc
      <2>1. /\ parts' = parts /\ legacy = "path" /\ legacy' = "aside" /\ ~SinkOpen'
            BY <1>1, <1>3 DEF SetAside, SinkOpen
      <2>2. PartsInSequence'
            BY <2>1 DEF OutputInv, PartsInSequence
      <2>3. OnDisk \subseteq OnDisk'
            BY <1>1, <2>1 DEF OnDisk, Durable, Range
      <2> QED
            BY <1>1, <1>2, <2>1, <2>2, <2>3 DEF OutputInv, MigratesFirst, WritesNewPart
<1>4. CASE MoveIn /\ pc' = "fetch"
      <2>1. /\ parts' = With(parts, 0, LegacyRows) /\ legacy = "aside" /\ legacy' = "none"
            BY <1>4 DEF MoveIn
      <2>2. /\ DOMAIN parts' = DOMAIN parts \cup {0}
            /\ (UNION Range(parts)) \cup LegacyRows \subseteq UNION Range(parts')
            BY <1>1, <2>1, AddedPart
      <2>3. 1 \in Nat /\ DOMAIN parts' = 0..(1 - 1)
            BY <1>1, <2>2
      <2>4. Max(0..(1 - 1)) = 0
            BY MaxOfParts, 1 \in Nat \ {0}, 1 - 1 = 0
      <2>5. nextPart' = 1
            BY <1>4, <2>3, <2>4 DEF MoveIn
      <2>6. PartsInSequence'
            BY <2>3, <2>5 DEF PartsInSequence
      <2>7. OnDisk \subseteq OnDisk'
            BY <1>1, <2>1, <2>2 DEF OnDisk, Durable
      <2> QED
            BY <1>1, <1>2, <1>4, <2>1, <2>6, <2>7 DEF OutputInv, MigratesFirst,
               WritesNewPart
<1> QED
    BY <1>3, <1>4 DEF Migrate

(* Every step keeps the invariant and whatever is on disk.                 *)
LEMMA OutputStep ==
    ASSUME CheckpointInv, OutputInv, Next
    PROVE  OutputInv' /\ OnDisk \subseteq OnDisk'
<1>1. CASE Tick
      BY <1>1, SinkUntouched DEF Tick, OutputInv, BufferedForOutput, SinkOpen, sinkVars
<1>2. ASSUME NEW cmd, NEW out, NEW starts, NEW jobs, Start(cmd, out, starts, jobs)
      PROVE  OutputInv' /\ OnDisk \subseteq OnDisk'
      <2>1. /\ pc = "off" /\ ~SinkOpen /\ buffer = {} /\ output' = out
            /\ pc' = IF out /\ legacy = "path" THEN "open" ELSE "fetch"
            BY <1>2 DEF Start, SinkOpen, OutputInv, BufferedForOutput
      <2>2. CASE pc' = "fetch" /\ out
            BY <1>2, <2>1, <2>2, OpenCounts DEF Start
      <2>3. CASE ~(pc' = "fetch" /\ out)
            <3>1. UNCHANGED sinkVars /\ ~SinkOpen'
                  BY <1>2, <2>1, <2>3 DEF Start, SinkOpen
            <3> QED
                  BY <2>1, <3>1, SinkUntouched DEF SinkOpen
      <2> QED BY <2>2, <2>3
<1>3. ASSUME NEW out \in BOOLEAN, StartBackfill(out) \/ StartUpdate(out)
      PROVE  OutputInv' /\ OnDisk \subseteq OnDisk'
      BY <1>2, <1>3 DEF StartBackfill, StartUpdate
<1>4. ASSUME NEW s, NEW result, JobEnds(s, result)
      PROVE  OutputInv' /\ OnDisk \subseteq OnDisk'
      BY <1>4, SinkUntouched DEF JobEnds, argVars, OutputInv, BufferedForOutput, SinkOpen,
         sinkVars
<1>5. ASSUME NEW s \in Symbols, WorkerPanics(s)
      PROVE  OutputInv' /\ OnDisk \subseteq OnDisk'
      BY <1>5, SinkUntouched DEF WorkerPanics, argVars, OutputInv, BufferedForOutput,
         SinkOpen, sinkVars
<1>6. CASE Migrate
      BY <1>6, MigrationKeeps
<1>7. CASE AllFetched
      BY <1>7, SinkUntouched DEF AllFetched, argVars, OutputInv, BufferedForOutput,
         SinkOpen, sinkVars
<1>8. CASE WriteResult
      <2>1. pc = "write" /\ pc' = "write" /\ output' = output
            BY <1>8 DEF WriteResult, argVars
      <2>2. CASE UNCHANGED sinkVars
            BY <2>1, <2>2, SinkUntouched DEF OutputInv, BufferedForOutput, SinkOpen, sinkVars
      <2>3. ASSUME NEW rows, output, WriteBatch(rows)
            PROVE  OutputInv' /\ OnDisk \subseteq OnDisk'
            <3>1. /\ UNCHANGED <<format, csvFile, parts, nextPart, legacy>>
                  /\ writing' # NotWriting => format = "parquet"
                  /\ writing'.step # "close"
                  BY <2>3 DEF WriteBatch, NotWriting
            <3>2. SinkOpen' = SinkOpen /\ (writing' # NotWriting => SinkOpen')
                  BY <2>1, <2>3, <3>1 DEF SinkOpen
            <3>3. PartsInSequence'
                  BY <3>1, <3>2 DEF OutputInv, PartsInSequence
            <3> QED
                  BY <2>1, <2>3, <3>1, <3>2, <3>3, CsvGrows DEF OutputInv, MigratesFirst,
                     WritesNewPart, BufferedForOutput
      <2> QED
            BY <1>8, <2>2, <2>3 DEF WriteResult
<1>9. CASE SpillRows
      <2>1. PICK rows : Spill(rows) /\ UNCHANGED runVars
            BY <1>9 DEF SpillRows
      <2>2. UNCHANGED <<pc, output>>
            BY <2>1 DEF runVars, argVars
      <2>3. /\ UNCHANGED <<format, parts, nextPart, legacy, writing>>
            /\ csvFile \subseteq csvFile' /\ buffer' \subseteq buffer
            BY <2>1 DEF Spill
      <2>4. SinkOpen' = SinkOpen
            BY <2>2, <2>3 DEF SinkOpen
      <2>5. PartsInSequence'
            BY <2>3, <2>4 DEF OutputInv, PartsInSequence
      <2> QED
            BY <2>2, <2>3, <2>4, <2>5, CsvGrows DEF OutputInv, MigratesFirst,
               WritesNewPart, BufferedForOutput, NotWriting
<1>10. CASE WritePart
       BY <1>10, PartIsMade, PartIsFilled DEF WritePart, runVars, argVars
<1>11. CASE SaveCheckpoints \/ NothingToSave
       BY <1>11, SinkUntouched DEF SaveCheckpoints, NothingToSave, AllWritten, argVars,
          OutputInv, BufferedForOutput, SinkOpen, sinkVars
<1>12. CASE PersistStep
       BY <1>12, SinkUntouched DEF PersistStep, runVars, argVars, OutputInv,
          BufferedForOutput, SinkOpen, sinkVars
<1>13. CASE Replace
       <2>1. pc = "save"
             BY <1>13 DEF Replace, Rename, CheckpointInv, PersistOnlyWhileSaving
       <2> QED
             BY <1>13, <2>1, SinkUntouched DEF Replace, argVars, OutputInv,
                BufferedForOutput, SinkOpen, sinkVars
<1>14. CASE Flush
       <2>1. /\ pc = "flush" /\ UNCHANGED <<pc, output>> /\ SinkOpen
             /\ UNCHANGED <<format, csvFile, parts, nextPart, buffer, legacy>>
             /\ writing' = [step |-> "create", part |-> 0]
             BY <1>14 DEF Flush, StartFlush, runVars, argVars, OutputInv,
                BufferedForOutput, SinkOpen
       <2>2. SinkOpen'
             BY <2>1 DEF SinkOpen
       <2>3. PartsInSequence'
             BY <2>1 DEF OutputInv, PartsInSequence
       <2> QED
             BY <2>1, <2>2, <2>3, CsvGrows DEF OutputInv, MigratesFirst, WritesNewPart,
                BufferedForOutput
<1>15. CASE Finish \/ RunFails \/ Crash
       <2>1. /\ pc' = "off" /\ UNCHANGED <<format, parts, legacy>>
             /\ csvFile \subseteq csvFile' /\ buffer' = {} /\ writing' = NotWriting
             BY <1>15 DEF Finish, RunFails, Crash, ProcessEnds, Flushed, DropSink
       <2> QED
             BY <2>1, SinkCloses
<1>16. CASE NoMoreRuns
       BY <1>16, SinkUntouched DEF NoMoreRuns, vars, runVars, argVars, OutputInv,
          BufferedForOutput, SinkOpen, sinkVars
<1> QED
    BY <1>1, <1>3, <1>4, <1>5, <1>6, <1>7, <1>8, <1>9, <1>10, <1>11, <1>12, <1>13,
       <1>14, <1>15, <1>16 DEF Next, Fetched, FetchFails

(* The invariant is inductive, given that of the store.                    *)
LEMMA OutputNext == CheckpointInv /\ OutputInv /\ [Next]_vars => OutputInv'
<1>1. ASSUME OutputInv, UNCHANGED vars PROVE OutputInv'
      BY <1>1, SinkUntouched DEF vars, runVars, argVars, OutputInv, BufferedForOutput,
         SinkOpen, sinkVars
<1> QED BY <1>1, OutputStep

(* ParquetSink and CsvSink are append-only: whatever a run does or dies    *)
(* of, it leaves the rows that are there, under the path or set aside.     *)
THEOREM OutputOnlyGrows == Spec => StoredIsKept
<1>1. CheckpointInv /\ OutputInv /\ [Next]_vars => [OnDisk \subseteq OnDisk']_vars
      BY OutputStep
<1> QED
    BY InvInit, InvNext, OutputInit, OutputNext, <1>1, PTL DEF Spec, StoredIsKept
-----------------------------------------------------------------------------

(* Checkpoints of this run are on disk, its rows may still be in memory.   *)
Saved == pc = "flush" /\ updates # None

NamesStored ==
    \A s \in Symbols \ lost :
        file.marks[s] # Never =>
            <<s, file.marks[s]>> \in OnDisk \cup (IF Saved THEN buffer ELSE {})

MemoryNamed ==
    pc # "off" => \A s \in Symbols \ lost :
        memory[s] # Never => <<s, memory[s]>> \in OnDisk \cup buffer

UpdatesNamed ==
    /\ pc \in {"off", "open", "fetch"} => updates = None
    /\ output => \A s \in Symbols :
           s \in DOMAIN updates => <<s, updates[s]>> \in OnDisk \cup buffer

SavesUpdates == pc = "save" => updates # None

(* What the jobs gave are times, and none if they failed.                  *)
ResultsReal ==
    /\ feed \in Feeds
    /\ DOMAIN results \subseteq Symbols
    /\ \A s \in DOMAIN results : /\ results[s].times \subseteq Times
                                 /\ ~results[s].ok => results[s].times = {}

RowsInv == NamesStored /\ MemoryNamed /\ UpdatesNamed /\ SavesUpdates /\ ResultsReal

(* Checkpoints of an earlier release name rows of its file.                *)
LEMMA RowsInit == Init => RowsInv
<1> SUFFICES ASSUME Init PROVE RowsInv
    OBVIOUS
<1>1. /\ pc = "off" /\ updates = None /\ results = None /\ feed \in Feeds
      /\ file = (IF legacy = "path" THEN Whole(LegacyMarks) ELSE Absent)
      BY DEF Init, StoreInit
<1>2. DOMAIN None = {}
      BY DEF None
<1>3. ASSUME NEW s \in Symbols, file.marks[s] # Never
      PROVE  <<s, file.marks[s]>> \in OnDisk
      <2> DEFINE times == {t \in Times : <<s, t>> \in LegacyRows}
      <2>1. legacy = "path" /\ file.marks = LegacyMarks
            BY <1>1, <1>3 DEF Absent, NoMarks, Whole
      <2>2. times # {} /\ file.marks[s] = Max(times)
            BY <1>3, <2>1 DEF LegacyMarks
      <2>3. file.marks[s] \in times
            BY <2>2, LastOfTimes
      <2> QED
            BY <2>1, <2>3 DEF OnDisk, Durable
<1>4. NamesStored
      BY <1>3 DEF NamesStored
<1> QED
    BY <1>1, <1>2, <1>4 DEF RowsInv, MemoryNamed, UpdatesNamed, SavesUpdates, ResultsReal

(* Within a run rows leave the buffer for the disk only.                   *)
LEMMA RowsMove ==
    ASSUME CheckpointInv, OutputInv, Next, ~(Finish \/ RunFails \/ Crash)
    PROVE  OnDisk \cup buffer \subseteq OnDisk' \cup buffer'
<1>1. OnDisk \subseteq OnDisk'
      BY OutputStep
<1>2. CASE UNCHANGED buffer
      BY <1>1, <1>2
<1>3. CASE WriteResult
      <2>1. buffer \subseteq buffer'
            BY <1>3 DEF WriteResult, WriteBatch, sinkVars
      <2> QED BY <1>1, <2>1
<1>4. CASE SpillRows
      <2>1. buffer \subseteq csvFile' \cup buffer'
            BY <1>4 DEF SpillRows, Spill
      <2> QED BY <1>1, <2>1 DEF OnDisk, Durable
<1>5. CASE ClosePart
      <2>1. writing.part \in DOMAIN parts /\ parts[writing.part] = {}
            BY <1>5 DEF ClosePart, OutputInv, WritesNewPart
      <2>2. buffer \subseteq UNION Range(parts')
            BY <1>5, <2>1, AddedPart DEF ClosePart
      <2> QED BY <1>1, <2>2 DEF OnDisk, Durable
<1>6. CASE ~(WriteResult \/ SpillRows \/ ClosePart)
      <2>1. UNCHANGED buffer
            BY <1>6 DEF Next, Tick, StartBackfill, StartUpdate, Start, OpenSink, Fetched,
               FetchFails, JobEnds, WorkerPanics, Migrate, SetAside, MoveIn, AllFetched,
               WritePart, CreatePart, SaveCheckpoints, NothingToSave, PersistStep, Replace,
               Flush, StartFlush, NoMoreRuns, vars, sinkVars
      <2> QED BY <1>2, <2>1
<1> QED BY <1>3, <1>4, <1>5, <1>6

(* The steps that touch neither marks nor updates.                         *)
LEMMA NamesKept ==
    ASSUME RowsInv, UNCHANGED <<file, memory, updates, lost>>,
           output' => output,
           OnDisk \subseteq OnDisk', OnDisk \cup buffer \subseteq OnDisk' \cup buffer',
           pc' = "off" \/ pc # "off", Saved => Saved',
           pc' \in {"off", "open", "fetch"} => updates = None,
           pc' = "save" => pc = "save"
    PROVE  NamesStored' /\ MemoryNamed' /\ UpdatesNamed' /\ SavesUpdates'
<1>1. NamesStored'
      BY DEF RowsInv, NamesStored
<1>2. MemoryNamed'
      BY DEF RowsInv, MemoryNamed
<1>3. UpdatesNamed' /\ SavesUpdates'
      BY DEF RowsInv, UpdatesNamed, SavesUpdates
<1> QED BY <1>1, <1>2, <1>3

(* A step that leaves the results alone leaves them as they should be.     *)
LEMMA ResultsKept ==
    ASSUME RowsInv, UNCHANGED <<feed, results>> PROVE ResultsReal'
BY DEF RowsInv, ResultsReal

(* A checkpoint that moves in a run with output names a row it was given.  *)
LEMMA WriteResultNames ==
    ASSUME RowsInv, WriteResult,
           OnDisk \subseteq OnDisk', OnDisk \cup buffer \subseteq OnDisk' \cup buffer'
    PROVE  RowsInv'
<1> DEFINE s0  == Min(DOMAIN results)
           got == results[s0].times
<1>1. /\ pc = "write" /\ pc' = "write" /\ DOMAIN results # {}
      /\ updates' = IF got # {} THEN With(updates, s0, Max(got)) ELSE updates
      /\ output /\ results[s0].ok => WriteBatch(Row(s0, got))
      /\ results' = Restrict(results, DOMAIN results \ {s0})
      /\ UNCHANGED <<storeVars, feed, output, lost>>
      BY DEF WriteResult, worldVars, argVars, histVars
<1>2. DOMAIN results \subseteq Nat
      BY CheckpointAssumption DEF RowsInv, ResultsReal
<1>3. s0 \in DOMAIN results /\ s0 \in Symbols
      BY <1>1, <1>2, MinOf DEF RowsInv, ResultsReal
<1>4. got \subseteq Times /\ (~results[s0].ok => got = {})
      BY <1>3 DEF RowsInv, ResultsReal
<1>5. NamesStored' /\ MemoryNamed' /\ SavesUpdates'
      BY <1>1 DEF RowsInv, NamesStored, MemoryNamed, SavesUpdates, Saved, storeVars
<1> HIDE DEF s0, got
<1>6. ASSUME got # {}, output PROVE <<s0, Max(got)>> \in buffer'
      <2>1. Max(got) \in got /\ results[s0].ok
            BY <1>4, <1>6, LastOfTimes
      <2>2. Row(s0, got) \subseteq buffer'
            BY <1>1, <1>6, <2>1 DEF WriteBatch
      <2> QED BY <2>1, <2>2 DEF Row
<1>7. ASSUME output, NEW s \in Symbols, s \in DOMAIN updates'
      PROVE  <<s, updates'[s]>> \in OnDisk' \cup buffer'
      <2>1. CASE got = {}
            BY <1>1, <1>7, <2>1 DEF RowsInv, UpdatesNamed
      <2>2. CASE got # {} /\ s = s0
            <3>1. updates'[s] = Max(got)
                  BY <1>1, <2>2 DEF With
            <3> QED BY <1>6, <1>7, <2>2, <3>1
      <2>3. CASE got # {} /\ s # s0
            <3>1. s \in DOMAIN updates /\ updates'[s] = updates[s]
                  BY <1>1, <1>7, <2>3 DEF With
            <3> QED BY <1>7, <3>1 DEF RowsInv, UpdatesNamed
      <2> QED BY <2>1, <2>2, <2>3
<1>8. UpdatesNamed'
      BY <1>1, <1>7 DEF UpdatesNamed
<1>9. DOMAIN results' \subseteq DOMAIN results /\ \A s \in DOMAIN results' : results'[s] = results[s]
      BY <1>1 DEF Restrict
<1>10. ResultsReal'
      BY <1>1, <1>9 DEF RowsInv, ResultsReal
<1> QED BY <1>5, <1>8, <1>10 DEF RowsInv

(* The end of a run: whoever loses a row of a saved checkpoint is lost.    *)
LEMMA EndStores ==
    ASSUME Finish \/ RunFails \/ Crash, OnDisk \subseteq OnDisk',
           NEW s \in Symbols \ lost', NEW t,
           <<s, t>> \in OnDisk \cup (IF Saved THEN buffer ELSE {})
    PROVE  <<s, t>> \in OnDisk'
<1>1. PICK kept : ProcessEnds(kept) /\ csvFile' = csvFile \cup kept
      BY DEF Finish, RunFails, Crash, Flushed, DropSink
<1>2. kept \subseteq OnDisk' /\ Durable \subseteq OnDisk
      BY <1>1 DEF OnDisk, Durable
<1>3. CASE Saved /\ <<s, t>> \in buffer
      <2> DEFINE r == <<s, t>>
      <2>1. lost' = lost \cup SymbolsOf(buffer \ (kept \cup Durable))
            BY <1>1, <1>3 DEF ProcessEnds, Saved
      <2>2. r[1] = s /\ r \in buffer
            BY <1>3
      <2>3. r \notin buffer \ (kept \cup Durable)
            BY <2>1, <2>2 DEF SymbolsOf
      <2> QED BY <1>2, <2>2, <2>3
<1> QED BY <1>3

(* A run that has ended leaves nothing behind in memory.                   *)
LEMMA EndResets ==
    ASSUME Finish \/ RunFails \/ Crash
    PROVE  /\ pc' = "off" /\ updates' = None /\ results' = None /\ output' = FALSE
           /\ file' = file /\ lost \subseteq lost' /\ UNCHANGED <<feed, now, since, sampled>>
           /\ memory' = NoMarks /\ from' = [s \in Symbols |-> 0]
<1>1. PICK kept : ProcessEnds(kept)
      BY DEF Finish, RunFails, Crash
<1> QED BY <1>1 DEF ProcessEnds, LeaveStore, worldVars

(* However a run ends, the checkpoints on disk name rows on disk, those of *)
(* the symbols that lost rows apart.                                       *)
LEMMA EndNames ==
    ASSUME RowsInv, Finish \/ RunFails \/ Crash, OnDisk \subseteq OnDisk'
    PROVE  RowsInv'
<1>1. NamesStored'
      BY EndStores, EndResets DEF RowsInv, NamesStored
<1>2. DOMAIN None = {}
      BY DEF None
<1> QED
    BY <1>1, <1>2, EndResets DEF RowsInv, MemoryNamed, UpdatesNamed, SavesUpdates,
       ResultsReal

(* Every step keeps the invariant.                                         *)
LEMMA RowsStep ==
    ASSUME CheckpointInv, OutputInv, RowsInv, Next PROVE RowsInv'
<1>1. OnDisk \subseteq OnDisk'
      BY OutputStep
<1>2. CASE Finish \/ RunFails \/ Crash
      BY <1>1, <1>2, EndNames
<1> SUFFICES ASSUME ~(Finish \/ RunFails \/ Crash) PROVE RowsInv'
    BY <1>2
<1>3. OnDisk \cup buffer \subseteq OnDisk' \cup buffer'
      BY RowsMove
<1>4. CASE Tick \/ NoMoreRuns \/ AllFetched \/ Migrate \/ SpillRows \/ WritePart \/ Flush
      <2>1. /\ UNCHANGED <<file, memory, updates, lost, feed, results, output>>
            /\ \/ pc' = pc
               \/ pc = "open" /\ pc' = "fetch"
               \/ pc = "fetch" /\ pc' = "write"
            BY <1>4 DEF Tick, NoMoreRuns, AllFetched, Migrate, SpillRows, WritePart, Flush,
               vars, storeVars, runVars, worldVars, argVars, jobVars, histVars
      <2> QED
            BY <1>1, <1>3, <2>1, NamesKept, ResultsKept DEF RowsInv, UpdatesNamed, Saved
<1>5. ASSUME NEW cmd, NEW out, NEW starts, NEW jobs, Start(cmd, out, starts, jobs)
      PROVE  RowsInv'
      <2>1. /\ pc = "off" /\ pc' \in {"open", "fetch"} /\ memory' = file.marks
            /\ UNCHANGED <<file, updates, lost, feed, results>>
            BY <1>5 DEF Start, OpenStore, histVars
      <2>2. ~Saved /\ ~Saved' /\ updates = None /\ DOMAIN None = {}
            BY <2>1 DEF RowsInv, UpdatesNamed, Saved, None
      <2>3. NamesStored' /\ MemoryNamed'
            BY <1>1, <2>1, <2>2 DEF RowsInv, NamesStored, MemoryNamed
      <2> QED
            BY <2>1, <2>2, <2>3, ResultsKept DEF RowsInv, UpdatesNamed, SavesUpdates
<1>6. ASSUME NEW out \in BOOLEAN, StartBackfill(out) \/ StartUpdate(out)
      PROVE  RowsInv'
      BY <1>5, <1>6 DEF StartBackfill, StartUpdate
<1>7. ASSUME NEW s \in Symbols, NEW result, JobEnds(s, result),
             result.times \subseteq Times, ~result.ok => result.times = {}
      PROVE  RowsInv'
      <2>1. /\ pc = "fetch" /\ pc' = "fetch" /\ results' = With(results, s, result)
            /\ UNCHANGED <<file, memory, updates, lost, feed, output>>
            BY <1>7 DEF JobEnds, storeVars, worldVars, argVars, histVars
      <2>2. /\ DOMAIN results' = DOMAIN results \cup {s}
            /\ \A k \in DOMAIN results' :
                   results'[k] = IF k = s THEN result ELSE results[k]
            BY <2>1 DEF With
      <2>3. ResultsReal'
            BY <1>7, <2>1, <2>2 DEF RowsInv, ResultsReal
      <2> QED
            BY <1>1, <1>3, <2>1, <2>3, NamesKept DEF RowsInv, UpdatesNamed, Saved
<1>8. ASSUME NEW s \in Symbols, Fetched(s) PROVE RowsInv'
      <2> DEFINE result == [ok |-> TRUE, times |-> Fetchable(s)]
      <2>1. feed[s] \subseteq Times
            BY FetcherAssumption DEF RowsInv, ResultsReal, Times
      <2>2. result.times \subseteq Times /\ result.ok
            BY <2>1, FetchableIsTimes
      <2>3. JobEnds(s, result)
            BY <1>8 DEF Fetched
      <2> HIDE DEF result
      <2> QED BY <1>7, <2>2, <2>3
<1>9. ASSUME NEW s \in Symbols, FetchFails(s) PROVE RowsInv'
      BY <1>7, <1>9 DEF FetchFails
<1>10. ASSUME NEW s \in Symbols, WorkerPanics(s) PROVE RowsInv'
       <2>1. /\ pc = "fetch" /\ pc' = "fetch"
             /\ UNCHANGED <<file, memory, updates, lost, feed, results, output>>
             BY <1>10 DEF WorkerPanics, storeVars, worldVars, argVars, histVars
       <2> QED
             BY <1>1, <1>3, <2>1, NamesKept, ResultsKept DEF RowsInv, UpdatesNamed, Saved
<1>11. CASE WriteResult
       BY <1>1, <1>3, <1>11, WriteResultNames
<1>12. CASE SaveCheckpoints
       <2>1. /\ pc = "write" /\ pc' = "save" /\ output /\ updates # None
             /\ \A s \in Symbols :
                    memory'[s] = IF s \in DOMAIN updates THEN updates[s] ELSE memory[s]
             /\ UNCHANGED <<file, updates, lost, feed, results, output>>
             BY <1>12 DEF SaveCheckpoints, AllWritten, PersistCheckpoints, SetMany,
                worldVars, argVars, jobVars, histVars
       <2>2. ASSUME NEW s \in Symbols \ lost, memory'[s] # Never
             PROVE  <<s, memory'[s]>> \in OnDisk \cup buffer
             BY <2>1, <2>2 DEF RowsInv, MemoryNamed, UpdatesNamed
       <2>3. MemoryNamed'
             BY <1>3, <2>1, <2>2 DEF MemoryNamed
       <2>4. NamesStored'
             BY <1>1, <2>1 DEF RowsInv, NamesStored, Saved
       <2>5. UpdatesNamed' /\ SavesUpdates'
             BY <1>3, <2>1 DEF RowsInv, UpdatesNamed, SavesUpdates
       <2> QED
             BY <2>1, <2>3, <2>4, <2>5, ResultsKept DEF RowsInv
<1>13. CASE NothingToSave
       <2>1. /\ pc = "write" /\ pc' = "flush"
             /\ UNCHANGED <<file, memory, updates, lost, feed, results, output>>
             BY <1>13 DEF NothingToSave, AllWritten, storeVars, worldVars, argVars, jobVars,
                histVars
       <2> QED
             BY <1>1, <1>3, <2>1, NamesKept, ResultsKept DEF RowsInv, Saved
<1>14. CASE PersistStep
       <2>1. /\ pc' = pc /\ file' \in {file, Absent}
             /\ UNCHANGED <<memory, updates, lost, feed, results, output>>
             BY <1>14 DEF PersistStep, CreateTemp, WriteTemp, Refused, Remove, runVars,
                worldVars, argVars, jobVars, histVars
       <2>2. pc = "save"
             BY <1>14 DEF PersistStep, CreateTemp, WriteTemp, Refused, Remove,
                CheckpointInv, PersistOnlyWhileSaving
       <2>3. NamesStored'
             BY <1>1, <2>1, <2>2 DEF RowsInv, NamesStored, Saved, Absent, NoMarks
       <2>4. MemoryNamed' /\ UpdatesNamed' /\ SavesUpdates'
             BY <1>3, <2>1, <2>2 DEF RowsInv, MemoryNamed, UpdatesNamed, SavesUpdates
       <2> QED
             BY <2>1, <2>3, <2>4, ResultsKept DEF RowsInv
<1>15. CASE Replace
       <2>1. /\ pc' = "flush" /\ file' = temp
             /\ UNCHANGED <<memory, updates, lost, feed, results, output>>
             BY <1>15 DEF Replace, Rename, worldVars, argVars, jobVars
       <2>2. pc = "save" /\ file' = Whole(memory)
             BY <1>15, <2>1 DEF Replace, Rename, CheckpointInv, PersistOnlyWhileSaving,
                TempIsReady
       <2>3. Saved' /\ file'.marks = memory
             BY <2>1, <2>2 DEF RowsInv, SavesUpdates, Saved, Whole
       <2>4. NamesStored'
             BY <1>3, <2>1, <2>2, <2>3 DEF RowsInv, NamesStored, MemoryNamed
       <2>5. MemoryNamed' /\ UpdatesNamed' /\ SavesUpdates'
             BY <1>3, <2>1, <2>2 DEF RowsInv, MemoryNamed, UpdatesNamed, SavesUpdates
       <2> QED
             BY <2>1, <2>4, <2>5, ResultsKept DEF RowsInv
<1> QED
    BY <1>4, <1>6, <1>8, <1>9, <1>10, <1>11, <1>12, <1>13, <1>14, <1>15 DEF Next

(* The invariant is inductive, given those of the store and the output.    *)
LEMMA RowsNext == CheckpointInv /\ OutputInv /\ RowsInv /\ [Next]_vars => RowsInv'
<1>1. ASSUME RowsInv, UNCHANGED vars PROVE RowsInv'
      BY <1>1 DEF vars, storeVars, sinkVars, runVars, worldVars, argVars, jobVars, histVars,
         RowsInv, NamesStored, MemoryNamed, UpdatesNamed, SavesUpdates, ResultsReal, Saved,
         OnDisk, Durable, Range
<1> QED BY <1>1, RowsStep

(* run_backfill and run_update: a checkpoint does not move for a symbol    *)
(* that failed, for rows that did not come, or without output; and what    *)
(* one names is in the output from then on, unless the run that saved it   *)
(* did not get to flush.                                                   *)
THEOREM CheckpointsNameRows == Spec => []CheckpointNamesRow
<1>1. RowsInv => CheckpointNamesRow
      BY DEF RowsInv, NamesStored, CheckpointNamesRow
<1> QED
    BY InvInit, InvNext, OutputInit, OutputNext, RowsInit, RowsNext, <1>1, PTL DEF Spec
-----------------------------------------------------------------------------
(* No gap opens behind a checkpoint.  What was sampled from the beginning  *)
(* of its range covers it for the checkpoint on disk, for the one in       *)
(* memory, and for those of this run from the beginning of the run's       *)
(* range; an update that goes on from a checkpoint begins before it.       *)
TimesIn(s, rows) == {t \in Times : <<s, t>> \in rows}

SafeRows == OnDisk \cup (IF Saved THEN buffer ELSE {})
AllRows  == OnDisk \cup buffer

FileCovered ==
    \A s \in Symbols \ lost : file.marks[s] # Never =>
        Covered(feed[s], sampled[s], Interval, since[s], file.marks[s], TimesIn(s, SafeRows))

RunPoints(s) == Points(from[s], RangeEnd, Interval)

Base(s) == IF pc = "save" /\ s \in Begun THEN from[s] ELSE since[s]

BasePoints(s) ==
    IF pc = "save" THEN (IF s \in Begun THEN {} ELSE sampled[s]) \cup
                            (IF s \in DOMAIN updates THEN RunPoints(s) ELSE {})
    ELSE sampled[s]

MemoryCovered ==
    pc # "off" => \A s \in Symbols \ lost : memory[s] # Never =>
        Covered(feed[s], BasePoints(s), Interval, Base(s), memory[s], TimesIn(s, AllRows))

UpdatesCovered ==
    output => \A s \in Symbols : s \in DOMAIN updates =>
        Covered(feed[s], RunPoints(s), Interval, from[s], updates[s], TimesIn(s, AllRows))

Resumes ==
    pc \in {"open", "fetch", "write"} /\ command # "backfill" =>
        \A s \in Symbols \ fresh : memory[s] # Never /\ from[s] = memory[s] - 2 * Interval

ResultsAreHistory ==
    /\ pc \in {"off", "open"} => results = None
    /\ \A s \in DOMAIN results : results[s].ok => results[s].times = Fetchable(s)

TimesTyped ==
    /\ now \in Nat \ {0}
    /\ from \in [Symbols -> Int] /\ since \in [Symbols -> Int]
    /\ sampled \in [Symbols -> SUBSET Int]
    /\ file.marks \in Marks /\ memory \in Marks
    /\ \A s \in DOMAIN updates : updates[s] \in Times

CoverInv ==
    /\ FileCovered /\ MemoryCovered /\ UpdatesCovered
    /\ Resumes /\ ResultsAreHistory /\ TimesTyped

(* The end of a range is a time.                                           *)
LEMMA RangeEndIsTime ==
    ASSUME TimesTyped PROVE RangeEnd \in Int
BY LastAvailableBefore DEF TimesTyped, RangeEnd

(* More rows hold more times.                                              *)
LEMMA MoreTimes ==
    ASSUME NEW s, NEW rows, NEW more, rows \subseteq more
    PROVE  TimesIn(s, rows) \subseteq TimesIn(s, more)
BY DEF TimesIn

(* At the start nothing is covered but the last row of an earlier release, *)
(* by itself.                                                              *)
LEMMA CoverInit == Init => CoverInv
<1> SUFFICES ASSUME Init PROVE CoverInv
    OBVIOUS
<1>1. /\ pc = "off" /\ updates = None /\ results = None /\ feed \in Feeds /\ now \in Times
      /\ file = (IF legacy = "path" THEN Whole(LegacyMarks) ELSE Absent)
      /\ memory = NoMarks /\ from = [s \in Symbols |-> 0] /\ output = FALSE
      /\ since = (IF legacy = "path" THEN [s \in Symbols |-> LegacyMarks[s] + 1]
                     ELSE [s \in Symbols |-> 0])
      /\ sampled = [s \in Symbols |-> {}]
      BY FetcherAssumption DEF Init, StoreInit
<1>2. DOMAIN None = {}
      BY DEF None
<1>3. MaxTime \in Nat /\ NoMarks \in Marks
      BY HistoryAssumption DEF NoMarks, Marks, Never
<1>4. LegacyMarks \in Marks
      <2> DEFINE times(s) == {t \in Times : <<s, t>> \in LegacyRows}
      <2>1. ASSUME NEW s \in Symbols, times(s) # {} PROVE Max(times(s)) \in Times
            BY <2>1, LastOfTimes
      <2>2. LegacyMarks = [s \in Symbols |-> IF times(s) = {} THEN Never ELSE Max(times(s))]
            BY DEF LegacyMarks
      <2> HIDE DEF times
      <2> QED BY <1>3, <2>1, <2>2 DEF Marks, Times, Never
<1>5. file.marks \in Marks
      BY <1>1, <1>3, <1>4 DEF Whole, Absent
<1>6. since \in [Symbols -> Int] /\ sampled \in [Symbols -> SUBSET Int]
      <2>1. \A s \in Symbols : LegacyMarks[s] + 1 \in Int
            BY <1>4 DEF Marks
      <2> QED BY <1>1, <2>1
<1>7. TimesTyped
      BY <1>1, <1>2, <1>3, <1>5, <1>6 DEF TimesTyped, Times
<1>8. ASSUME NEW s \in Symbols, file.marks[s] # Never, NEW given
      PROVE  Covered(feed[s], sampled[s], Interval, since[s], file.marks[s], given)
      <2>1. legacy = "path" /\ file.marks = LegacyMarks /\ since[s] = LegacyMarks[s] + 1
            BY <1>1, <1>8 DEF Absent, NoMarks, Whole
      <2>2. LegacyMarks[s] \in Int
            BY <1>4 DEF Marks
      <2>3. since[s]..file.marks[s] = {} /\ sampled[s] = {}
            BY <1>1, <2>1, <2>2
      <2> QED BY <2>3 DEF Covered
<1>9. FileCovered
      BY <1>8 DEF FileCovered
<1> QED
    BY <1>1, <1>2, <1>7, <1>9 DEF CoverInv, MemoryCovered, UpdatesCovered, Resumes,
       ResultsAreHistory

(* The steps that touch neither marks nor updates, nor where ranges begin. *)
LEMMA CoverKept ==
    ASSUME CoverInv, UNCHANGED <<file, memory, updates, lost, feed, from, since, sampled, fresh,
                                 command, now>>,
           output' => output,
           OnDisk \subseteq OnDisk', OnDisk \cup buffer \subseteq OnDisk' \cup buffer',
           pc' = "off" \/ pc # "off", Saved => Saved',
           pc' = "save" <=> pc = "save",
           pc' \in {"open", "fetch", "write"} => pc \in {"open", "fetch", "write"}
    PROVE  FileCovered' /\ MemoryCovered' /\ UpdatesCovered' /\ Resumes'
<1>1. /\ \A s : TimesIn(s, SafeRows) \subseteq TimesIn(s, SafeRows')
      /\ \A s : TimesIn(s, AllRows) \subseteq TimesIn(s, AllRows')
      <2>1. SafeRows \subseteq SafeRows' /\ AllRows \subseteq AllRows'
            BY DEF SafeRows, AllRows
      <2> QED BY <2>1, MoreTimes
<1>2. FileCovered'
      <2> SUFFICES ASSUME NEW s \in Symbols \ lost, file.marks[s] # Never
                   PROVE  Covered(feed[s], sampled[s], Interval, since[s], file.marks[s],
                                  TimesIn(s, SafeRows'))
          BY DEF FileCovered, TimesIn
      <2>1. Covered(feed[s], sampled[s], Interval, since[s], file.marks[s], TimesIn(s, SafeRows))
            BY DEF CoverInv, FileCovered
      <2> QED BY <1>1, <2>1, CoveredGrows
<1>3. \A s \in Symbols : Base(s)' = Base(s) /\ BasePoints(s)' = BasePoints(s)
                         /\ RunPoints(s)' = RunPoints(s)
      BY DEF Base, BasePoints, RunPoints, Begun, RangeEnd
<1>4. MemoryCovered'
      <2> SUFFICES ASSUME pc # "off", NEW s \in Symbols \ lost, memory[s] # Never
                   PROVE  Covered(feed[s], BasePoints(s), Interval, Base(s), memory[s],
                                  TimesIn(s, AllRows'))
          BY <1>3 DEF MemoryCovered, TimesIn
      <2>1. Covered(feed[s], BasePoints(s), Interval, Base(s), memory[s], TimesIn(s, AllRows))
            BY DEF CoverInv, MemoryCovered
      <2> QED BY <1>1, <2>1, CoveredGrows
<1>5. UpdatesCovered'
      <2> SUFFICES ASSUME output, NEW s \in Symbols, s \in DOMAIN updates
                   PROVE  Covered(feed[s], RunPoints(s), Interval, from[s], updates[s],
                                  TimesIn(s, AllRows'))
          BY <1>3 DEF UpdatesCovered, TimesIn
      <2>1. Covered(feed[s], RunPoints(s), Interval, from[s], updates[s], TimesIn(s, AllRows))
            BY DEF CoverInv, UpdatesCovered
      <2> QED BY <1>1, <2>1, CoveredGrows
<1>6. Resumes'
      BY DEF CoverInv, Resumes
<1> QED BY <1>2, <1>4, <1>5, <1>6

(* What does not look at the output is kept by a step that leaves it       *)
(* alone.                                                                  *)
LEMMA ResultsAndTimesKept ==
    ASSUME CoverInv, UNCHANGED <<file, memory, updates, feed, from, since, sampled, command, now,
                                 results>>,
           pc' \in {"off", "open"} => pc \in {"off", "open"}
    PROVE  ResultsAreHistory' /\ TimesTyped'
<1>1. \A s : Fetchable(s)' = Fetchable(s)
      BY DEF Fetchable, RangeEnd
<1>2. ResultsAreHistory'
      BY <1>1 DEF CoverInv, ResultsAreHistory
<1>3. TimesTyped'
      BY DEF CoverInv, TimesTyped
<1> QED BY <1>2, <1>3

(* A run starts from what is on disk, and its updates before it.           *)
LEMMA StartCovers ==
    ASSUME RowsInv, CoverInv, NEW cmd, NEW out, NEW jobs, NEW starts \in [Symbols -> Int],
           Start(cmd, out, starts, jobs),
           cmd # "backfill" =>
               \A s \in Symbols : file.marks[s] # Never =>
                   starts[s] = file.marks[s] - 2 * Interval,
           OnDisk \subseteq OnDisk'
    PROVE  CoverInv'
<1>1. /\ pc = "off" /\ pc' \in {"open", "fetch"} /\ memory' = file.marks
      /\ fresh' = {s \in Symbols : file.marks[s] = Never} /\ from' = starts /\ command' = cmd
      /\ UNCHANGED <<file, updates, lost, feed, now, results, since, sampled>>
      BY DEF Start, OpenStore
<1>2. ~Saved /\ ~Saved' /\ updates = None /\ results = None /\ DOMAIN None = {}
      BY <1>1 DEF RowsInv, UpdatesNamed, CoverInv, ResultsAreHistory, Saved, None
<1>3. ASSUME NEW s \in Symbols \ lost, file.marks[s] # Never
      PROVE  /\ Covered(feed[s], sampled[s], Interval, since[s], file.marks[s],
                        TimesIn(s, SafeRows'))
             /\ Covered(feed[s], sampled[s], Interval, since[s], file.marks[s],
                        TimesIn(s, AllRows'))
      <2>1. SafeRows \subseteq SafeRows' /\ SafeRows \subseteq AllRows'
            BY <1>2 DEF SafeRows, AllRows
      <2>2. Covered(feed[s], sampled[s], Interval, since[s], file.marks[s], TimesIn(s, SafeRows))
            BY <1>3 DEF CoverInv, FileCovered
      <2> QED BY <2>1, <2>2, MoreTimes, CoveredGrows
<1>4. FileCovered'
      BY <1>1, <1>3 DEF FileCovered, TimesIn
<1>5. MemoryCovered'
      <2>1. \A s \in Symbols : Base(s)' = since[s] /\ BasePoints(s)' = sampled[s]
            BY <1>1 DEF Base, BasePoints
      <2> QED BY <1>1, <1>3, <2>1 DEF MemoryCovered, TimesIn
<1>6. UpdatesCovered' /\ ResultsAreHistory' /\ TimesTyped'
      BY <1>1, <1>2 DEF CoverInv, UpdatesCovered, ResultsAreHistory, TimesTyped
<1>7. Resumes'
      BY <1>1 DEF Resumes
<1> QED BY <1>4, <1>5, <1>6, <1>7 DEF CoverInv

(* A backfill starts a range of its own.                                   *)
LEMMA StartBackfillCovers ==
    ASSUME RowsInv, CoverInv, NEW out, StartBackfill(out), OnDisk \subseteq OnDisk'
    PROVE  CoverInv'
<1>1. [s \in Symbols |-> now - Period] \in [Symbols -> Int]
      BY FetcherAssumption DEF CoverInv, TimesTyped
<1> QED BY <1>1, StartCovers DEF StartBackfill

(* An update resumes two intervals before each checkpoint, or starts anew. *)
LEMMA StartUpdateCovers ==
    ASSUME RowsInv, CoverInv, NEW out, StartUpdate(out), OnDisk \subseteq OnDisk'
    PROVE  CoverInv'
<1> DEFINE starts == [s \in Symbols |-> UpdateStart(file.marks[s])]
<1>1. file.marks \in Marks /\ LastAvailable(now) \in Int /\ 2 * Interval \in Int
      BY LastAvailableBefore, HistoryAssumption DEF CoverInv, TimesTyped
<1>2. \A s \in Symbols : file.marks[s] \in Int
      BY <1>1 DEF Marks
<1>3. \A s \in Symbols : UpdateStart(file.marks[s]) \in Int
      BY <1>1, <1>2, FetcherAssumption DEF UpdateStart, IncrementalStart
<1>4. starts \in [Symbols -> Int]
      BY <1>3
<1>5. \A s \in Symbols : file.marks[s] # Never => starts[s] = file.marks[s] - 2 * Interval
      BY DEF UpdateStart, IncrementalStart
<1>6. PICK jobs : Start("update", out, starts, jobs)
      BY DEF StartUpdate
<1> HIDE DEF starts
<1> QED BY <1>4, <1>5, <1>6, StartCovers

(* A job that ends leaves the history of its range.                        *)
LEMMA JobEndCovers ==
    ASSUME CoverInv, NEW s \in Symbols, NEW result, JobEnds(s, result),
           result.ok => result.times = Fetchable(s),
           OnDisk \subseteq OnDisk', OnDisk \cup buffer \subseteq OnDisk' \cup buffer'
    PROVE  CoverInv'
<1>1. /\ pc = "fetch" /\ pc' = "fetch" /\ results' = With(results, s, result)
      /\ UNCHANGED <<file, memory, updates, lost, feed, output, from, since, sampled, fresh,
                     command, now>>
      BY DEF JobEnds, storeVars, worldVars, argVars, histVars
<1>2. /\ DOMAIN results' = DOMAIN results \cup {s}
      /\ \A k \in DOMAIN results' : results'[k] = IF k = s THEN result ELSE results[k]
      BY <1>1 DEF With
<1>3. \A k : Fetchable(k)' = Fetchable(k)
      BY <1>1 DEF Fetchable, RangeEnd
<1>4. ResultsAreHistory'
      BY <1>1, <1>2, <1>3 DEF CoverInv, ResultsAreHistory
<1>5. TimesTyped'
      BY <1>1 DEF CoverInv, TimesTyped
<1> QED
    BY <1>1, <1>4, <1>5, CoverKept DEF CoverInv, Saved

(* The rows of a result are all in the sink when its checkpoint is noted.  *)
LEMMA WriteResultCovers ==
    ASSUME RowsInv, CoverInv, WriteResult,
           OnDisk \subseteq OnDisk', OnDisk \cup buffer \subseteq OnDisk' \cup buffer'
    PROVE  CoverInv'
<1> DEFINE s0  == Min(DOMAIN results)
           got == results[s0].times
<1>1. /\ pc = "write" /\ pc' = "write" /\ DOMAIN results # {}
      /\ updates' = IF got # {} THEN With(updates, s0, Max(got)) ELSE updates
      /\ output /\ results[s0].ok => WriteBatch(Row(s0, got))
      /\ results' = Restrict(results, DOMAIN results \ {s0})
      /\ UNCHANGED <<storeVars, feed, output, lost, from, since, sampled, fresh, command, now>>
      BY DEF WriteResult, worldVars, argVars, histVars
<1>2. s0 \in DOMAIN results /\ s0 \in Symbols
      BY <1>1, MinOf, CheckpointAssumption DEF RowsInv, ResultsReal
<1>3. got \subseteq Times /\ (~results[s0].ok => got = {}) /\ feed[s0] \subseteq Times
      BY <1>2, FetcherAssumption DEF RowsInv, ResultsReal, Times
<1>4. results[s0].ok => got = Fetchable(s0)
      BY <1>2 DEF CoverInv, ResultsAreHistory
<1>5. from[s0] \in Int /\ RangeEnd \in Int
      BY <1>2, RangeEndIsTime DEF CoverInv, TimesTyped
<1>6. /\ \A s : TimesIn(s, SafeRows) \subseteq TimesIn(s, SafeRows')
      /\ \A s : TimesIn(s, AllRows) \subseteq TimesIn(s, AllRows')
      <2>1. SafeRows \subseteq SafeRows' /\ AllRows \subseteq AllRows'
            BY <1>1 DEF SafeRows, AllRows, Saved
      <2> QED BY <2>1, MoreTimes
<1>7. \A s \in Symbols : Base(s)' = Base(s) /\ BasePoints(s)' = BasePoints(s)
                         /\ RunPoints(s)' = RunPoints(s) /\ Fetchable(s)' = Fetchable(s)
      BY <1>1 DEF Base, BasePoints, RunPoints, Fetchable, RangeEnd
<1>8. FileCovered'
      <2> SUFFICES ASSUME NEW s \in Symbols \ lost, file.marks[s] # Never
                   PROVE  Covered(feed[s], sampled[s], Interval, since[s], file.marks[s],
                                  TimesIn(s, SafeRows'))
          BY <1>1 DEF FileCovered, TimesIn, storeVars
      <2>1. Covered(feed[s], sampled[s], Interval, since[s], file.marks[s], TimesIn(s, SafeRows))
            BY DEF CoverInv, FileCovered
      <2> QED BY <1>6, <2>1, CoveredGrows
<1>9. MemoryCovered'
      <2> SUFFICES ASSUME NEW s \in Symbols \ lost, memory[s] # Never
                   PROVE  Covered(feed[s], BasePoints(s), Interval, Base(s), memory[s],
                                  TimesIn(s, AllRows'))
          BY <1>1, <1>7 DEF MemoryCovered, TimesIn, storeVars
      <2>1. Covered(feed[s], BasePoints(s), Interval, Base(s), memory[s], TimesIn(s, AllRows))
            BY <1>1 DEF CoverInv, MemoryCovered
      <2> QED BY <1>6, <2>1, CoveredGrows
<1>10. Resumes'
      BY <1>1 DEF CoverInv, Resumes, storeVars
<1>11. DOMAIN results' \subseteq DOMAIN results /\ \A s \in DOMAIN results' : results'[s] = results[s]
      BY <1>1 DEF Restrict
<1>12. ResultsAreHistory'
      BY <1>1, <1>7, <1>11 DEF CoverInv, ResultsAreHistory, RowsInv, ResultsReal
<1> HIDE DEF s0, got
<1>13. got # {} => Max(got) \in got /\ Max(got) \in Times
       BY <1>3, LastOfTimes
<1>14. TimesTyped'
       <2>1. ASSUME NEW s \in DOMAIN updates' PROVE updates'[s] \in Times
             BY <1>1, <1>13, <2>1 DEF CoverInv, TimesTyped, With
       <2> QED BY <1>1, <2>1 DEF CoverInv, TimesTyped, storeVars
<1>15. ASSUME got # {}, output
       PROVE  Covered(feed[s0], RunPoints(s0), Interval, from[s0], Max(got), TimesIn(s0, AllRows'))
       <2>1. results[s0].ok /\ got = History(feed[s0], from[s0], RangeEnd, Interval)
             BY <1>3, <1>4, <1>15 DEF Fetchable
       <2>2. Row(s0, got) \subseteq AllRows'
             BY <1>1, <1>15, <2>1 DEF WriteBatch, AllRows
       <2>3. got \subseteq TimesIn(s0, AllRows')
             BY <1>3, <2>2 DEF TimesIn, Row
       <2>4. MaxTime \in Nat /\ Interval \in Nat \ {0} /\ feed[s0] \subseteq 1..MaxTime
             BY <1>3, HistoryAssumption DEF Times
       <2> QED BY <1>5, <1>15, <2>1, <2>3, <2>4, HistoryCoversRange DEF RunPoints
<1>16. ASSUME output, NEW s \in Symbols, s \in DOMAIN updates'
       PROVE  Covered(feed[s], RunPoints(s), Interval, from[s], updates'[s], TimesIn(s, AllRows'))
       <2>1. CASE got # {} /\ s = s0
             <3>1. updates'[s] = Max(got)
                   BY <1>1, <2>1 DEF With
             <3> QED BY <1>15, <1>16, <2>1, <3>1
       <2>2. CASE ~(got # {} /\ s = s0)
             <3>1. s \in DOMAIN updates /\ updates'[s] = updates[s]
                   BY <1>1, <1>16, <2>2 DEF With
             <3>2. Covered(feed[s], RunPoints(s), Interval, from[s], updates[s],
                           TimesIn(s, AllRows))
                   BY <1>16, <3>1 DEF CoverInv, UpdatesCovered
             <3> QED BY <1>6, <3>1, <3>2, CoveredGrows
       <2> QED BY <2>1, <2>2
<1>17. UpdatesCovered'
       BY <1>1, <1>7, <1>16 DEF UpdatesCovered, TimesIn
<1> QED BY <1>8, <1>9, <1>10, <1>12, <1>14, <1>17 DEF CoverInv

(* A checkpoint that is set stands on its own range, or on that of the     *)
(* checkpoint before it, with which its range overlaps.                    *)
LEMMA SaveCovers ==
    ASSUME RowsInv, CoverInv, SaveCheckpoints,
           OnDisk \subseteq OnDisk', OnDisk \cup buffer \subseteq OnDisk' \cup buffer'
    PROVE  CoverInv'
<1>1. /\ pc = "write" /\ pc' = "save" /\ output
      /\ memory' = [s \in Symbols |-> IF s \in DOMAIN updates THEN updates[s] ELSE memory[s]]
      /\ UNCHANGED <<file, updates, lost, feed, results, output, from, since, sampled, fresh,
                     command, now, buffer>>
      /\ OnDisk' = OnDisk
      BY DEF SaveCheckpoints, AllWritten, PersistCheckpoints, SetMany, worldVars, argVars,
         jobVars, histVars, sinkVars, OnDisk, Durable, Range
<1>2. /\ \A s : TimesIn(s, SafeRows)' = TimesIn(s, SafeRows)
      /\ \A s : TimesIn(s, AllRows)' = TimesIn(s, AllRows)
      /\ \A s \in Symbols : RunPoints(s)' = RunPoints(s) /\ Fetchable(s)' = Fetchable(s)
      BY <1>1 DEF TimesIn, SafeRows, AllRows, Saved, RunPoints, Fetchable, RangeEnd
<1>3. FileCovered' /\ UpdatesCovered' /\ Resumes' /\ ResultsAreHistory'
      BY <1>1, <1>2 DEF CoverInv, FileCovered, UpdatesCovered, Resumes, ResultsAreHistory,
         RowsInv, ResultsReal
<1>4. MaxTime \in Nat /\ (\A s \in Symbols : memory[s] \in 0..MaxTime)
      BY HistoryAssumption DEF CoverInv, TimesTyped, Marks
<1>5. TimesTyped'
      BY <1>1, <1>4 DEF CoverInv, TimesTyped, Marks, Times
<1>6. ASSUME NEW s \in Symbols \ lost, memory'[s] # Never
      PROVE  Covered(feed[s], BasePoints(s)', Interval, Base(s)', memory'[s], TimesIn(s, AllRows))
      <2>1. CASE s \notin DOMAIN updates
            <3>1. memory'[s] = memory[s] /\ Base(s)' = Base(s) /\ BasePoints(s)' = BasePoints(s)
                  BY <1>1, <1>6, <2>1 DEF Base, BasePoints, Begun
            <3> QED BY <1>1, <1>6, <3>1 DEF CoverInv, MemoryCovered
      <2>2. CASE s \in DOMAIN updates /\ s \in Begun
            <3>1. memory'[s] = updates[s] /\ Base(s)' = from[s] /\ BasePoints(s)' = RunPoints(s)
                  BY <1>1, <1>2, <1>6, <2>2 DEF Base, BasePoints, Begun
            <3> QED BY <1>1, <1>6, <2>2, <3>1 DEF CoverInv, UpdatesCovered
      <2>3. CASE s \in DOMAIN updates /\ s \notin Begun
            <3>1. /\ memory'[s] = updates[s] /\ Base(s)' = since[s] /\ Base(s) = since[s]
                  /\ BasePoints(s)' = sampled[s] \cup RunPoints(s) /\ BasePoints(s) = sampled[s]
                  BY <1>1, <1>2, <1>6, <2>3 DEF Base, BasePoints, Begun
            <3>2. memory[s] # Never /\ from[s] = memory[s] - 2 * Interval
                  BY <1>1, <1>6, <2>3 DEF CoverInv, Resumes, Begun
            <3>3. /\ memory[s] \in Int /\ since[s] \in Int /\ updates[s] \in Int
                  /\ from[s] \in Int /\ from[s] <= memory[s]
                  <4>1. memory[s] \in Int /\ since[s] \in Int /\ updates[s] \in Int
                        BY <1>4, <1>6, <2>3 DEF CoverInv, TimesTyped, Times
                  <4> QED BY <3>2, <4>1, HistoryAssumption
            <3>4. /\ Covered(feed[s], sampled[s], Interval, since[s], memory[s],
                             TimesIn(s, AllRows))
                  /\ Covered(feed[s], RunPoints(s), Interval, from[s], updates[s],
                             TimesIn(s, AllRows))
                  BY <1>1, <1>6, <2>3, <3>1, <3>2 DEF CoverInv, MemoryCovered, UpdatesCovered
            <3> QED BY <3>1, <3>3, <3>4, CoveredJoins
      <2> QED BY <2>1, <2>2, <2>3
<1>7. MemoryCovered'
      BY <1>1, <1>2, <1>6 DEF MemoryCovered
<1> QED BY <1>3, <1>5, <1>7 DEF CoverInv

(* The new file stands on what the run has sampled in addition.            *)
LEMMA ReplaceCovers ==
    ASSUME CheckpointInv, RowsInv, CoverInv, Replace,
           OnDisk \cup buffer \subseteq OnDisk' \cup buffer'
    PROVE  CoverInv'
<1>1. /\ pc' = "flush" /\ file' = temp
      /\ since' = [s \in Symbols |-> IF s \in Begun THEN from[s] ELSE since[s]]
      /\ sampled' = [s \in Symbols |->
             (IF s \in Begun THEN {} ELSE sampled[s]) \cup
                 IF s \in DOMAIN updates THEN RunPoints(s) ELSE {}]
      /\ UNCHANGED <<memory, updates, lost, feed, results, output, from, fresh, command, now>>
      BY DEF Replace, Rename, worldVars, argVars, jobVars, RunPoints
<1>2. pc = "save" /\ file' = Whole(memory)
      BY <1>1 DEF Replace, Rename, CheckpointInv, PersistOnlyWhileSaving, TempIsReady
<1>3. Saved' /\ file'.marks = memory
      BY <1>1, <1>2 DEF RowsInv, SavesUpdates, Saved, Whole
<1>4. \A s \in Symbols : /\ since'[s] = Base(s) /\ Base(s)' = since'[s]
                         /\ sampled'[s] = BasePoints(s) /\ BasePoints(s)' = sampled'[s]
                         /\ RunPoints(s)' = RunPoints(s) /\ Fetchable(s)' = Fetchable(s)
      BY <1>1, <1>2 DEF Base, BasePoints, RunPoints, Fetchable, RangeEnd
<1>5. \A s : TimesIn(s, AllRows) \subseteq TimesIn(s, AllRows') /\ SafeRows' = AllRows'
      <2>1. AllRows \subseteq AllRows' /\ SafeRows' = AllRows'
            BY <1>3 DEF AllRows, SafeRows
      <2> QED BY <2>1, MoreTimes
<1>6. ASSUME NEW s \in Symbols \ lost, memory[s] # Never
      PROVE  Covered(feed[s], sampled'[s], Interval, since'[s], memory[s], TimesIn(s, AllRows'))
      <2>1. Covered(feed[s], BasePoints(s), Interval, Base(s), memory[s], TimesIn(s, AllRows))
            BY <1>2, <1>6 DEF CoverInv, MemoryCovered
      <2> QED BY <1>4, <1>5, <2>1, CoveredGrows
<1>7. FileCovered' /\ MemoryCovered'
      BY <1>1, <1>3, <1>4, <1>5, <1>6 DEF FileCovered, MemoryCovered, TimesIn
<1>8. UpdatesCovered'
      <2> SUFFICES ASSUME output, NEW s \in Symbols, s \in DOMAIN updates
                   PROVE  Covered(feed[s], RunPoints(s), Interval, from[s], updates[s],
                                  TimesIn(s, AllRows'))
          BY <1>1, <1>4 DEF UpdatesCovered, TimesIn
      <2>1. Covered(feed[s], RunPoints(s), Interval, from[s], updates[s], TimesIn(s, AllRows))
            BY DEF CoverInv, UpdatesCovered
      <2> QED BY <1>5, <2>1, CoveredGrows
<1>9. Resumes' /\ ResultsAreHistory'
      BY <1>1, <1>4 DEF Resumes, CoverInv, ResultsAreHistory, RowsInv, ResultsReal
<1>10. TimesTyped'
      <2>1. \A s \in Symbols : RunPoints(s) \subseteq Int
            BY DEF RunPoints, Points
      <2>2. since' \in [Symbols -> Int] /\ sampled' \in [Symbols -> SUBSET Int]
            BY <1>1, <2>1 DEF CoverInv, TimesTyped
      <2> QED BY <1>1, <1>3, <2>2 DEF CoverInv, TimesTyped
<1> QED BY <1>7, <1>8, <1>9, <1>10 DEF CoverInv

(* A run that ends leaves the file and what it stands on.                  *)
LEMMA EndCovers ==
    ASSUME RowsInv, CoverInv, Finish \/ RunFails \/ Crash, OnDisk \subseteq OnDisk'
    PROVE  CoverInv'
<1>1. FileCovered'
      <2> SUFFICES ASSUME NEW s \in Symbols \ lost', file.marks[s] # Never
                   PROVE  Covered(feed[s], sampled[s], Interval, since[s], file.marks[s],
                                  TimesIn(s, SafeRows'))
          BY EndResets DEF FileCovered, TimesIn
      <2>1. s \in Symbols \ lost
            BY EndResets
      <2>2. Covered(feed[s], sampled[s], Interval, since[s], file.marks[s], TimesIn(s, SafeRows))
            BY <2>1 DEF CoverInv, FileCovered
      <2>3. ASSUME NEW t \in TimesIn(s, SafeRows) PROVE t \in TimesIn(s, SafeRows')
            <3>1. t \in Times /\ <<s, t>> \in OnDisk \cup (IF Saved THEN buffer ELSE {})
                  BY DEF TimesIn, SafeRows
            <3>2. <<s, t>> \in OnDisk'
                  BY <3>1, EndStores
            <3> QED BY <3>1, <3>2 DEF TimesIn, SafeRows
      <2> QED BY <2>2, <2>3, CoveredGrows
<1>2. DOMAIN None = {} /\ NoMarks \in Marks /\ 0 \in Int
      BY HistoryAssumption DEF None, NoMarks, Marks, Never
<1>3. TimesTyped'
      BY <1>2, EndResets DEF CoverInv, TimesTyped
<1> QED
    BY <1>1, <1>2, <1>3, EndResets DEF CoverInv, MemoryCovered, UpdatesCovered, Resumes,
       ResultsAreHistory

(* Every step keeps what lies behind the checkpoints covered.              *)
LEMMA CoverStep ==
    ASSUME CheckpointInv, OutputInv, RowsInv, CoverInv, Next PROVE CoverInv'
<1>1. OnDisk \subseteq OnDisk'
      BY OutputStep
<1>2. CASE Finish \/ RunFails \/ Crash
      BY <1>1, <1>2, EndCovers
<1> SUFFICES ASSUME ~(Finish \/ RunFails \/ Crash) PROVE CoverInv'
    BY <1>2
<1>3. OnDisk \cup buffer \subseteq OnDisk' \cup buffer'
      BY RowsMove
<1>4. CASE Tick
      <2>1. /\ pc = "off" /\ pc' = "off" /\ now' \in Times
            /\ UNCHANGED <<file, memory, updates, lost, feed, results, output, from, since,
                           sampled, fresh, command, buffer>>
            /\ OnDisk' = OnDisk
            BY <1>4, FetcherAssumption DEF Tick, storeVars, argVars, jobVars, histVars, sinkVars,
               OnDisk, Durable, Range
      <2>2. DOMAIN results' = {} /\ DOMAIN updates' = {} /\ results' = None
            BY <2>1 DEF CoverInv, ResultsAreHistory, RowsInv, UpdatesNamed, None
      <2>3. FileCovered'
            BY <2>1 DEF CoverInv, FileCovered, TimesIn, SafeRows, Saved
      <2> QED
            BY <2>1, <2>2, <2>3 DEF CoverInv, MemoryCovered, UpdatesCovered, Resumes,
               ResultsAreHistory, TimesTyped, Times
<1>5. CASE NoMoreRuns \/ AllFetched \/ Migrate \/ SpillRows \/ WritePart \/ Flush
           \/ NothingToSave
      <2>1. /\ UNCHANGED <<file, memory, updates, lost, feed, results, output, from, since,
                           sampled, fresh, command, now>>
            /\ \/ pc' = pc
               \/ pc = "open" /\ pc' = "fetch"
               \/ pc = "fetch" /\ pc' = "write"
               \/ pc = "write" /\ pc' = "flush"
            BY <1>5 DEF NoMoreRuns, AllFetched, Migrate, SpillRows, WritePart, Flush,
               NothingToSave, AllWritten, vars, storeVars, runVars, worldVars, argVars,
               jobVars, histVars
      <2> QED
            BY <1>1, <1>3, <2>1, CoverKept, ResultsAndTimesKept DEF CoverInv, Saved
<1>6. ASSUME NEW out \in BOOLEAN, StartBackfill(out) \/ StartUpdate(out)
      PROVE  CoverInv'
      BY <1>1, <1>6, StartBackfillCovers, StartUpdateCovers
<1>7. ASSUME NEW s \in Symbols, Fetched(s) \/ FetchFails(s) PROVE CoverInv'
      <2> DEFINE good == [ok |-> TRUE, times |-> Fetchable(s)]
                 bad  == [ok |-> FALSE, times |-> {}]
      <2>1. JobEnds(s, good) \/ JobEnds(s, bad)
            BY <1>7 DEF Fetched, FetchFails
      <2>2. good.times = Fetchable(s) /\ ~bad.ok
            OBVIOUS
      <2> HIDE DEF good, bad
      <2> QED BY <1>1, <1>3, <2>1, <2>2, JobEndCovers
<1>8. ASSUME NEW s \in Symbols, WorkerPanics(s) PROVE CoverInv'
      <2>1. /\ pc = "fetch" /\ pc' = "fetch"
            /\ UNCHANGED <<file, memory, updates, lost, feed, results, output, from, since,
                           sampled, fresh, command, now>>
            BY <1>8 DEF WorkerPanics, storeVars, worldVars, argVars, histVars
      <2> QED
            BY <1>1, <1>3, <2>1, CoverKept, ResultsAndTimesKept DEF CoverInv, Saved
<1>9. CASE WriteResult
      BY <1>1, <1>3, <1>9, WriteResultCovers
<1>10. CASE SaveCheckpoints
       BY <1>1, <1>3, <1>10, SaveCovers
<1>11. CASE PersistStep
       <2>1. /\ pc' = pc /\ file' \in {file, Absent}
             /\ UNCHANGED <<memory, updates, lost, feed, results, output, from, since, sampled,
                            fresh, command, now, buffer>>
             /\ OnDisk' = OnDisk
             BY <1>11 DEF PersistStep, CreateTemp, WriteTemp, Refused, Remove, runVars,
                worldVars, argVars, jobVars, histVars, sinkVars, OnDisk, Durable, Range
       <2>2. /\ \A s \in Symbols :
                    file'.marks[s] = Never \/ file'.marks[s] = file.marks[s]
             /\ SafeRows' = SafeRows /\ AllRows' = AllRows
             BY <2>1 DEF Absent, NoMarks, SafeRows, AllRows, Saved
       <2>3. FileCovered'
             BY <2>1, <2>2 DEF CoverInv, FileCovered, TimesIn
       <2>4. \A s \in Symbols : /\ Base(s)' = Base(s) /\ BasePoints(s)' = BasePoints(s)
                                /\ RunPoints(s)' = RunPoints(s) /\ Fetchable(s)' = Fetchable(s)
             BY <2>1 DEF Base, BasePoints, RunPoints, Fetchable, RangeEnd, Begun
       <2>5. MemoryCovered' /\ UpdatesCovered' /\ Resumes' /\ ResultsAreHistory'
             BY <2>1, <2>2, <2>4 DEF CoverInv, MemoryCovered, UpdatesCovered, Resumes, TimesIn,
                ResultsAreHistory, RowsInv, ResultsReal
       <2>6. Absent.marks \in Marks
             BY HistoryAssumption DEF Absent, NoMarks, Marks, Never
       <2>7. TimesTyped'
             BY <2>1, <2>6 DEF CoverInv, TimesTyped
       <2> QED BY <2>3, <2>5, <2>7 DEF CoverInv
<1>12. CASE Replace
       BY <1>3, <1>12, ReplaceCovers
<1> QED
    BY <1>4, <1>5, <1>6, <1>7, <1>8, <1>9, <1>10, <1>11, <1>12 DEF Next

(* The invariant is inductive, given the others.                           *)
LEMMA CoverNext ==
    CheckpointInv /\ OutputInv /\ RowsInv /\ CoverInv /\ [Next]_vars => CoverInv'
<1>1. ASSUME CoverInv, UNCHANGED vars PROVE CoverInv'
      <2>1. /\ UNCHANGED <<file, memory, updates, lost, feed, results, output, from,
                           since, sampled, fresh, command, now, pc>>
            /\ OnDisk' = OnDisk /\ buffer' = buffer
            BY <1>1 DEF vars, storeVars, sinkVars, runVars, worldVars, argVars,
               jobVars, histVars, OnDisk, Durable, Range
      <2> QED
            BY <1>1, <2>1, CoverKept, ResultsAndTimesKept DEF CoverInv, Saved
<1> QED BY <1>1, CoverStep

(* run_backfill and run_update: however many runs fail, die, are left out  *)
(* or migrate an older file in between, from the start of the range that   *)
(* set a checkpoint up to the checkpoint no interval went by without a     *)
(* sample, and each sample that its own hour had a tick for has that tick  *)
(* in the output, unless a run that saved its checkpoints did not get to   *)
(* flush.  A tick that only a later hour's carried-over row stands for is  *)
(* not claimed: the range query passes over it.                            *)
THEOREM CheckpointsCover == Spec => []CheckpointCovered
<1>1. CoverInv => CheckpointCovered
      <2> SUFFICES ASSUME CoverInv, NEW s \in Symbols \ lost, file.marks[s] # Never
                   PROVE  Covered(feed[s], sampled[s], Interval, since[s], file.marks[s],
                                  TimesGiven(s))
          BY DEF CheckpointCovered
      <2>1. TimesIn(s, SafeRows) \subseteq TimesGiven(s)
            BY DEF TimesIn, SafeRows, TimesGiven
      <2>2. Covered(feed[s], sampled[s], Interval, since[s], file.marks[s], TimesIn(s, SafeRows))
            BY DEF CoverInv, FileCovered
      <2> QED BY <2>1, <2>2, CoveredGrows
<1> QED
    BY InvInit, InvNext, OutputInit, OutputNext, RowsInit, RowsNext, CoverInit, CoverNext, <1>1,
       PTL DEF Spec

-----------------------------------------------------------------------------
(* Types: the store, the sink and the run, each by its own steps.          *)
SinkTypes ==
    /\ format \in Formats
    /\ csvFile \subseteq Rows /\ buffer \subseteq Rows
    /\ Range(parts) \subseteq SUBSET Rows
    /\ nextPart \in Nat
    /\ writing \in [step : {"none", "create", "close"}, part : Nat]
    /\ legacy \in {"none", "path", "aside"}

RunTypes ==
    /\ feed \in Feeds
    /\ now \in Times /\ runs \in 0..MaxRuns
    /\ pc \in {"off", "open", "fetch", "write", "save", "flush"}
    /\ command \in {"update", "backfill"} /\ output \in BOOLEAN
    /\ pending \subseteq Symbols /\ DOMAIN results \subseteq Symbols \ pending
    /\ Range(results) \subseteq [ok : BOOLEAN, times : SUBSET Times]
    /\ DOMAIN updates \subseteq Symbols
    /\ fresh \subseteq Symbols /\ lost \subseteq Symbols

RunInv == CheckpointInv /\ OutputInv /\ RowsInv /\ CoverInv

(* A map with one more value of a set has values of that set.              *)
LEMMA WithTyped ==
    ASSUME NEW f, NEW k, NEW S, NEW v \in S, Range(f) \subseteq S
    PROVE  DOMAIN With(f, k, v) = DOMAIN f \cup {k} /\ Range(With(f, k, v)) \subseteq S
<1> DEFINE g == With(f, k, v)
<1>1. /\ DOMAIN g = DOMAIN f \cup {k} /\ g[k] = v
      /\ \A x \in DOMAIN f \ {k} : g[x] = f[x]
      BY DEF With
<1> HIDE DEF g
<1>2. \A x \in DOMAIN g : g[x] \in S
      BY <1>1 DEF Range
<1>3. Range(g) \subseteq S
      BY <1>2 DEF Range
<1> QED BY <1>1, <1>3 DEF g

LEMMA StoreStep ==
    ASSUME StoreTypeOK, CheckpointInv, memory' \in Marks, Next
    PROVE  StoreTypeOK'
<1> DEFINE Contents == {Absent, Torn} \cup {Whole(m) : m \in Marks}
<1>1. /\ file \in Contents /\ temp \in Contents /\ memory \in Marks
      /\ persist \in {"idle", "create", "write", "rename", "remove", "retry"}
      BY DEF StoreTypeOK
<1>2. Absent \in Contents /\ Torn \in Contents /\ Whole(memory) \in Contents
      BY <1>1
<1>3. /\ file' \in {file, temp, Absent} /\ temp' \in {temp, Torn, Absent, Whole(memory)}
      /\ persist' \in {"idle", "create", "write", "rename", "remove", "retry"}
      <2>1. CASE UNCHANGED <<file, temp, persist>>
            BY <1>1, <2>1
      <2>2. CASE SaveCheckpoints
            BY <2>2 DEF SaveCheckpoints, SetMany
      <2>3. CASE PersistStep
            BY <2>3 DEF PersistStep, CreateTemp, WriteTemp, Refused, Remove
      <2>4. CASE Replace
            BY <2>4 DEF Replace, Rename
      <2>5. CASE Finish \/ RunFails \/ Crash
            BY <2>5 DEF Finish, RunFails, Crash, ProcessEnds, LeaveStore
      <2>6. CASE ~(\/ SaveCheckpoints \/ PersistStep \/ Replace
                   \/ Finish \/ RunFails \/ Crash)
            <3>1. UNCHANGED <<file, temp, persist>>
                  BY <2>6 DEF Next, Tick, StartBackfill, StartUpdate, Start, OpenStore,
                     Fetched, FetchFails, JobEnds, WorkerPanics, Migrate, AllFetched,
                     WriteResult, SpillRows, WritePart, NothingToSave, Flush, NoMoreRuns,
                     vars, storeVars
            <3> QED BY <2>1, <3>1
      <2> QED BY <2>2, <2>3, <2>4, <2>5, <2>6
<1> HIDE DEF Contents
<1>4. file' \in Contents /\ temp' \in Contents
      BY <1>1, <1>2, <1>3
<1> QED BY <1>3, <1>4 DEF StoreTypeOK, Contents

LEMMA SinkStep ==
    ASSUME SinkTypes, RunInv, Next
    PROVE  SinkTypes'
<1>1. ASSUME UNCHANGED sinkVars PROVE SinkTypes'
      BY <1>1 DEF sinkVars, SinkTypes, Rows, Range
<1>2. ASSUME NEW cmd, NEW out, NEW starts, NEW jobs, Start(cmd, out, starts, jobs)
      PROVE  SinkTypes'
      <2>1. CASE OpenSink
            <3>1. PICK n \in Nat : DOMAIN parts = 0..(n - 1)
                  BY DEF RunInv, OutputInv, PartsInSequence
            <3>2. NextIndex \in Nat
                  BY <3>1, NextIndexOfParts
            <3>3. /\ nextPart' \in Nat
                  /\ UNCHANGED <<format, csvFile, parts, buffer, legacy, writing>>
                  BY <2>1, <3>2 DEF OpenSink
            <3> QED BY <3>3 DEF SinkTypes, Rows, Range
      <2> QED BY <1>1, <1>2, <2>1 DEF Start
<1>3. CASE Migrate
      <2>1. CASE SetAside
            BY <2>1 DEF SetAside, SinkTypes, Rows, Range
      <2>2. CASE MoveIn
            <3>1. DOMAIN parts = {}
                  BY <1>3 DEF Migrate, RunInv, OutputInv, MigratesFirst
            <3>2. LegacyRows \in SUBSET Rows
                  BY FetcherAssumption DEF Rows
            <3>3. /\ DOMAIN parts' = DOMAIN parts \cup {0}
                  /\ Range(parts') \subseteq SUBSET Rows
                  BY <2>2, <3>2, WithTyped DEF MoveIn, SinkTypes
            <3>4. DOMAIN parts' = 0..(1 - 1)
                  BY <3>1, <3>3
            <3>5. Max(0..(1 - 1)) = 0
                  BY MaxOfParts, 1 \in Nat \ {0}, 1 - 1 = 0
            <3>6. nextPart' = 1
                  BY <2>2, <3>4, <3>5 DEF MoveIn
            <3>7. UNCHANGED <<format, csvFile, buffer, writing>> /\ legacy' = "none"
                  BY <2>2 DEF MoveIn
            <3> QED BY <3>3, <3>6, <3>7 DEF SinkTypes, Rows
      <2> QED BY <1>3, <2>1, <2>2 DEF Migrate
<1>4. CASE WriteResult
      <2>1. ASSUME NEW rows, rows \subseteq Rows, WriteBatch(rows) PROVE SinkTypes'
            <3>1. /\ buffer' = buffer \cup rows
                  /\ writing' \in [step : {"none", "create", "close"}, part : Nat]
                  /\ UNCHANGED <<format, csvFile, parts, nextPart, legacy>>
                  BY <2>1 DEF WriteBatch, NotWriting
            <3> QED BY <2>1, <3>1 DEF SinkTypes, Rows, Range
      <2> DEFINE s == Min(DOMAIN results)
      <2>2. DOMAIN results \subseteq Nat /\ DOMAIN results # {}
            BY <1>4, CheckpointAssumption DEF WriteResult, RunInv, RowsInv, ResultsReal
      <2>3. s \in DOMAIN results
            BY <2>2, MinOf
      <2>4. s \in Symbols /\ results[s].times \subseteq Times
            BY <2>3 DEF RunInv, RowsInv, ResultsReal
      <2>5. Row(s, results[s].times) \subseteq Rows
            BY <2>4 DEF Row, Rows
      <2>6. WriteBatch(Row(s, results[s].times)) \/ UNCHANGED sinkVars
            BY <1>4 DEF WriteResult
      <2> QED BY <1>1, <2>1, <2>5, <2>6
<1>5. CASE SpillRows
      <2>1. PICK rows \in SUBSET buffer : Spill(rows)
            BY <1>5 DEF SpillRows
      <2>2. /\ csvFile' = csvFile \cup rows /\ buffer' = buffer \ rows
            /\ UNCHANGED <<format, parts, nextPart, legacy, writing>>
            BY <2>1 DEF Spill
      <2> QED BY <2>2 DEF SinkTypes, Rows, Range
<1>6. CASE WritePart
      <2>1. CASE CreatePart
            <3>1. SinkOpen
                  BY <2>1 DEF CreatePart, RunInv, OutputInv, WritesNewPart, NotWriting
            <3>2. PICK n \in Nat : DOMAIN parts = 0..(n - 1) /\ nextPart = n
                  BY <3>1 DEF RunInv, OutputInv, PartsInSequence
            <3>3. PartPath \in Nat
                  BY <3>2, PartPathIsNext
            <3>4. /\ nextPart' \in Nat /\ UNCHANGED <<format, csvFile, buffer, legacy>>
                  /\ writing' \in [step : {"none", "create", "close"}, part : Nat]
                  BY <2>1, <3>3 DEF CreatePart
            <3>5. Range(parts') \subseteq SUBSET Rows
                  BY <2>1, WithTyped DEF CreatePart, SinkTypes
            <3> QED BY <3>4, <3>5 DEF SinkTypes, Rows
      <2>2. CASE ClosePart
            <3>1. Range(parts') \subseteq SUBSET Rows
                  BY <2>2, WithTyped DEF ClosePart, SinkTypes
            <3>2. /\ UNCHANGED <<format, csvFile, nextPart, legacy>> /\ buffer' = {}
                  /\ writing' \in [step : {"none", "create", "close"}, part : Nat]
                  BY <2>2 DEF ClosePart, NotWriting
            <3> QED BY <3>1, <3>2 DEF SinkTypes, Rows
      <2> QED BY <1>6, <2>1, <2>2 DEF WritePart
<1>7. CASE Flush
      <2>1. /\ UNCHANGED <<format, csvFile, parts, nextPart, buffer, legacy>>
            /\ writing' \in [step : {"none", "create", "close"}, part : Nat]
            BY <1>7 DEF Flush, StartFlush
      <2> QED BY <2>1 DEF SinkTypes, Rows, Range
<1>8. CASE Finish \/ RunFails \/ Crash
      <2>1. PICK kept \in SUBSET buffer :
                /\ csvFile' = csvFile \cup kept /\ buffer' = {} /\ nextPart' = 0
                /\ UNCHANGED <<format, parts, legacy>>
                /\ writing' \in {writing, NotWriting}
            BY <1>8 DEF Finish, RunFails, Crash, Flushed, DropSink
      <2>2. writing' \in [step : {"none", "create", "close"}, part : Nat]
            BY <2>1 DEF SinkTypes, NotWriting
      <2> QED BY <2>1, <2>2 DEF SinkTypes, Rows, Range
<1>9. CASE ~(\/ \E out \in BOOLEAN : StartBackfill(out) \/ StartUpdate(out)
             \/ Migrate \/ WriteResult \/ SpillRows \/ WritePart \/ Flush
             \/ Finish \/ RunFails \/ Crash)
      <2>1. UNCHANGED sinkVars
            BY <1>9 DEF Next, Tick, Fetched, FetchFails, JobEnds, WorkerPanics, AllFetched,
               SaveCheckpoints, NothingToSave, PersistStep, Replace, NoMoreRuns, vars
      <2> QED BY <1>1, <2>1
<1> QED
    BY <1>2, <1>3, <1>4, <1>5, <1>6, <1>7, <1>8, <1>9 DEF StartBackfill, StartUpdate

(* What a job that ended gave, taken in turn from the others.              *)
LEMMA ResultsTyped ==
    ASSUME RunTypes, NEW s \in pending, NEW r \in [ok : BOOLEAN, times : SUBSET Times],
           results' = With(results, s, r), pending' = pending \ {s}
    PROVE  /\ DOMAIN results' \subseteq Symbols \ pending'
           /\ Range(results') \subseteq [ok : BOOLEAN, times : SUBSET Times]
           /\ pending' \subseteq Symbols
<1> DEFINE ResultSet == [ok : BOOLEAN, times : SUBSET Times]
<1>0. r \in ResultSet /\ Range(results) \subseteq ResultSet
      BY DEF RunTypes
<1> HIDE DEF ResultSet
<1>1. DOMAIN results' = DOMAIN results \cup {s} /\ Range(results') \subseteq ResultSet
      <2>1. /\ DOMAIN With(results, s, r) = DOMAIN results \cup {s}
            /\ Range(With(results, s, r)) \subseteq ResultSet
            BY <1>0, WithTyped
      <2> QED BY <2>1 DEF Range
<1>2. s \in Symbols /\ DOMAIN results \subseteq Symbols \ pending /\ pending \subseteq Symbols
      BY DEF RunTypes
<1> QED BY <1>1, <1>2 DEF ResultSet

LEMMA RunStep ==
    ASSUME SinkTypes, RunTypes, RunInv, Next
    PROVE  RunTypes'
<1> DEFINE ResultSet == [ok : BOOLEAN, times : SUBSET Times]
<1>1. CASE Tick
      <2>1. now' \in Times
            BY <1>1, FetcherAssumption DEF Tick
      <2> QED BY <1>1, <2>1 DEF Tick, RunTypes, argVars, jobVars, histVars, Range
<1>2. ASSUME NEW out \in BOOLEAN, NEW cmd \in {"update", "backfill"}, NEW starts,
             NEW jobs, jobs \subseteq Symbols, Start(cmd, out, starts, jobs)
      PROVE  RunTypes'
      <2>1. results = None /\ DOMAIN None = {} /\ Range(None) = {}
            BY <1>2 DEF Start, RunInv, CoverInv, ResultsAreHistory, None, Range
      <2>2. runs' \in 0..MaxRuns
            BY <1>2, FetcherAssumption DEF Start, RunTypes
      <2>3. /\ UNCHANGED <<feed, now, results, updates, lost>>
            /\ pc' \in {"open", "fetch"} /\ command' = cmd /\ output' = out
            /\ pending' = jobs /\ fresh' \subseteq Symbols
            BY <1>2 DEF Start
      <2> QED BY <1>2, <2>1, <2>2, <2>3 DEF RunTypes
<1>3. ASSUME NEW out \in BOOLEAN, StartBackfill(out) \/ StartUpdate(out)
      PROVE  RunTypes'
      <2>1. CASE StartBackfill(out)
            BY <1>2, <2>1 DEF StartBackfill
      <2>2. CASE StartUpdate(out)
            <3> DEFINE starts == [s \in Symbols |-> UpdateStart(file.marks[s])]
                       jobs   == {s \in Symbols : starts[s] < LastAvailable(now)}
            <3>1. jobs \subseteq Symbols /\ Start("update", out, starts, jobs)
                  BY <2>2 DEF StartUpdate
            <3> HIDE DEF starts, jobs
            <3> QED BY <1>2, <3>1
      <2> QED BY <1>3, <2>1, <2>2
<1>4. ASSUME NEW s \in Symbols, NEW r \in ResultSet, JobEnds(s, r)
      PROVE  RunTypes'
      <2>1. /\ s \in pending /\ pending' = pending \ {s} /\ results' = With(results, s, r)
            /\ UNCHANGED <<feed, now, runs, pc, command, output, updates, fresh, lost>>
            BY <1>4 DEF JobEnds, worldVars, argVars, histVars
      <2>2. /\ DOMAIN results' \subseteq Symbols \ pending'
            /\ Range(results') \subseteq ResultSet /\ pending' \subseteq Symbols
            BY <1>4, <2>1, ResultsTyped
      <2> QED BY <2>1, <2>2 DEF RunTypes
<1>5. ASSUME NEW s \in Symbols, Fetched(s) \/ FetchFails(s)
      PROVE  RunTypes'
      <2> DEFINE good == [ok |-> TRUE, times |-> Fetchable(s)]
                 bad  == [ok |-> FALSE, times |-> {}]
      <2>1. feed[s] \subseteq Times
            BY FetcherAssumption DEF RunTypes, Times
      <2>2. good \in ResultSet /\ bad \in ResultSet
            BY <2>1, FetchableIsTimes
      <2>3. JobEnds(s, good) \/ JobEnds(s, bad)
            BY <1>5 DEF Fetched, FetchFails
      <2> HIDE DEF good, bad
      <2> QED BY <1>4, <2>2, <2>3
<1>6. ASSUME NEW s \in Symbols, WorkerPanics(s) PROVE RunTypes'
      BY <1>6 DEF WorkerPanics, RunTypes, worldVars, argVars, histVars, Range
<1>7. CASE WriteResult
      <2> DEFINE s == Min(DOMAIN results)
                 got == results[s].times
                 rest == Restrict(results, DOMAIN results \ {s})
      <2>1. DOMAIN results \subseteq Nat /\ DOMAIN results # {}
            BY <1>7, CheckpointAssumption DEF WriteResult, RunTypes
      <2>2. s \in DOMAIN results /\ s \in Symbols
            BY <2>1, MinOf DEF RunTypes
      <2>3. got \subseteq Times
            BY <2>2 DEF RunInv, RowsInv, ResultsReal
      <2>4. DOMAIN rest \subseteq DOMAIN results /\ Range(rest) \subseteq Range(results)
            BY DEF Restrict, Range
      <2>5. /\ updates' = IF got # {} THEN With(updates, s, Max(got)) ELSE updates
            /\ results' = rest
            /\ UNCHANGED <<feed, now, runs, pc, command, output, pending, fresh, lost>>
            BY <1>7 DEF WriteResult, worldVars, argVars, histVars
      <2>6. DOMAIN updates' \subseteq Symbols
            BY <2>2, <2>5 DEF With, RunTypes
      <2> HIDE DEF rest
      <2> QED BY <2>4, <2>5, <2>6 DEF RunTypes
<1>8. CASE Finish \/ RunFails \/ Crash
      <2>1. PICK kept : ProcessEnds(kept)
            BY <1>8 DEF Finish, RunFails, Crash
      <2>2. SymbolsOf(buffer \ (kept \cup Durable)) \subseteq Symbols
            BY DEF SymbolsOf, SinkTypes, Rows
      <2>3. lost' \subseteq Symbols
            BY <2>1, <2>2 DEF ProcessEnds, RunTypes
      <2>4. DOMAIN None = {} /\ Range(None) = {}
            BY DEF None, Range
      <2>5. /\ pc' = "off" /\ pending' = {} /\ results' = None /\ updates' = None
            /\ command' = "update" /\ output' = FALSE /\ fresh' = {}
            /\ UNCHANGED <<feed, now, runs>>
            BY <2>1 DEF ProcessEnds, worldVars
      <2> QED BY <2>3, <2>4, <2>5 DEF RunTypes
<1>9. CASE Migrate \/ AllFetched \/ SpillRows \/ WritePart \/ SaveCheckpoints
           \/ NothingToSave \/ PersistStep \/ Replace \/ Flush \/ NoMoreRuns
      <2>1. /\ pc' \in {pc, "fetch", "write", "save", "flush"}
            /\ UNCHANGED <<feed, now, runs, command, output, pending, results, updates,
                           fresh, lost>>
            BY <1>9 DEF Migrate, AllFetched, SpillRows, WritePart, SaveCheckpoints,
               NothingToSave, PersistStep, Replace, Flush, NoMoreRuns, vars, runVars,
               worldVars, argVars, jobVars, histVars
      <2> QED BY <2>1 DEF RunTypes, Range
<1> QED
    BY <1>1, <1>3, <1>5, <1>6, <1>7, <1>8, <1>9 DEF Next

(* The type invariant of the runs, the store and the sink: no result but   *)
(* of a job that has ended, no row, mark or update but of a known symbol   *)
(* and time.                                                               *)
THEOREM TypesCorrect == Spec => []TypeOK
<1>1. RunInv /\ RunInv' /\ StoreTypeOK /\ SinkTypes /\ RunTypes /\ [Next]_vars
          => StoreTypeOK' /\ SinkTypes' /\ RunTypes'
      <2> SUFFICES ASSUME RunInv, RunInv', StoreTypeOK, SinkTypes, RunTypes, [Next]_vars
                   PROVE  StoreTypeOK' /\ SinkTypes' /\ RunTypes'
          OBVIOUS
      <2>1. CASE Next
            <3>1. StoreTypeOK'
                  BY <2>1, StoreStep DEF RunInv, CoverInv, TimesTyped
            <3> QED BY <2>1, <3>1, SinkStep, RunStep
      <2>2. CASE UNCHANGED vars
            BY <2>2 DEF vars, storeVars, sinkVars, runVars, worldVars, argVars, jobVars,
               histVars, StoreTypeOK, SinkTypes, RunTypes, Rows, Range, Whole
      <2> QED BY <2>1, <2>2
<1>2. Init => StoreTypeOK /\ SinkTypes /\ RunTypes
      <2> SUFFICES ASSUME Init PROVE StoreTypeOK /\ SinkTypes /\ RunTypes
          OBVIOUS
      <2>1. DOMAIN None = {} /\ Range(None) = {} /\ None = <<>>
            BY DEF None, Range
      <2>2. file.marks \in Marks /\ memory \in Marks
            BY CoverInit DEF CoverInv, TimesTyped
      <2>3. file = Absent \/ file = Whole(file.marks)
            BY DEF Init, StoreInit, Whole
      <2>4. StoreTypeOK
            BY <2>2, <2>3 DEF Init, StoreInit, StoreTypeOK
      <2>5. SinkTypes
            BY <2>1 DEF Init, SinkInit, SinkTypes, NotWriting
      <2>6. now \in Times /\ 0 \in 0..MaxRuns
            BY FetcherAssumption DEF Init
      <2>7. RunTypes
            BY <2>1, <2>6 DEF Init, RunTypes
      <2> QED BY <2>4, <2>5, <2>7
<1>3. RunInv /\ StoreTypeOK /\ SinkTypes /\ RunTypes => TypeOK
      <2> SUFFICES ASSUME RunInv, StoreTypeOK, SinkTypes, RunTypes PROVE TypeOK
          OBVIOUS
      <2>1. DOMAIN parts \subseteq Nat
            BY DEF RunInv, OutputInv, PartsInSequence
      <2>2. /\ from \in [Symbols -> Int] /\ since \in [Symbols -> Int]
            /\ sampled \in [Symbols -> SUBSET Int]
            BY DEF RunInv, CoverInv, TimesTyped
      <2>3. Range(updates) \subseteq Times
            BY DEF RunInv, CoverInv, TimesTyped, Range
      <2> QED BY <2>1, <2>2, <2>3 DEF TypeOK, SinkTypes, RunTypes
<1>4. Init => RunInv
      BY InvInit, OutputInit, RowsInit, CoverInit DEF RunInv
<1>5. RunInv /\ [Next]_vars => RunInv'
      <2> SUFFICES ASSUME RunInv, [Next]_vars PROVE RunInv'
          OBVIOUS
      <2>1. CheckpointInv' /\ OutputInv' /\ RowsInv'
            BY InvNext, OutputNext, RowsNext DEF RunInv
      <2>2. CoverInv'
            BY CoverNext DEF RunInv
      <2> QED BY <2>1, <2>2 DEF RunInv
<1> QED
    BY <1>1, <1>2, <1>3, <1>4, <1>5, PTL DEF Spec
=============================================================================
