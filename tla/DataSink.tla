------------------------------ MODULE DataSink ------------------------------
(***************************************************************************)
(* The sinks of the fetcher.  CsvSink appends to one file through the      *)
(* buffer of csv::Writer, which is written out whenever it is full and     *)
(* when the writer is dropped.  ParquetSink gathers rows in memory and     *)
(* writes them as a new part of the dataset directory; a file that an      *)
(* earlier release left at the path of the directory becomes its first     *)
(* part, by way of a file set aside.                                       *)
(***************************************************************************)
EXTENDS Naturals, FiniteSetsExt, Functions

CONSTANTS Formats,     \* the formats an output path may have
          LegacyRows,  \* the rows of a file of an earlier release
          FlushRows    \* flush_rows_threshold

ASSUME SinkAssumption == Formats \subseteq {"csv", "parquet"} /\ FlushRows \in Nat \ {0}

VARIABLES format,    \* what the output path ends in
          csvFile,   \* the rows in the CSV file
          parts,     \* the parts of the dataset: an incomplete one has no rows
          nextPart,  \* next_part_index
          buffer,    \* the rows held by the open sink
          legacy,    \* where that file is: "none", at the "path", or "aside"
          writing    \* whether a flush is under way, and the part it writes

sinkVars == <<format, csvFile, parts, nextPart, buffer, legacy, writing>>

NotWriting == [step |-> "none", part |-> 0]

SinkInit ==
    /\ format \in Formats
    /\ csvFile = {}
    /\ parts = <<>>
    /\ nextPart = 0
    /\ buffer = {}
    /\ legacy \in {"none"} \cup IF format = "parquet" THEN {"path"} ELSE {}
    /\ writing = NotWriting

(* The rows a reader of the output finds.                                  *)
Durable == csvFile \cup (UNION Range(parts)) \cup (IF legacy = "path" THEN LegacyRows ELSE {})

(* The rows that are on disk, in the output or set aside.                  *)
OnDisk == Durable \cup (IF legacy = "aside" THEN LegacyRows ELSE {})

(* A map with a key set, one that is new or one that is there.             *)
With(f, key, value) ==
    [k \in DOMAIN f \cup {key} |-> IF k = key THEN value ELSE f[k]]

(* detect_next_part_index                                                  *)
NextIndex == IF DOMAIN parts = {} THEN 0 ELSE Max(DOMAIN parts) + 1

OpenSink ==
    /\ legacy # "path"
    /\ nextPart' = IF format = "parquet" THEN NextIndex ELSE 0
    /\ UNCHANGED <<format, csvFile, parts, buffer, legacy, writing>>

(* migrate_legacy_file_to_dataset: the file gets the name .legacy, the     *)
(* directory is made at its path, and the file becomes part 0.             *)
SetAside ==
    /\ legacy = "path"
    /\ legacy' = "aside"
    /\ UNCHANGED <<format, csvFile, parts, nextPart, buffer, writing>>

MoveIn ==
    /\ legacy = "aside"
    /\ legacy' = "none"
    /\ parts' = With(parts, 0, LegacyRows)
    /\ nextPart' = Max(DOMAIN parts') + 1
    /\ UNCHANGED <<format, csvFile, buffer, writing>>

(* A parquet batch that reaches the threshold is flushed at once.          *)
WriteBatch(rows) ==
    /\ writing = NotWriting
    /\ buffer' = buffer \cup rows
    /\ writing' = IF format = "parquet" /\ Cardinality(buffer') >= FlushRows
                    THEN [step |-> "create", part |-> 0] ELSE NotWriting
    /\ UNCHANGED <<format, csvFile, parts, nextPart, legacy>>

(* csv::Writer writes its buffer out when it is full, in the midst of a    *)
(* batch too.                                                              *)
Spill(rows) ==
    /\ format = "csv"
    /\ csvFile' = csvFile \cup rows
    /\ buffer' = buffer \ rows
    /\ UNCHANGED <<format, parts, nextPart, legacy, writing>>

StartFlush ==
    /\ writing = NotWriting
    /\ format = "parquet"
    /\ buffer # {}
    /\ writing' = [step |-> "create", part |-> 0]
    /\ UNCHANGED <<format, csvFile, parts, nextPart, buffer, legacy>>

(* Mutant of PartPath: the dataset is a single part.                       *)
FirstPart == 0

(* next_part_path: the next index that is not taken.                       *)
PartPath == CHOOSE n \in nextPart..(nextPart + Cardinality(DOMAIN parts)) :
                /\ n \notin DOMAIN parts
                /\ \A k \in nextPart..(n - 1) : k \in DOMAIN parts

CreatePart ==
    /\ writing.step = "create"
    /\ parts' = With(parts, PartPath, {})
    /\ nextPart' = PartPath + 1
    /\ writing' = [step |-> "close", part |-> PartPath]
    /\ UNCHANGED <<format, csvFile, buffer, legacy>>

ClosePart ==
    /\ writing.step = "close"
    /\ parts' = With(parts, writing.part, buffer)
    /\ buffer' = {}
    /\ writing' = NotWriting
    /\ UNCHANGED <<format, csvFile, nextPart, legacy>>

(* A CSV file whose buffer is written out, a dataset with no row to add;   *)
(* the sink is dropped after that.                                         *)
Flushed ==
    /\ writing = NotWriting
    /\ format = "parquet" => buffer = {}
    /\ csvFile' = csvFile \cup buffer
    /\ buffer' = {}
    /\ nextPart' = 0
    /\ UNCHANGED <<format, parts, legacy, writing>>

(* The sink is dropped with these of its rows written out.                 *)
DropSink(kept) ==
    /\ csvFile' = csvFile \cup kept
    /\ buffer' = {}
    /\ nextPart' = 0
    /\ writing' = NotWriting
    /\ UNCHANGED <<format, parts, legacy>>
=============================================================================
