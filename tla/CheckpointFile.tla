--------------------------- MODULE CheckpointFile ---------------------------
(***************************************************************************)
(* FileCheckpointStore: the checkpoint of every symbol, held in memory and *)
(* kept in a file that is replaced as a whole by each set_many.  The steps *)
(* of a replacement are those between which the process may die; the mutex *)
(* held throughout keeps other callers out.                                *)
(***************************************************************************)
EXTENDS TickHistory

CONSTANT Symbols  \* the checkpoint keys, in their sort order

ASSUME CheckpointAssumption == Symbols \subseteq Nat

VARIABLES file,     \* what is at the store's path
          temp,     \* what is at the path with extension tmp
          memory,   \* CheckpointState::checkpoints of the open store
          persist   \* the step of persist that comes next

storeVars == <<file, temp, memory, persist>>

NoMarks  == [s \in Symbols |-> Never]
Marks    == [Symbols -> 0..MaxTime]
Absent   == [kind |-> "absent", marks |-> NoMarks]
Torn     == [kind |-> "torn", marks |-> NoMarks]
Whole(m) == [kind |-> "whole", marks |-> m]

StoreTypeOK ==
    /\ {file, temp} \subseteq {Absent, Torn} \cup {Whole(m) : m \in Marks}
    /\ memory \in Marks
    /\ persist \in {"idle", "create", "write", "rename", "remove", "retry"}

(* The store as a user has it: the file is absent or holds checkpoints.    *)
StoreInit(f) ==
    /\ file = f
    /\ temp = Absent
    /\ memory = NoMarks
    /\ persist = "idle"

(* A store that is missing opens empty, one that does not parse not at all. *)
OpenStore ==
    /\ persist = "idle"
    /\ file.kind # "torn"
    /\ memory' = file.marks
    /\ UNCHANGED <<file, temp, persist>>

(* Memory is updated first, and stays so if the file is not.               *)
SetMany(updates) ==
    /\ persist = "idle"
    /\ memory' = [s \in Symbols |-> IF s \in DOMAIN updates THEN updates[s] ELSE memory[s]]
    /\ persist' = "create"
    /\ UNCHANGED <<file, temp>>

(* Mutant of CreateTemp: the file is written in place.                     *)
CreateInPlace ==
    /\ persist = "create"
    /\ file' = Torn
    /\ persist' = "write"
    /\ UNCHANGED <<temp, memory>>

(* fs::write creates, or empties, the temporary file and then fills it.    *)
CreateTemp ==
    /\ persist = "create"
    /\ temp' = Torn
    /\ persist' = "write"
    /\ UNCHANGED <<file, memory>>

WriteTemp ==
    /\ persist = "write"
    /\ temp' = Whole(memory)
    /\ persist' = "rename"
    /\ UNCHANGED <<file, memory>>

(* Mutant of Rename: a name that was removed first is not written again.   *)
RenameOnce ==
    /\ persist \in {"rename", "retry"}
    /\ file' = IF persist = "retry" THEN file ELSE temp
    /\ temp' = Absent
    /\ persist' = "idle"
    /\ UNCHANGED memory

(* The file is replaced in one step, and set_many returns Ok.              *)
Rename ==
    /\ persist \in {"rename", "retry"}
    /\ file' = temp
    /\ temp' = Absent
    /\ persist' = "idle"
    /\ UNCHANGED memory

(* Renaming over a file that exists may fail: that file is then removed.   *)
Refused ==
    /\ persist = "rename"
    /\ file # Absent
    /\ persist' = "remove"
    /\ UNCHANGED <<file, temp, memory>>

Remove ==
    /\ persist = "remove"
    /\ file' = Absent
    /\ persist' = "retry"
    /\ UNCHANGED <<temp, memory>>

(* Every other failure of a step of persist is an error of set_many.       *)
PersistMayFail == persist # "idle" /\ ~(persist = "rename" /\ file # Absent)

(* The process ends: what is on disk stays.                                *)
LeaveStore ==
    /\ memory' = NoMarks
    /\ persist' = "idle"
    /\ UNCHANGED <<file, temp>>
=============================================================================
