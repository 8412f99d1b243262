------------------------------- MODULE ClomDB -------------------------------
(***************************************************************************)
(* The storage engine of ClomDB: one database directory, at most one DB    *)
(* object on it, and the process that may crash at any point.              *)
(*                                                                         *)
(* All of DB's work is done under one mutex, so at most one operation is   *)
(* under way; pc is its next step and op the operation. A step ends where  *)
(* a crash or an I/O error can tell the states before and after it apart:  *)
(* every step changes the disk in one place. Each I/O call either succeeds *)
(* or makes the caller take its error return. A crash is a process crash:  *)
(* what was handed to the operating system survives it.                    *)
(***************************************************************************)
EXTENDS LsmTree, Sequences

CONSTANTS
    Batches,               \* the write batches clients submit, as their net effect
    BatchBytes,            \* the key and value bytes of each batch
    Torn,                  \* in the log: part of a record
    MemtableFlushBytes,    \* Options::memtable_flush_bytes
    L0CompactionTrigger,   \* Options::l0_compaction_trigger
    Level1TargetBytes,     \* Options::level1_target_bytes
    LevelSizeMultiplier,   \* Options::level_size_multiplier
    BackgroundCompaction,  \* Options::background_compaction
    DbPaths,               \* the spellings of db_path given to Open: how many "/" it ends with
    MaxWal                 \* bound: the number of records the log can hold

ASSUME EngineAssumption ==
    /\ Batches \subseteq Table \ {EmptyTable}
    /\ BatchBytes \in [Batches -> Nat]
    /\ Torn \notin Batches
    /\ MemtableFlushBytes \in Nat
    /\ L0CompactionTrigger \in Int
    /\ Level1TargetBytes \in Nat
    /\ LevelSizeMultiplier \in Int
    /\ BackgroundCompaction \in BOOLEAN
    /\ DbPaths \subseteq Nat
    /\ MaxWal \in Nat

VARIABLES
    (* The database directory. *)
    dir,         \* does the directory exist?
    manifest,    \* the MANIFEST file; a missing one loads as the default Version
    sst,         \* the .sst files by number
    wal,         \* the records of CURRENT.wal; a missing file reads as an empty one
    (* The DB object. *)
    mem,         \* memtable_
    memBytes,    \* memtable_.approx_bytes_
    version,     \* version_: the file numbers of each level
    nextFile,    \* version_.next_file_number
    walOpen,     \* wal_ has its file open
    bgRequested, \* bg_work_requested_
    handle,      \* no object, being opened, open, or closed_
    (* The operation holding the mutex and its local variables. *)
    pc, op,
    fresh,       \* Open: the directory did not exist
    replayAt,    \* Open: the next record of the log to replay
    pending,     \* Write: the batch
    comp,        \* CompactLocked: the level, what is still to be written, the
                 \* files written so far, the files replaced
    (* History. *)
    expect,      \* what a read of each key may return
    lost         \* the ways in which acknowledged writes have been lost

disk    == <<dir, manifest, sst, wal>>
memory  == <<mem, memBytes, version, nextFile, walOpen, bgRequested, handle>>
control == <<pc, op, fresh, replayAt, pending, comp>>
history == <<expect, lost>>
vars    == <<disk, memory, control, history>>

NoComp == [level |-> 0, rest |-> EmptyTable, out |-> {}, old |-> {}]

DiskTypes ==
    /\ dir \in BOOLEAN
    /\ manifest \in [next : 1 .. MaxFile + 1, levels : [Levels -> SUBSET FileNums]]
    /\ sst \in [FileNums -> Table]
    /\ wal \in Seq(Batches \cup {Torn})

MemoryTypes ==
    /\ mem \in Table /\ memBytes \in Nat
    /\ version \in [Levels -> SUBSET FileNums]
    /\ nextFile \in 1 .. MaxFile + 1
    /\ walOpen \in BOOLEAN /\ bgRequested \in BOOLEAN
    /\ handle \in {"none", "opening", "open", "closed"}

ControlTypes ==
    /\ pc \in {"idle", "load", "readers", "replay", "openwal", "persist", "append", "apply",
               "f_table", "f_save", "f_rotate", "compact", "c_out", "c_remove", "finish"}
    /\ op \in {"none", "open", "write", "flush", "bg", "close", "open_failed", "load_failed"}
    /\ fresh \in BOOLEAN
    /\ replayAt \in Nat \ {0}
    /\ pending \in Batches \cup {EmptyTable}
    /\ pc \in {"append", "apply"} => pending \in Batches
    /\ comp \in [level : 0 .. kMaxLevels - 2, rest : Table,
                 out : SUBSET FileNums, old : SUBSET FileNums]

HistoryTypes ==
    /\ expect \in [Keys -> SUBSET Entries]
    /\ lost \subseteq {"buried", "wiped", "unread"}

\* The type invariant: what each member of DB, each file and each local variable can hold.
TypeOK == DiskTypes /\ MemoryTypes /\ ControlTypes /\ HistoryTypes

\* Broken variant: the first file number is 0.
Init_NumberZero ==
    /\ dir = FALSE
    /\ manifest = [next |-> 0, levels |-> NoFiles]
    /\ sst = [n \in FileNums |-> EmptyTable]
    /\ wal = <<>>
    /\ mem = EmptyTable /\ memBytes = 0
    /\ version = NoFiles /\ nextFile = 0
    /\ walOpen = FALSE /\ bgRequested = FALSE
    /\ handle = "none" /\ pc = "idle" /\ op = "none"
    /\ fresh = FALSE /\ replayAt = 1 /\ pending = EmptyTable /\ comp = NoComp
    /\ expect = [k \in Keys |-> {Tombstone}]
    /\ lost = {}

Init ==
    /\ dir = FALSE
    /\ manifest = [next |-> 1, levels |-> NoFiles]
    /\ sst = [n \in FileNums |-> EmptyTable]
    /\ wal = <<>>
    /\ mem = EmptyTable /\ memBytes = 0
    /\ version = NoFiles /\ nextFile = 1
    /\ walOpen = FALSE /\ bgRequested = FALSE
    /\ handle = "none" /\ pc = "idle" /\ op = "none"
    /\ fresh = FALSE /\ replayAt = 1 /\ pending = EmptyTable /\ comp = NoComp
    /\ expect = [k \in Keys |-> {Tombstone}]
    /\ lost = {}

(***************************************************************************)
(* The object is gone. The variables of the next one have their default    *)
(* values.                                                                 *)
(***************************************************************************)
Discard ==
    /\ handle' = "none" /\ pc' = "idle" /\ op' = "none"
    /\ mem' = EmptyTable /\ memBytes' = 0
    /\ version' = NoFiles /\ nextFile' = 1
    /\ walOpen' = FALSE /\ bgRequested' = FALSE
    /\ fresh' = FALSE /\ replayAt' = 1 /\ pending' = EmptyTable /\ comp' = NoComp

(***************************************************************************)
(* Returning to the caller. An operation that runs inside Close (or inside *)
(* the destructor of an object whose Open failed) goes on with the rest of *)
(* Close whatever its status; the others release the mutex.                *)
(***************************************************************************)
Closing == op \in {"close", "open_failed", "load_failed"}

Return ==
    /\ pc' = IF Closing THEN "finish" ELSE "idle"
    /\ op' = IF Closing THEN op ELSE "none"

\* FlushMemTableLocked returns at once, with OK, when the memtable is empty.
FlushOr(next) == IF mem = EmptyTable THEN next ELSE "f_table"

\* Version::Save, when it succeeds: written to a temporary file, then renamed.
Saved(lv) == [next |-> nextFile, levels |-> lv]

\* version_.next_file_number++, up to the bound.
NumberTaken == nextFile' = IF nextFile <= MaxFile THEN nextFile + 1 ELSE nextFile

-----------------------------------------------------------------------------
(* DB::Open *)

OpenBegin ==
    /\ handle = "none"
    /\ handle' = "opening" /\ pc' = "load" /\ op' = "open"
    /\ dir' = TRUE /\ fresh' = ~dir
    /\ UNCHANGED <<manifest, sst, wal, mem, memBytes, version, nextFile, walOpen,
                   bgRequested, replayAt, pending, comp, history>>

\* DB::SSTablePath: db_path_ + "/" + the name of the table. A path is what tells two
\* strings for one table apart: the separators before its name.
SSTablePath(p, n) == [separators |-> p + 1, number |-> n]

\* The path of the same file as fs::directory_iterator(db_path) gives it: a separator
\* is added only to a db_path that does not end with one.
EntryPath(p, n) == [separators |-> IF p = 0 THEN 1 ELSE p, number |-> n]

\* The files of the directory whose path is not among those of the tables in the manifest.
Unreferenced(p) ==
    {n \in FileNums : EntryPath(p, n) \notin {SSTablePath(p, m) : m \in Live(manifest.levels)}}

\* Broken variant: next_file_number is not restored.
OpenLoad_ForgetsNumber ==
    /\ pc = "load"
    /\ version' = manifest.levels
    /\ \E p \in DbPaths : \E gone \in SUBSET Unreferenced(p) :
         sst' = [n \in FileNums |-> IF n \in gone THEN EmptyTable ELSE sst[n]]
    /\ pc' = "readers"
    /\ UNCHANGED <<dir, manifest, wal, mem, memBytes, nextFile, walOpen, bgRequested, handle,
                   op, fresh, replayAt, pending, comp, history>>

(***************************************************************************)
(* The manifest is loaded and the .sst files it does not reference, as far *)
(* as their paths tell, are removed; a removal that fails is ignored.      *)
(***************************************************************************)
OpenLoad ==
    /\ pc = "load"
    /\ version' = manifest.levels /\ nextFile' = manifest.next
    /\ \E p \in DbPaths : \E gone \in SUBSET Unreferenced(p) :
         sst' = [n \in FileNums |-> IF n \in gone THEN EmptyTable ELSE sst[n]]
    /\ pc' = "readers"
    /\ UNCHANGED <<dir, manifest, wal, mem, memBytes, walOpen, bgRequested, handle,
                   op, fresh, replayAt, pending, comp, history>>

(***************************************************************************)
(* Version::Load fails (the file cannot be opened or read, or its checksum *)
(* does not match) and leaves version_ as it was constructed. The checks   *)
(* behind that of the checksum, which fail with version_ filled in part,   *)
(* refuse no file that Save wrote (ManifestFile). Open returns and the     *)
(* destructor of the object runs Close.                                    *)
(***************************************************************************)
OpenLoadFails ==
    /\ pc = "load"
    /\ op' = "load_failed" /\ pc' = FlushOr("finish")
    /\ UNCHANGED <<disk, memory, fresh, replayAt, pending, comp, history>>

\* A reader is opened on every live table.
OpenReaders ==
    /\ pc = "readers"
    /\ \A n \in Live(version) : sst[n] # EmptyTable
    /\ pc' = "replay"
    /\ UNCHANGED <<disk, memory, op, fresh, replayAt, pending, comp, history>>

(***************************************************************************)
(* Open returns an error after the manifest is loaded: a table cannot be   *)
(* opened, the log cannot be read or opened, or the manifest of a new      *)
(* database cannot be saved. The destructor runs Close.                    *)
(***************************************************************************)
OpenFails ==
    /\ \/ pc \in {"readers", "openwal", "persist"}
       \/ pc = "replay" /\ replayAt = 1
    /\ op' = "open_failed" /\ pc' = FlushOr("finish")
    /\ UNCHANGED <<disk, memory, fresh, replayAt, pending, comp, history>>

\* Broken variant: a record does not overwrite what an earlier one put.
ReplayRecord_FirstWins ==
    /\ pc = "replay"
    /\ replayAt <= Len(wal) /\ wal[replayAt] # Torn
    /\ mem' = Overlay(mem, wal[replayAt])
    /\ memBytes' = memBytes + BatchBytes[wal[replayAt]]
    /\ replayAt' = replayAt + 1
    /\ UNCHANGED <<disk, version, nextFile, walOpen, bgRequested, handle,
                   pc, op, fresh, pending, comp, history>>

ReplayRecord ==
    /\ pc = "replay"
    /\ replayAt <= Len(wal) /\ wal[replayAt] # Torn
    /\ mem' = Overlay(wal[replayAt], mem)
    /\ memBytes' = memBytes + BatchBytes[wal[replayAt]]
    /\ replayAt' = replayAt + 1
    /\ UNCHANGED <<disk, version, nextFile, walOpen, bgRequested, handle,
                   pc, op, fresh, pending, comp, history>>

\* Complete records that follow record i of the log.
Behind(i) == {j \in DOMAIN wal : j > i /\ wal[j] # Torn}

(***************************************************************************)
(* Replay ends at the end of the log or at the first incomplete record.    *)
(* The file is left as it is: nothing cuts the incomplete record off.      *)
(***************************************************************************)
ReplayEnd ==
    /\ pc = "replay"
    /\ replayAt \in DOMAIN wal => wal[replayAt] = Torn
    /\ lost' = IF Behind(replayAt) # {} THEN lost \cup {"buried"} ELSE lost
    /\ pc' = "openwal"
    /\ UNCHANGED <<disk, memory, op, fresh, replayAt, pending, comp, expect>>

(***************************************************************************)
(* A read of the log fails before its end. A short read is taken for the   *)
(* end of the log, so Open goes on without the records that follow.        *)
(***************************************************************************)
ReplayReadFails ==
    /\ pc = "replay"
    /\ replayAt <= Len(wal) /\ wal[replayAt] # Torn
    /\ lost' = lost \cup {"unread"}
    /\ pc' = "openwal"
    /\ UNCHANGED <<disk, memory, op, fresh, replayAt, pending, comp, expect>>

\* The log is opened for appending; a new database has its manifest saved.
OpenWal ==
    /\ pc = "openwal"
    /\ walOpen' = TRUE /\ replayAt' = 1
    /\ IF fresh THEN pc' = "persist" /\ UNCHANGED <<handle, op>>
                ELSE pc' = "idle" /\ op' = "none" /\ handle' = "open"
    /\ UNCHANGED <<disk, mem, memBytes, version, nextFile, bgRequested,
                   fresh, pending, comp, history>>

OpenPersist ==
    /\ pc = "persist"
    /\ manifest' = Saved(version)
    /\ pc' = "idle" /\ op' = "none" /\ handle' = "open" /\ fresh' = FALSE
    /\ UNCHANGED <<dir, sst, wal, mem, memBytes, version, nextFile, walOpen,
                   bgRequested, replayAt, pending, comp, history>>

-----------------------------------------------------------------------------
(* DB::Write, DB::Put and DB::Delete *)

WriteBegin(b) ==
    /\ handle = "open" /\ pc = "idle"
    /\ pending' = b /\ pc' = "append" /\ op' = "write"
    /\ UNCHANGED <<disk, memory, fresh, replayAt, comp, history>>

\* The record of the batch is in the log: a recovery will apply it.
Logged ==
    /\ walOpen /\ Len(wal) < MaxWal
    /\ wal' = Append(wal, pending)
    /\ expect' = [k \in Keys |-> IF k \in DOMAIN pending
                                 THEN expect[k] \cup {pending[k]} ELSE expect[k]]

\* Broken variant: each entry of a batch is a record of its own.
AddRecord_PerEntry ==
    /\ pc = "append"
    /\ walOpen /\ Len(wal) < MaxWal
    /\ wal' = Append(wal, [k \in {Min(DOMAIN pending)} |-> pending[k]])
    /\ expect' = [k \in Keys |-> IF k \in DOMAIN pending
                                 THEN expect[k] \cup {pending[k]} ELSE expect[k]]
    /\ pc' = "apply"
    /\ UNCHANGED <<dir, manifest, sst, memory, op, fresh, replayAt, pending, comp, lost>>

\* WriteAheadLog::AddRecord succeeds.
AddRecord ==
    /\ pc = "append"
    /\ Logged
    /\ pc' = "apply"
    /\ UNCHANGED <<dir, manifest, sst, memory, op, fresh, replayAt, pending, comp, lost>>

(***************************************************************************)
(* AddRecord returns an error, and Write with it. The log is not open, or  *)
(* the write was short, or the flush or the fsync failed: nothing of the   *)
(* record may have reached the file, a part of it, or all of it.           *)
(***************************************************************************)
AddRecordFails ==
    /\ pc = "append"
    /\ \/ UNCHANGED <<wal, expect>>
       \/ /\ walOpen /\ Len(wal) < MaxWal
          /\ wal' = Append(wal, Torn) /\ UNCHANGED expect
       \/ Logged
    /\ pending' = EmptyTable
    /\ Return
    /\ UNCHANGED <<dir, manifest, sst, memory, fresh, replayAt, comp, lost>>

(***************************************************************************)
(* The batch is applied to the memtable; from here on a read returns what  *)
(* it wrote. Then the background thread is asked for work and Write is     *)
(* done, or MaybeFlushLocked runs in the writer.                           *)
(***************************************************************************)
ApplyBatch ==
    /\ pc = "apply"
    /\ mem' = Overlay(pending, mem)
    /\ memBytes' = memBytes + BatchBytes[pending]
    /\ expect' = [k \in Keys |-> IF k \in DOMAIN pending THEN {pending[k]} ELSE expect[k]]
    /\ pending' = EmptyTable
    /\ IF BackgroundCompaction
       THEN bgRequested' = TRUE /\ Return
       ELSE /\ pc' = IF memBytes' >= MemtableFlushBytes THEN "f_table" ELSE "compact"
            /\ UNCHANGED <<bgRequested, op>>
    /\ UNCHANGED <<disk, version, nextFile, walOpen, handle, fresh, replayAt, comp, lost>>

-----------------------------------------------------------------------------
(* DB::Flush and DB::BackgroundLoop. Flush does not look at closed_. *)

FlushCall ==
    /\ handle \in {"open", "closed"} /\ pc = "idle"
    /\ op' = "flush" /\ pc' = FlushOr("compact")
    /\ UNCHANGED <<disk, memory, fresh, replayAt, pending, comp, history>>

\* The background thread wakes up and flushes, whatever the size of the memtable.
BackgroundBegin ==
    /\ handle = "open" /\ pc = "idle" /\ bgRequested
    /\ bgRequested' = FALSE
    /\ op' = "bg" /\ pc' = FlushOr("compact")
    /\ UNCHANGED <<disk, mem, memBytes, version, nextFile, walOpen, handle,
                   fresh, replayAt, pending, comp, history>>

-----------------------------------------------------------------------------
(* DB::FlushMemTableLocked *)

\* Broken variant: the log is removed before the manifest is saved.
FlushTable_RemovesLog ==
    /\ pc = "f_table" /\ nextFile <= MaxFile
    /\ sst' = [sst EXCEPT ![nextFile] = mem]
    /\ version' = [version EXCEPT ![0] = @ \cup {nextFile}]
    /\ NumberTaken
    /\ wal' = <<>>
    /\ pc' = "f_save"
    /\ UNCHANGED <<dir, manifest, mem, memBytes, walOpen, bgRequested, handle,
                   op, fresh, replayAt, pending, comp, history>>

\* The memtable is written to a new table and the table is added to level 0.
FlushTable ==
    /\ pc = "f_table" /\ nextFile <= MaxFile
    /\ sst' = [sst EXCEPT ![nextFile] = mem]
    /\ version' = [version EXCEPT ![0] = @ \cup {nextFile}]
    /\ NumberTaken
    /\ pc' = "f_save"
    /\ UNCHANGED <<dir, manifest, wal, mem, memBytes, walOpen, bgRequested, handle,
                   op, fresh, replayAt, pending, comp, history>>

\* The table cannot be written, is written in part, or cannot be opened once written.
FlushTableFails ==
    /\ pc = "f_table"
    /\ \/ UNCHANGED sst
       \/ /\ nextFile <= MaxFile
          /\ \E t \in {EmptyTable, mem} : sst' = [sst EXCEPT ![nextFile] = t]
    /\ NumberTaken
    /\ Return
    /\ UNCHANGED <<dir, manifest, wal, mem, memBytes, version, walOpen, bgRequested,
                   handle, fresh, replayAt, pending, comp, history>>

FlushSave ==
    /\ pc = "f_save"
    /\ manifest' = Saved(version)
    /\ mem' = EmptyTable /\ memBytes' = 0
    /\ pc' = "f_rotate"
    /\ UNCHANGED <<dir, sst, wal, version, nextFile, walOpen, bgRequested, handle,
                   op, fresh, replayAt, pending, comp, history>>

\* The memtable is kept, and so is the table in level 0.
FlushSaveFails ==
    /\ pc = "f_save"
    /\ Return
    /\ UNCHANGED <<disk, memory, fresh, replayAt, pending, comp, history>>

\* The log is closed, removed (if that fails it is kept) and opened again.
RotateWal ==
    /\ pc = "f_rotate"
    /\ wal' \in {<<>>, wal}
    /\ walOpen' = TRUE
    /\ pc' = IF Closing THEN "finish" ELSE "compact"
    /\ UNCHANGED <<dir, manifest, sst, mem, memBytes, version, nextFile, bgRequested,
                   handle, op, fresh, replayAt, pending, comp, history>>

\* Closing the log fails, or opening it again does: there is no open log.
RotateWalFails ==
    /\ pc = "f_rotate"
    /\ wal' \in {<<>>, wal}
    /\ walOpen' = FALSE
    /\ Return
    /\ UNCHANGED <<dir, manifest, sst, mem, memBytes, version, nextFile, bgRequested,
                   handle, fresh, replayAt, pending, comp, history>>

-----------------------------------------------------------------------------
(* DB::NeedsCompactionLocked and DB::CompactLocked *)

Multiplier == IF LevelSizeMultiplier > 1 THEN LevelSizeMultiplier ELSE 1

\* The bytes that level l may hold, from level 1 on: target *= multiplier at each level.
TargetBytes[l \in Nat] ==
    IF l <= 1 THEN Level1TargetBytes ELSE TargetBytes[l - 1] * Multiplier

\* Broken variant: level 0 is merged one file too early.
Overfull_OneEarly(l) ==
    IF l = 0 THEN Cardinality(version[0]) + 1 >= L0CompactionTrigger
             ELSE LevelBytes(version, sst, l) > TargetBytes[l]

Overfull(l) ==
    IF l = 0 THEN Cardinality(version[0]) >= L0CompactionTrigger
             ELSE LevelBytes(version, sst, l) > TargetBytes[l]

\* The last level is never compacted.
OverfullLevels == {l \in 0 .. kMaxLevels - 2 : Overfull(l)}

CompactNone ==
    /\ pc = "compact" /\ OverfullLevels = {}
    /\ Return
    /\ UNCHANGED <<disk, memory, fresh, replayAt, pending, comp, history>>

\* All the tables of the first overfull level and of the next one are merged.
CompactPick ==
    /\ pc = "compact" /\ OverfullLevels # {}
    /\ LET l == Min(OverfullLevels)
       IN  comp' = [level |-> l, rest |-> Merge(version, sst, l), out |-> {}, old |-> {}]
    /\ pc' = "c_out"
    /\ UNCHANGED <<disk, memory, op, fresh, replayAt, pending, history>>

\* A table cannot be read.
CompactReadFails ==
    /\ pc = "compact" /\ OverfullLevels # {}
    /\ Return
    /\ UNCHANGED <<disk, memory, fresh, replayAt, pending, comp, history>>

\* The entries still to be written that have a key up to c.
Chunk(c) == [k \in {j \in DOMAIN comp.rest : j <= c} |-> comp.rest[k]]

(***************************************************************************)
(* The next output file takes the entries up to key c. The code ends a     *)
(* file at a number of bytes; the model ends it after any entry.           *)
(***************************************************************************)
CompactOutput(c) ==
    /\ pc = "c_out" /\ c \in DOMAIN comp.rest /\ nextFile <= MaxFile
    /\ sst' = [sst EXCEPT ![nextFile] = Chunk(c)]
    /\ comp' = [comp EXCEPT !.rest = [k \in DOMAIN comp.rest \ DOMAIN Chunk(c) |-> comp.rest[k]],
                            !.out = @ \cup {nextFile}]
    /\ NumberTaken
    /\ UNCHANGED <<dir, manifest, wal, mem, memBytes, version, walOpen, bgRequested,
                   handle, pc, op, fresh, replayAt, pending, history>>

\* An output cannot be written or opened; the ones written so far stay on the disk.
CompactOutputFails ==
    /\ pc = "c_out" /\ comp.rest # EmptyTable
    /\ \/ UNCHANGED sst
       \/ /\ nextFile <= MaxFile
          /\ \E t \in {EmptyTable} \cup {Chunk(c) : c \in DOMAIN comp.rest} :
               sst' = [sst EXCEPT ![nextFile] = t]
    /\ NumberTaken
    /\ comp' = NoComp
    /\ Return
    /\ UNCHANGED <<dir, manifest, wal, mem, memBytes, version, walOpen, bgRequested,
                   handle, fresh, replayAt, pending, history>>

\* Broken variant: the outputs are added to the files of level l + 1.
Compacted_KeepsTarget ==
    [version EXCEPT ![comp.level] = {}, ![comp.level + 1] = @ \cup comp.out]

\* Broken variant: level l keeps its files.
Compacted_KeepsLevel == [version EXCEPT ![comp.level + 1] = comp.out]

\* version_ after the compaction: level l is empty, level l + 1 has the outputs.
Compacted == [version EXCEPT ![comp.level] = {}, ![comp.level + 1] = comp.out]

CompactInstall ==
    /\ pc = "c_out" /\ comp.rest = EmptyTable
    /\ version' = Compacted
    /\ manifest' = Saved(Compacted)
    /\ comp' = [comp EXCEPT !.old = version[comp.level] \cup version[comp.level + 1]]
    /\ pc' = "c_remove"
    /\ UNCHANGED <<dir, sst, wal, mem, memBytes, nextFile, walOpen, bgRequested, handle,
                   op, fresh, replayAt, pending, history>>

\* Broken variant: the status of the save is not looked at.
CompactInstallFails_Removes ==
    /\ pc = "c_out" /\ comp.rest = EmptyTable
    /\ version' = Compacted
    /\ comp' = [comp EXCEPT !.old = version[comp.level] \cup version[comp.level + 1]]
    /\ pc' = "c_remove"
    /\ UNCHANGED <<disk, mem, memBytes, nextFile, walOpen, bgRequested, handle,
                   op, fresh, replayAt, pending, history>>

\* The manifest cannot be saved: it still names the old files, version_ the new ones.
CompactInstallFails ==
    /\ pc = "c_out" /\ comp.rest = EmptyTable
    /\ version' = Compacted
    /\ comp' = NoComp
    /\ Return
    /\ UNCHANGED <<disk, mem, memBytes, nextFile, walOpen, bgRequested, handle,
                   fresh, replayAt, pending, history>>

\* The files that were merged are removed; a removal that fails is ignored.
CompactRemove ==
    /\ pc = "c_remove"
    /\ \E gone \in SUBSET comp.old :
         sst' = [n \in FileNums |-> IF n \in gone THEN EmptyTable ELSE sst[n]]
    /\ comp' = NoComp
    /\ pc' = "compact"
    /\ UNCHANGED <<dir, manifest, wal, memory, op, fresh, replayAt, pending, history>>

-----------------------------------------------------------------------------
(* DB::Close and DB::~DB *)

CloseBegin ==
    /\ handle = "open" /\ pc = "idle"
    /\ op' = "close" /\ pc' = FlushOr("finish")
    /\ UNCHANGED <<disk, memory, fresh, replayAt, pending, comp, history>>

\* After the flush, whatever its outcome. Closing the log and the save may fail too.
CloseFinish ==
    /\ pc = "finish" /\ op = "close"
    /\ walOpen' = FALSE
    /\ manifest' \in {manifest, Saved(version)}
    /\ handle' = "closed" /\ pc' = "idle" /\ op' = "none"
    /\ UNCHANGED <<dir, sst, wal, mem, memBytes, version, nextFile, bgRequested,
                   fresh, replayAt, pending, comp, history>>

(***************************************************************************)
(* Close as run by the destructor of an object whose Open failed. When it  *)
(* is the manifest that could not be loaded, version_ is the default one,  *)
(* and saving it replaces a manifest that may have named tables.           *)
(***************************************************************************)
AbandonFinish ==
    /\ pc = "finish" /\ op \in {"open_failed", "load_failed"}
    /\ \/ UNCHANGED <<manifest, lost>>
       \/ /\ manifest' = Saved(version)
          /\ lost' = IF op = "load_failed" /\ manifest.levels # NoFiles
                     THEN lost \cup {"wiped"} ELSE lost
    /\ Discard
    /\ UNCHANGED <<dir, sst, wal, expect>>

Destroy ==
    /\ handle = "closed" /\ pc = "idle"
    /\ Discard
    /\ UNCHANGED <<disk, history>>

(***************************************************************************)
(* The process dies. An append that is under way may leave a part of the   *)
(* record in the file.                                                     *)
(***************************************************************************)
Crash ==
    /\ handle # "none"
    /\ \/ UNCHANGED wal
       \/ pc = "append" /\ walOpen /\ Len(wal) < MaxWal /\ wal' = Append(wal, Torn)
    /\ Discard
    /\ UNCHANGED <<dir, manifest, sst, history>>

-----------------------------------------------------------------------------
\* What DB::Get returns for key k.
Read(k) == IF k \in DOMAIN mem THEN mem[k] ELSE Lookup(version, sst, k)

Opening    == OpenLoad \/ OpenReaders \/ ReplayRecord \/ ReplayEnd \/ OpenWal \/ OpenPersist
Writing    == AddRecord \/ ApplyBatch
Flushing   == FlushTable \/ FlushSave \/ RotateWal
Compacting == \/ CompactNone \/ CompactPick \/ CompactInstall \/ CompactRemove
              \/ \E c \in Keys : CompactOutput(c)
Finishing  == CloseFinish \/ AbandonFinish

\* The next step of the operation that holds the mutex.
Work == Opening \/ Writing \/ Flushing \/ Compacting \/ Finishing

\* An I/O call fails and the operation takes its error return.
Failing == \/ OpenLoadFails \/ OpenFails \/ ReplayReadFails \/ AddRecordFails
           \/ FlushTableFails \/ FlushSaveFails \/ RotateWalFails
           \/ CompactReadFails \/ CompactOutputFails \/ CompactInstallFails

\* An operation begins: a call, or the background thread waking up.
Begin == OpenBegin \/ (\E b \in Batches : WriteBegin(b)) \/ FlushCall \/ BackgroundBegin
         \/ CloseBegin \/ Destroy

Next == Begin \/ Work \/ Failing \/ Crash

Spec == Init /\ [][Next]_vars

\* An operation that holds the mutex keeps running: none of its steps waits for another thread.
FairSpec == Spec /\ WF_vars(Work \/ Failing)

-----------------------------------------------------------------------------
(* Properties *)

(***************************************************************************)
(* Get returns the value of the last acknowledged write of the key (or of  *)
(* a later write that failed, but whose record reached the log), in every  *)
(* state in which a client can read: after flushes, compactions, crashes   *)
(* and failed operations. lost excludes the ways in which the code does    *)
(* lose writes.                                                            *)
(***************************************************************************)
ReadsExpected ==
    handle = "open" /\ pc = "idle" /\ lost = {} => \A k \in Keys : Read(k) \in expect[k]

\* The records of the log with an entry for k.
Mentions(k) == {i \in DOMAIN wal : wal[i] # Torn /\ k \in DOMAIN wal[i]}

\* Complete records follow an incomplete one: no replay will reach them.
Buried == \E i \in DOMAIN wal : wal[i] = Torn /\ Behind(i) # {}

\* What a recovery finds on the disk for key k.
OnDisk(k) ==
    IF Mentions(k) = {} THEN Lookup(manifest.levels, sst, k) ELSE wal[Max(Mentions(k))][k]

(***************************************************************************)
(* The directory holds every acknowledged write at every instant: between  *)
(* any two steps of a flush, a compaction, an open or a close, a crash     *)
(* leaves a log and a manifest from which Open rebuilds the value of each  *)
(* key. This is why the manifest is saved before the log is removed, and   *)
(* why the tables of a merge are removed only once it no longer names them.*)
(***************************************************************************)
DurableAlways ==
    lost = {} /\ ~Buried => \A k \in Keys : OnDisk(k) \in expect[k]

(***************************************************************************)
(* No table is missing: the files named by the manifest on the disk, and   *)
(* those DB serves reads from, exist, whatever removal of old files was    *)
(* done in between: by a compaction, by one that failed half way, and by   *)
(* the sweep of Open. It fails where DbPaths has a path that ends with a   *)
(* separator: the sweep then removes every table.                          *)
(***************************************************************************)
FilesExist == \A n \in Live(version) \cup Live(manifest.levels) : sst[n] # EmptyTable

(***************************************************************************)
(* The number the next flush or compaction output will take is above every *)
(* number that version_ or the saved manifest uses, so no table that is    *)
(* still needed is overwritten, after a recovery from an older manifest    *)
(* too.                                                                    *)
(***************************************************************************)
NumbersFresh ==
    /\ \A n \in Live(manifest.levels) : n < manifest.next
    /\ pc \in {"f_table", "c_out"} =>
         \A n \in Live(version) \cup Live(manifest.levels) \cup comp.out : n < nextFile

\* The files of S have disjoint key ranges, increasing with their numbers.
Disjoint(S) ==
    \A m, n \in S : m < n => \A j \in DOMAIN sst[m], k \in DOMAIN sst[n] : j < k

(***************************************************************************)
(* From level 1 on, the files of a level have disjoint key ranges: the     *)
(* lookup of Get, which stops at the first file of a level that has the    *)
(* key, relies on it.                                                      *)
(***************************************************************************)
LevelsDisjoint ==
    \A l \in Levels \ {0} : Disjoint(version[l]) /\ Disjoint(manifest.levels[l])

(***************************************************************************)
(* Only applying a write changes what Get returns: a flush, a compaction,  *)
(* a rotation of the log, or any of them failing half way is invisible.    *)
(***************************************************************************)
MaintenanceInvisible ==
    [][handle = "open" /\ handle' = "open" /\ pc # "apply"
         => \A k \in Keys : Read(k)' = Read(k)]_vars

(***************************************************************************)
(* Every operation returns (or the process dies): the compaction loop ends *)
(* and no error path leaves the mutex held.                                *)
(***************************************************************************)
OperationsReturn == pc # "idle" ~> pc = "idle"

\* The order in which an operation goes through its steps; those of the loop
\* over CompactLocked are one stage.
StageOf == [load |-> 1, readers |-> 2, replay |-> 3, openwal |-> 4, persist |-> 5,
            append |-> 6, apply |-> 7, f_table |-> 8, f_save |-> 9, f_rotate |-> 10,
            compact |-> 11, c_out |-> 11, c_remove |-> 11, finish |-> 12]

\* The level the loop over CompactLocked is at: the one it will pick, or is compacting.
LoopLevel ==
    IF pc # "compact" THEN comp.level
    ELSE IF OverfullLevels = {} THEN LastLevel ELSE Min(OverfullLevels)

PartOf == [compact |-> 1, c_out |-> 2, c_remove |-> 3]

\* A step that stays in its stage: a record is replayed, or the loop moves to a deeper
\* level, goes on to the next part of a compaction, or has fewer entries left to write.
MovesOn ==
    \/ pc = "replay" /\ replayAt < replayAt' /\ replayAt' <= Len(wal) + 1 /\ UNCHANGED wal
    \/ pc # "replay" /\ LoopLevel < LoopLevel'
    \/ pc # "replay" /\ LoopLevel = LoopLevel' /\ PartOf[pc] < PartOf[pc']
    \/ /\ pc = "c_out" /\ pc' = "c_out" /\ LoopLevel = LoopLevel'
       /\ DOMAIN comp'.rest \subseteq DOMAIN comp.rest /\ DOMAIN comp'.rest # DOMAIN comp.rest

(***************************************************************************)
(* No step of an operation takes it back: it goes on to a later stage, or  *)
(* on in the one it is in. In particular one pass of the compaction loop   *)
(* never returns to a level, so at most kMaxLevels - 1 compactions are run *)
(* under one hold of the mutex. Stages, levels, the log and the entries of *)
(* a merge are finite: this is why every operation returns.                *)
(***************************************************************************)
OperationsAdvance ==
    [][pc # "idle" /\ pc' # "idle" =>
         StageOf[pc] < StageOf[pc'] \/ (StageOf[pc] = StageOf[pc'] /\ MovesOn)]_vars

(***************************************************************************)
(* wal.h: a torn record at the end of the log is cut off, so the writes    *)
(* acknowledged later survive the next crash.                              *)
(***************************************************************************)
SurvivesTornTail ==
    handle = "open" /\ pc = "idle" /\ lost \subseteq {"buried"} =>
      \A k \in Keys : Read(k) \in expect[k]

(***************************************************************************)
(* db.cpp: the manifest is the sole source of truth, and what it does not  *)
(* reference is harmless to delete; an Open that failed to load it leaves  *)
(* the database as it was.                                                 *)
(***************************************************************************)
SurvivesFailedOpen ==
    handle = "open" /\ pc = "idle" /\ lost \subseteq {"wiped"} =>
      \A k \in Keys : Read(k) \in expect[k]

=============================================================================
