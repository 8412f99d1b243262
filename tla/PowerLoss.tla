----------------------------- MODULE PowerLoss ------------------------------
(***************************************************************************)
(* What is on the disk and what is only in the operating system's cache.   *)
(* ClomDB fsyncs its log (after a write that asks for it, and before it    *)
(* closes the log file); it hands tables and manifests to the operating    *)
(* system without fsync, and never fsyncs the directory, so that the name  *)
(* of a new file and the removal of an old one are not on the disk either  *)
(* until the operating system writes them back. A process crash loses      *)
(* nothing that is in the cache; a loss of power may lose any of it. A     *)
(* write is an identifier: what matters is where it is.                    *)
(***************************************************************************)
EXTENDS Integers, Sequences, SequencesExt

CONSTANTS
    Writes,    \* the writes clients make, each once
    Damaged,   \* the manifest file holds something that does not load
    MaxTables  \* bound: flushes

ASSUME PowerAssumption ==
    /\ MaxTables \in Nat
    /\ \A m \in SUBSET (1 .. MaxTables) : m # Damaged

VARIABLES
    log,        \* the writes in the log file
    logSynced,  \* how many of them have been fsynced
    oldLogs,    \* what else the name of the log may stand for after a loss of power:
                \* removed logs, or no file (<<>>)
    tables,     \* the writes in each table
    safe,       \* the tables that have been written back
    manifest,   \* the tables named by the manifest
    manifests,  \* the manifests a loss of power may leave
    mem,        \* the writes in the memtable
    pc,         \* the next step of FlushMemTableLocked, "idle", or "down": no DB object
    acked, synced,  \* history: acknowledged writes, and those that asked for an fsync
    secured,        \* history: synced, when everything was last written back
    promised        \* history: what the restart after this failure has to find

files   == <<log, logSynced, oldLogs, tables, safe, manifest, manifests>>
history == <<acked, synced, secured, promised>>
vars    == <<files, mem, pc, history>>

\* The type invariant: what is in the files, in the cache and in the memtable.
TypeOK ==
    /\ log \in Seq(Writes) /\ logSynced \in 0 .. Len(log)
    /\ oldLogs \subseteq Seq(Writes)
    /\ tables \in Seq(SUBSET Writes) /\ Len(tables) <= MaxTables
    /\ safe \subseteq DOMAIN tables
    /\ manifest \in manifests
    /\ manifests \subseteq (SUBSET DOMAIN tables) \cup {Damaged}
    /\ mem \subseteq Writes
    /\ pc \in {"idle", "save", "sync", "remove", "down"}
    /\ secured \subseteq synced /\ synced \subseteq acked /\ acked \subseteq Writes
    /\ promised \subseteq acked

\* Open has made the log and the manifest of a new database.
Init ==
    /\ log = <<>> /\ logSynced = 0 /\ oldLogs = {<<>>}
    /\ tables = <<>> /\ safe = {}
    /\ manifest = {} /\ manifests = {{}, Damaged}
    /\ mem = {} /\ pc = "idle"
    /\ acked = {} /\ synced = {} /\ secured = {} /\ promised = {}

\* Broken variant: fflush, but no fsync.
Write_NoFsync(w, sync) ==
    /\ pc = "idle" /\ w \notin acked
    /\ log' = Append(log, w)
    /\ mem' = mem \cup {w} /\ acked' = acked \cup {w}
    /\ synced' = IF sync THEN synced \cup {w} ELSE synced
    /\ UNCHANGED <<logSynced, oldLogs, tables, safe, manifest, manifests, pc, secured, promised>>

\* AddRecord: to the operating system in any case, and to the disk if asked to.
Write(w, sync) ==
    /\ pc = "idle" /\ w \notin acked
    /\ log' = Append(log, w)
    /\ logSynced' = IF sync THEN Len(log') ELSE logSynced
    /\ mem' = mem \cup {w} /\ acked' = acked \cup {w}
    /\ synced' = IF sync THEN synced \cup {w} ELSE synced
    /\ UNCHANGED <<oldLogs, tables, safe, manifest, manifests, pc, secured, promised>>

\* The table of a flush is written and left to the operating system.
FlushTable ==
    /\ pc = "idle" /\ mem # {} /\ Len(tables) < MaxTables
    /\ tables' = Append(tables, mem)
    /\ pc' = "save"
    /\ UNCHANGED <<log, logSynced, oldLogs, safe, manifest, manifests, mem, history>>

\* Broken variant: the manifest names the number that the next table will have.
FlushSave_NextNumber ==
    /\ pc = "save"
    /\ manifest' = manifest \cup {Len(tables) + 1}
    /\ manifests' = manifests \cup {manifest', Damaged}
    /\ mem' = {} /\ pc' = "sync"
    /\ UNCHANGED <<log, logSynced, oldLogs, tables, safe, history>>

(***************************************************************************)
(* Version::Save: the new manifest is written to a file and renamed over   *)
(* the old one, neither of which is fsynced. After a loss of power the     *)
(* name may stand for the old content, the new one, or part of the new one.*)
(***************************************************************************)
FlushSave ==
    /\ pc = "save"
    /\ manifest' = manifest \cup {Len(tables)}
    /\ manifests' = manifests \cup {manifest', Damaged}
    /\ mem' = {} /\ pc' = "sync"
    /\ UNCHANGED <<log, logSynced, oldLogs, tables, safe, history>>

\* WriteAheadLog::Close: fsync, then close.
LogClose ==
    /\ pc = "sync"
    /\ logSynced' = Len(log) /\ pc' = "remove"
    /\ UNCHANGED <<log, oldLogs, tables, safe, manifest, manifests, mem, history>>

(***************************************************************************)
(* The log is removed and a new one opened. The directory is not fsynced:  *)
(* after a loss of power, whatever was fsynced of the new log, its name    *)
(* may stand for the removed log, or for no file.                          *)
(***************************************************************************)
LogRotate ==
    /\ pc = "remove"
    /\ oldLogs' = oldLogs \cup {log, <<>>}
    /\ log' = <<>> /\ logSynced' = 0 /\ pc' = "idle"
    /\ UNCHANGED <<tables, safe, manifest, manifests, mem, history>>

(***************************************************************************)
(* The operating system has written everything back, the directory too     *)
(* (external). What it does after the process has died leaves nothing that *)
(* could not have been left just before.                                   *)
(***************************************************************************)
Writeback ==
    /\ pc # "down"
    /\ logSynced' = Len(log) /\ oldLogs' = {}
    /\ safe' = DOMAIN tables /\ manifests' = {manifest}
    /\ secured' = synced
    /\ UNCHANGED <<log, tables, manifest, mem, pc, acked, synced, promised>>

\* Tables, manifest and directory are on the disk; of the log, what was fsynced.
WrittenBack == safe = DOMAIN tables /\ manifests = {manifest} /\ oldLogs = {}

\* The process dies: the cache survives.
Crash ==
    /\ pc # "down"
    /\ mem' = {} /\ pc' = "down" /\ promised' = acked
    /\ UNCHANGED <<files, acked, synced, secured>>

(***************************************************************************)
(* The power fails (external). Of the log, at least what was fsynced is    *)
(* left, unless its name stands for another file or none. Any table and    *)
(* any manifest that was not written back may be lost.                     *)
(***************************************************************************)
PowerFails ==
    /\ pc # "down"
    /\ \/ \E n \in logSynced .. Len(log) : log' = SubSeq(log, 1, n)
       \/ log' \in oldLogs
    /\ logSynced' = Len(log') /\ oldLogs' = {}
    /\ \E kept \in SUBSET DOMAIN tables :
         /\ safe \subseteq kept
         /\ tables' = [n \in DOMAIN tables |-> IF n \in kept THEN tables[n] ELSE {}]
    /\ safe' = DOMAIN tables
    /\ manifest' \in manifests /\ manifests' = {manifest'}
    /\ mem' = {} /\ pc' = "down"
    /\ promised' = IF WrittenBack THEN synced ELSE {}
    /\ UNCHANGED <<acked, synced, secured>>

-----------------------------------------------------------------------------
(* DB::Open *)

\* Open refuses a manifest that does not load and a table that is not complete.
Openable == manifest # Damaged /\ \A n \in manifest : tables[n] # {}

\* The writes in the tables ts that a manifest m names.
InTables(m, ts) == UNION {ts[n] : n \in m}

(***************************************************************************)
(* What Open recovers: the tables of the manifest and the log. When the    *)
(* manifest does not load, that is what the second Open recovers, for      *)
(* which the first has left an empty one (OpenDamaged). A table that is    *)
(* missing stops every Open.                                               *)
(***************************************************************************)
Recovered ==
    IF Openable THEN InTables(manifest, tables) \cup ToSet(log)
    ELSE IF manifest = Damaged THEN ToSet(log) ELSE {}

\* The tables once Open has removed those the manifest does not name.
Swept == [n \in DOMAIN tables |-> IF n \in manifest THEN tables[n] ELSE {}]

\* The name of a log that Open makes is not on the disk; an empty one counts as made.
Open ==
    /\ pc = "down" /\ Openable
    /\ tables' = Swept
    /\ oldLogs' = IF log = <<>> THEN oldLogs \cup {<<>>} ELSE oldLogs
    /\ mem' = ToSet(log) /\ pc' = "idle"
    /\ acked' = Recovered /\ synced' = synced \cap Recovered
    /\ secured' = secured \cap Recovered /\ promised' = {}
    /\ UNCHANGED <<log, logSynced, safe, manifest, manifests>>

\* Version::Load fails, and the destructor of the object saves a default Version.
OpenDamaged ==
    /\ pc = "down" /\ manifest = Damaged
    /\ manifest' = {} /\ manifests' = manifests \cup {{}, Damaged}
    /\ UNCHANGED <<log, logSynced, oldLogs, tables, safe, mem, pc, history>>

\* A table cannot be opened, and the destructor saves the manifest that was loaded.
OpenMissing ==
    /\ pc = "down" /\ manifest # Damaged /\ ~Openable
    /\ tables' = Swept
    /\ manifests' = manifests \cup {manifest, Damaged}
    /\ UNCHANGED <<log, logSynced, oldLogs, safe, manifest, mem, pc, history>>

Next ==
    \/ \E w \in Writes, sync \in BOOLEAN : Write(w, sync)
    \/ FlushTable \/ FlushSave \/ LogClose \/ LogRotate \/ Writeback
    \/ Crash \/ PowerFails \/ Open \/ OpenDamaged \/ OpenMissing

Spec == Init /\ [][Next]_vars

-----------------------------------------------------------------------------
(* Properties *)

(***************************************************************************)
(* A process crash, in the middle of a flush too, loses no acknowledged    *)
(* write; a loss of power loses none that was fsynced, as long as tables,  *)
(* manifests and the names in the directory have reached the disk.         *)
(***************************************************************************)
PromisedRecovered == pc = "down" => promised \subseteq Recovered

\* The writes that are in the directory, if only in a log beside a manifest that
\* does not load or in a table beside one that is missing.
Held == ToSet(log) \cup (IF manifest = Damaged THEN {} ELSE InTables(manifest, tables))

(***************************************************************************)
(* options.h: with sync_writes a write is durable across OS and process    *)
(* crashes as well as power loss. Taken at its weakest: of a write that    *)
(* was fsynced, and was on the disk with everything else, something is     *)
(* left.                                                                   *)
(***************************************************************************)
SyncedRecovered == pc = "down" => secured \subseteq Held

=============================================================================
