# ClomDB in TLA+

A verification project for ClomDB, an embedded key-value store built as a
log-structured merge tree (write-ahead log, memtable, SSTables in levels,
manifest). The modules model the storage engine with every I/O error return
and a crash between any two of its steps, the threads that share it, its
readers, the page cache below it, and its three file formats byte by byte; TLC
checks them on small instances and TLAPS proves what holds for every instance.

Paths are relative to the repository: `src/db.cpp` is the file that
PROJECT.json names `src/src/db.cpp`.

## The system

| Part | State | Operations |
|------|-------|------------|
| `DB` (`src/db.cpp`, `db.h`) | memtable, version, log, open readers, one mutex, flags of the background thread, `closed_` | `Open`, `Write`/`Put`/`Delete`, `Get`, `NewIterator`, `Flush`, `Close`, destructor, `GetStats` |
| Write-ahead log (`wal.cpp`) | file `CURRENT.wal`, the open `FILE*` | `Open` (append mode), `AddRecord`, `Sync`, `Close`, `ReplayAll` |
| Memtable (`memtable.h`) | sorted map from key to value or tombstone, `approx_bytes_` | `Put`, `Delete`, `Get`, `Clear` |
| SSTables (`sstable.cpp`) | immutable `.sst` files; a reader has the index and the Bloom filter in memory | `SSTableWriter::Write`, `SSTableReader::Open`, `Get`, `ReadAll` |
| Manifest (`version.cpp`) | file `MANIFEST`: next file number and the files of each level | `Save` (temporary file, then rename), `Load` |
| Compaction (`db.cpp`) | local to `CompactLocked` | choose a level, merge it with the next one, write outputs, install, remove |
| Background thread (`db.cpp`) | `bg_work_requested_`, `shutting_down_`, `bg_idle_` | `BackgroundLoop` |
| Write batch, iterator, Bloom filter, coding and CRC | value types | encode, decode, iterate, probe |
| CLI, benchmark, tests | none | clients of the library |

How the parts interact. A write is appended to the log, then applied to the
memtable; when the memtable is large (or the background thread wakes up) it is
written to a new level-0 table, the manifest is saved, the memtable is cleared
and the log is removed and opened anew. A level with too many files or bytes
is merged wholesale into the next one: outputs are written, the manifest is
saved, the merged files are removed. `Open` loads the manifest, removes the
tables it does not name, opens the others and replays the log. `Close` flushes
and saves the manifest; the destructor runs `Close`, also for an object whose
`Open` failed. Everything happens under one mutex, on the thread of the caller
or on the background thread.

What is hard here:

* a crash between any two of the changes to log, tables and manifest;
* an operation that fails half way, after which memory and disk disagree and
  the object goes on being used;
* file numbers that are taken before the manifest records them, and are handed
  out again after a recovery;
* removals whose result is ignored, so that a log or tables that should be gone
  are still there;
* a sweep that compares path strings to tell which tables are in use;
* which of several entries for a key wins, over memtable, level-0 order, deeper
  levels and merges; when a tombstone may be dropped;
* torn records in the log, tables and manifests that end at any byte;
* errors while something is read, which the code takes for its absence;
* what is in the page cache and not yet on the disk;
* the loop that compacts until no level is overfull, under the mutex;
* wake-ups of the background thread, and `Close`, which gives the mutex up to
  join it.

What makes the parts correct: a read returns the last acknowledged write
(`ReadsExpected`); the directory holds all of them at every instant
(`DurableAlways`); no table in use is missing (`FilesExist`) or overwritten
(`NumbersFresh`); levels below 0 are sorted and disjoint (`LevelsDisjoint`);
maintenance does not change what is read (`MaintenanceInvisible`); a batch
becomes durable and visible as a whole (`ImplementsStore`); scans and lookups
agree (`ScanAgreesWithGet`) and a scan leaves nothing out (`ScanIsComplete`); every
operation returns (`OperationsReturn`, `CallsReturn`), because none of its steps
takes it back (`OperationsAdvance`) and the threads never all wait for each other
(`NobodyStuck`); no request for background work is lost (`NoLostWakeup`,
`RequestsTaken`, `RequestsFlush`); of several `Close`
calls one is always left to close the database (`ThrowLeavesCloser`,
`SomeCloseFinishes`); the background thread is gone
and the memtable flushed when the object is closed (`ThreadGoneFirst`,
`ClosedIsFlushed`); what was fsynced survives a loss of power, under a condition
(`PromisedRecovered`); and each file format gives back what was written, or
says that it cannot (`LoggedIsReplayed`, `RecoversLogged`, `WholeIsOpened`,
`ReadsBack`, `CutOffIsRefused`, `LoadsLastSave` and others).

## Modules

| Module | What it is |
|--------|------------|
| `LsmTree` | The data: tables, levels, lookup of a key, merge of two levels. Operators only. |
| `ClomDB` | The storage engine as a state machine: one action per step of an operation, one per error return, and `Crash`. Properties at the end. |
| `KVStore` | The abstract store: a map with atomic batches, a logged and a visible state. |
| `StoreRefinement` | The mapping from `ClomDB` to `KVStore`. |
| `Reader` | `ClomDB` with an iterator beside it, and `Get` and `NewIterator` over tables that may be unreadable. |
| `Threads` | Clients, background thread, mutex, condition variable, `Close` and the destructor. |
| `PowerLoss` | Log, tables and manifest on the disk and in the page cache. |
| `Coding` | `coding.h`: integers, length-prefixed strings, CRC. Operators only. |
| `LogFile` | Write batches and the log as bytes. |
| `Bloom` | `bloom.h` for any hash function. Operators only. |
| `TableFile` | A table as bytes: writer and reader. |
| `ManifestFile` | The manifest as bytes: save, crash, load. |
| `MCClomDB`, `MCReader`, `MCLogFile`, `MCTableFile`, `MCManifestFile` | Instances for TLC: the values of constants, budgets of writes, failures and iterator calls. |
| `ClomDBProofs` | Proofs: types, the tables and their numbers; what a lookup returns, that a compaction changes no lookup and levels stay sorted; that operations advance. |
| `StoreProofs` | Proofs: reads, durability and the invisibility of maintenance; the engine implements `KVStore`; what the losses come down to; scans and lookups agree, and a scan is complete. |
| `ThreadsProofs` | Proofs: the safety properties of the threads. |
| `PowerLossProofs` | Proofs: what survives a crash and a loss of power. |
| `CodingProofs` | Proofs: what `coding.h` writes it reads back; the lemmas on recursion, loops and concatenation that the formats need. |
| `ManifestProofs`, `LogProofs` | Proofs: manifest and log give back what was written. |
| `TableProofs` | Proofs: no false negatives of the filter; a table gives back its entries. |

`Reader`, `StoreRefinement` and the proofs build on `ClomDB`. `Threads` and
`PowerLoss` look at the same code from another side and abstract from what
`ClomDB` has in detail (the tree, and the interleaving). `LogFile`, `TableFile`
and `ManifestFile` justify what `ClomDB` takes for granted about a record, a
table and a manifest: it is there whole or is recognised as not being there.

Definitions whose name has a suffix after an underscore (`FlushTable_RemovesLog`)
are broken variants: each puts a plausible mistake into the definition that
follows it, and a property must catch it. No specification uses them.

### The engine: state

`dir`, `manifest`, `sst`, `wal` are the database directory and survive a crash.
`mem`, `memBytes`, `version`, `nextFile`, `walOpen`, `bgRequested`, `handle` are
the members of the `DB` object. `pc` and `op` say where the operation that holds
the mutex is, and `fresh`, `replayAt`, `pending`, `comp` are its local variables.
`expect` and `lost` are history: the values a read of each key may return, and
the ways in which the code has lost writes.

`expect[k]` grows when a record of `k` reaches the log (the write may still
fail) and becomes the single new value when the batch is applied. A write whose
append failed although its record is in the file (an fsync error) leaves both
values possible. `lost` gets `"buried"` when a replay stops in front of complete
records, `"unread"` when a read error ends it there, and `"wiped"` when the
manifest of an unloaded `Version` replaces one that named tables. These are
defects reported below; the other properties are stated for the histories
without them, and violation runs show them.

A further defect is in the sweep of `Open`, which compares two strings for the path
of a table. `DbPaths` has the kinds of `db_path` clients open the database with, as
the number of separators at its end; `SSTablePath` and `EntryPath` are the two
strings, as far as they can differ, and `Unreferenced` is what the sweep takes for
orphans. In the runs `DbPaths` has only paths that do not end with a separator:
with others every table is lost at the first `Open`, and nothing else could be
observed (see the findings).

### The engine: actions

| Code | Actions |
|------|---------|
| `DB::Open` | `OpenBegin`, `OpenLoad`, `OpenReaders`, `ReplayRecord`, `ReplayEnd`, `OpenWal`, `OpenPersist`; errors `OpenLoadFails`, `OpenFails`, `ReplayReadFails` |
| `DB::Write` | `WriteBegin`, `AddRecord`, `ApplyBatch`; error `AddRecordFails` |
| `DB::Flush`, `BackgroundLoop` | `FlushCall`, `BackgroundBegin` |
| `FlushMemTableLocked` | `FlushTable`, `FlushSave`, `RotateWal`; errors `FlushTableFails`, `FlushSaveFails`, `RotateWalFails` |
| `NeedsCompactionLocked`, `CompactLocked` | `CompactNone`, `CompactPick`, `CompactOutput`, `CompactInstall`, `CompactRemove`; errors `CompactReadFails`, `CompactOutputFails`, `CompactInstallFails` |
| `DB::Close`, `~DB` | `CloseBegin`, `CloseFinish`, `AbandonFinish`, `Destroy` |
| the process dies | `Crash` |

A step ends where a crash or an error can tell the states before and after it
apart. Steps of different operations never interleave, because the code holds
the mutex during all of them (`Close` is the exception, see `Threads`).

### The other modules: state and actions

*KVStore and StoreRefinement.* `store` is what a restart would find, computed
from manifest, tables and log as recovery does (`StoreMap`); `view` is what `Get`
returns (`ViewMap`). `Log` is the append of a record, `Apply` its application,
`Restart` the end of an object, and `Forget` the loss of a record whose write had
failed. `ImplementsStore` says that each step of the engine is one of these or
changes neither map, as long as nothing was lost in the known ways and no
complete record lies behind a torn one (`Unharmed`, before and after the step).
This is the atomicity of batches, which `expect`, kept per key, does not express.

*Reader.* `GetEntry` and `ScanEntry` are the results of `Get` and of the merge in
`NewIterator` when some tables cannot be read. `NewIterator` copies the live
entries into `snapshot`; `SeekToFirst`, `Seek` and `Advance` are the methods of
`Iterator`. The engine of `ClomDB` runs in between, but cannot reach the iterator,
which is a copy; what could go wrong is the copy (the order of the merge,
tombstones) and the walk over it. `scope`, `seen` and `frozen` are history: the
range of the walk, the entries visited, and what `Get` returned when the iterator
was made.

*Threads.* `pc` is where each thread is: a client in a call, waiting for the
mutex or inside the steps of `Close` (`check` for `joinable()`, `join`, `joining`,
`finish`), the background thread in `wait`, `woken` (waiting for the mutex or about
to test the predicate), `work` or `exited`. The tree is two bits: entries in the
memtable, an overfull level. An operation under the mutex is one step. Two joins
of one thread make the second throw, as POSIX threads do (EINVAL); the standard
leaves it undefined.

*PowerLoss.* A write is an identifier. `logSynced`, `safe` and `manifests` say what
a loss of power leaves. The code never fsyncs the directory, so until the operating
system writes it back the name `CURRENT.wal` may come to stand for a log that was
removed, or for no file, whatever was fsynced of the new log: `oldLogs`. `Write`,
`FlushTable`, `FlushSave`, `LogClose`, `LogRotate` are the points where the code
hands something to the operating system or fsyncs it; `Writeback`, `Crash` and
`PowerFails` are the environment. `Open` recovers; when the manifest does not load
(`OpenDamaged`) or a table is not there (`OpenMissing`) it fails, and the destructor
of its object saves an empty manifest, or the one that was loaded. After
`OpenDamaged` the next `Open` removes all tables and replays the log.

*LogFile, TableFile, ManifestFile.* Files are sequences of bytes, and the
readers parse them as the code does, check by check. `LogFile` has a batch being
built (`Add`, `Clear`, `SetData`), `Write`, an append that ends at any byte
(`WriteCutShort`) and `Reopen`. `TableFile` writes a table, all of it or up to any
byte, and opens it; `Get` and `ReadAll` are operators. `ManifestFile` has the steps
of `Save`, their failures, a crash that leaves any beginning of the temporary
file, and `Load` at the restart.

### Abstractions

* Keys are integers, values model values; the code only compares keys.
* A batch is its net effect per key, as `WriteBatch::Iterate` leaves it in the
  memtable. Empty batches return before anything happens.
* The vector of files of a level is a set of numbers: its order is always that
  of the numbers (level 0 grows by the next number, outputs are numbered in key
  order, the manifest keeps the order).
* `sst[n] = EmptyTable` stands for a file that does not exist or is not a
  complete table: the code refuses to write an empty table and to open an
  incomplete one.
* A file has as many bytes as entries. The size at which a compaction starts a
  new output is replaced by any cut.
* A record of the log is complete or torn. The bytes that follow a torn record
  are taken to fail the checksum. A record that stdio buffered and a later
  flush wrote is one that a failed `AddRecord` left in full.
* Of a `db_path` only the separators at its end count: elsewhere the two strings that
  the sweep compares are the same.
* `ApplyBatch` leaves out the error of `WriteBatch::Iterate`, which needs a batch that
  got operations and then other contents by `SetData`. It comes after the batch was
  logged and applied, and only skips the flush or the request for one; the next
  write makes up for it.
* A `Load` that fails leaves the object as it was constructed. The checks behind
  that of the checksum, which fail with `version_` filled in part, refuse no file
  that `Save` wrote.
* `ReadAt` of `TableFile` seeks also where there is nothing to read, and finds a size
  beyond the file wrong where `std::string` may throw first. Both concern footers
  that `SSTableWriter` never writes.
* A missing manifest is the manifest of a default `Version`: `Load` answers
  NotFound and `Open` goes on with one.
* Bloom filters and key ranges only skip tables that do not hold the key
  (`NoFalseNegative` in `TableProofs`, `LookupFirst` in `ClomDBProofs`).
* In `ClomDB` a crash is a process crash: what was handed to the operating
  system stays. `PowerLoss` has the other kind.
* The byte-level modules have narrow bytes: 4 bits, of which a varint group has
  3; lengths and checksums of 2 or 3 bytes. The algorithms are parameterised by
  the widths, and every boundary (a length that takes one more group, a record
  cut inside each field) occurs. The polynomials are of the scaled width; that of
  the code has the same property, that any single bit error is detected.

## Runs

| Run | Checks | Result |
|-----|--------|--------|
| `inline` | reads, durability, tables and their numbers, invisibility, and the refinement of `KVStore`, with the work done in the writer (`background_compaction = false`) | pass, 809,001 states |
| `background` | types, reads, durability, disjoint levels, invisibility, `OperationsAdvance` and `OperationsReturn` with the background thread, compaction at the first level-0 file | pass, 411,262 states |
| `scans` | `ScanAgreesWithGet`, `ScanIsComplete` and the iterator's types | pass, 2,154,396 states |
| `threads` | two clients and the background thread: five safety and four liveness properties, types | pass, 91,072 states |
| `page_cache` | `PromisedRecovered`, types | pass, 127,711 states |
| `log_file` | `RecoversLogged`, `LoggedIsReplayed`, `DamageEndsReplay`, types | pass, 94,821 states |
| `table_file` | `ReadsBack`, `WholeIsOpened`, `CutOffIsRefused`, types | pass, 67,743 states |
| `manifest_file` | `LoadsLastSave`, `DamageIsRefused`, types | pass, 122,094 states |
| `torn_tail` | `SurvivesTornTail` | violated |
| `failed_open` | `SurvivesFailedOpen` | violated |
| `read_error` | `ReadErrorsSurface` | violated |
| `sync_writes` | `SyncedRecovered` | violated |

Bounds. Two keys let a batch be atomic over both, let ranges be disjoint or
overlap, and let an output be cut. Three levels are the least with an inner
level, so that tombstones are kept once and dropped once. The put, the delete
and the batch of two give overwriting, deleting and resurrecting. `MaxFile = 5`
and `MaxWal = 3` are reached: at the bound a flush or an append can only fail,
as on a full disk. `MaxWrites = 3` fills level 0 to its trigger and overwrites
what a compaction moved down; in `background`, with a trigger of 1, it takes an
entry to the last level and a tombstone after it. `MaxFaults` counts error
returns, removals that leave a file behind and crashes: two of them in `inline`
combine a failed save with a crash, or a log that was not removed with another
recovery. Failures forced by a bound are free, so the bounds never deadlock.

In `scans`, four calls on iterators are enough to make one, walk it over both
keys to its end and make or rewind another, with the engine running in between; a
table that cannot be read counts as a failure. In `threads`, two clients with two
calls each give overlapping and repeated `Close` calls, a write in the gap that
`Close` leaves, and a request while the thread works; two failures let a flush
fail and be tried again. In `page_cache`, three writes and two flushes give
a write in a table, one in the log of the second flush and one after it, and logs
removed twice that may come back. In
`log_file` two appends are the least with a record behind a torn one; one key
and a value whose length takes two bytes suffice, since order and overwriting are
what the replay must keep. In `table_file` the keys are the empty one, one, and
one that it is a prefix of, and each may have any of three hashes, so that bits
of the filter are shared or not. In `manifest_file` two tables over two levels
and the next number are loaded back after any combination of failed saves.

Fairness. `OperationsReturn` assumes weak fairness of the steps of the running
operation. The code justifies it: the operation holds the mutex and none of its
steps waits for another thread. Nothing is assumed of the clients, of the
background thread or of the environment. In `Threads` each thread is weakly fair:
one that can take a step takes it. Nothing is assumed of the order in which the
mutex is granted (`std::mutex` promises none), of spurious wake-ups or of further
calls; the properties hold because the calls of the clients are bounded, so a
thread cannot be overtaken for ever. With clients that call without end,
starvation at the mutex cannot be excluded by the code.

## Findings

* *A torn record buries what follows* (`torn_tail`). `wal.h` and the README say
  that the log is truncated at the last valid record. `ReplayAll` stops there,
  but nothing truncates the file, and `WriteAheadLog::Open` appends behind the
  torn record. A record appended later is acknowledged, readable until the
  process ends, and skipped by the next recovery unless a flush came first. The
  same happens without a crash in between, after an append that failed.
* *A failed Open empties the database* (`failed_open`). If the manifest cannot
  be read once (it is damaged, or no file descriptor is left), `Open` returns
  an error and the destructor of the object saves its default `Version` over the
  manifest. The next `Open` removes every table as unreferenced.
* *A read error is taken for absence* (`read_error`). `SSTableReader::Get` returns
  false when it cannot read, so `DB::Get` answers from an older table, or
  NotFound; `NewIterator` leaves the table out; `ReplayAll` takes the error for
  the end of the log, and the next flush removes the records it did not see.
* *An fsynced write may not survive a loss of power* (`sync_writes`). The log is
  removed when the table and the manifest have been written but not fsynced. The run
  takes the promise of `options.h` at its weakest: the write was fsynced, and at one
  moment everything was on the disk. A flush later the log is gone, the manifest is
  damaged by the loss of power, and no `Open` finds the write. The name of a log that
  was just made is not on the disk either, so even before a flush an fsync of the log
  alone promises nothing. `PromisedRecovered` says what does hold: fsynced writes
  survive provided tables, manifest and the names in the directory have been
  written back.

Other differences between code and documents met while modelling, without a run
of their own:

* A `db_path` that ends with a separator empties the database. `SSTablePath` of the
  path `db/` is `db//000000000001.sst`; the directory iterator gives
  `db/000000000001.sst`. No string matches, so the sweep of `Open`, of which `db.cpp`
  says "Harmless to delete: the manifest is the sole source of truth for what's live",
  removes every table that the manifest names, and this `Open` and all that follow
  fail because the tables are missing. No failure and no interleaving is needed:
  `FilesExist` fails if Inline.cfg has `DbPaths = {0, 1}`, after a write, its flush
  and a second `Open`. The other properties are those of a database that is
  not opened in this way.
* Two threads in `Close` at once: both find the background thread joinable, and
  the second join throws, although `db.h` calls the methods internally
  synchronized (`JoinThrows` in `Threads`; `SomeCloseFinishes` is what holds).
* With `l0_compaction_trigger = 0`, which `Open` accepts, an empty level 0 is
  overfull and `Flush` never returns (`OperationsReturn` fails if Background.cfg
  has this value; `EveryStepAdvances` needs at least 1).
* The repository's README says under "No snapshots/MVCC" that "there's no isolation
  between a long-running scan and concurrent writes beyond what the single mutex
  incidentally provides", while `db.h` speaks of "a point-in-time snapshot iterator"
  and `iterator.h` of "the merged view of the database at the moment NewIterator() was
  called". The code does what the headers say: `NewIterator` copies every entry under
  the mutex, and no write after it reaches the iterator.
* The background thread flushes the memtable at each wake-up, whatever
  `memtable_flush_bytes` says (`BackgroundBegin`).
* A batch filled by `SetData` keeps a count of 0, so `Write` returns OK and drops
  it (`WriteEmpty` in `LogFile`).
* The length of a record is cut to 32 bits, so a batch of 4 GiB is acknowledged
  and cannot be replayed (`RecoversLogged` fails, without any torn append, if
  LogFile.cfg has words of one byte: `Fixed32 = 1`, `CrcPoly = 12`,
  `MaskShift = 2`, `MaskDelta = 10`, `MaxTears = 0`).
* `verify_checksums` is ignored, and the data section and the footer of a table
  have no checksum, although the repository's README speaks of a checksummed
  footer.
* A torn record may be completed by the first bytes of a later one and then be
  replayed: a write that failed shows up. `RecoversLogged` allows it.

## Proofs

TLAPS checks, for every value of the constants, the theorems below. They rest on
the assumptions of the modules and on nothing else:

* `TreeAssumption` and `EngineAssumption` for the engine (finiteness of keys,
  values or batches is not needed);
* `ReaderAssumption`, for the iterator: its end is not a key, and the keys, if
  any, have a least one, as strings have the empty one (`lower_bound` and `begin()`
  need a least entry to return);
* `ThreadsAssumption`: clients, background thread and `None` are different, and the
  budgets are numbers;
* `PowerAssumption`: a damaged manifest is not a set of tables;
* `BloomAssumption`: the widths, the least size and the number of probes are positive;
* `CodingAssumption`: the widths are positive and a varint of the most bytes holds a
  32-bit number, as five groups of seven bits do;
* `ManifestAssumption`, `LogAssumption`, `TableAssumption`: what the code writes behind
  a length of 32 bits or in a fixed number of bytes fits there (keys, values,
  batches, offsets, file numbers). The code never compares them, and beyond these
  sizes the properties fail (see the findings on a record of 4 GiB).

`EveryStepAdvances` also assumes that `L0CompactionTrigger` is at least 1. The theorems
on the properties of the engine and of its readers, all but `Typing`, assume that
`db_path` does not end with a separator (`PlainPaths`); `OnlyDefectsLoseWrites` and
`SoundEngineIsStore` do not.

| Module | Theorem | Property |
|--------|---------|----------|
| `ClomDBProofs` | `Typing` | `TypeOK` |
| `ClomDBProofs` | `NoMissingTable` | `FilesExist` |
| `ClomDBProofs` | `NoTableOverwritten` | `NumbersFresh` |
| `ClomDBProofs` | `SortedLevels` | `LevelsDisjoint` |
| `ClomDBProofs` | `EveryStepAdvances` | `OperationsAdvance` |
| `StoreProofs` | `ReadsReturnWrites` | `ReadsExpected` |
| `StoreProofs` | `WritesAreDurable` | `DurableAlways` |
| `StoreProofs` | `MaintenanceHidden` | `MaintenanceInvisible` |
| `StoreProofs` | `EngineImplementsStore` | `ImplementsStore` |
| `StoreProofs` | `OnlyDefectsLoseWrites` | no run: without a step of the four kinds below, nothing is lost |
| `StoreProofs` | `SoundEngineIsStore` | no run: then the engine is `KVStore`, with no exception |
| `StoreProofs` | `ReaderTyping` | `ReaderTypeOK` |
| `StoreProofs` | `ScansAgree` | `ScanAgreesWithGet` |
| `StoreProofs` | `ScansAreComplete` | `ScanIsComplete` |
| `ThreadsProofs` | `ThreadsTyping` | `TypeOK` |
| `ThreadsProofs` | `ClosedAfterFlush` | `ClosedIsFlushed` |
| `ThreadsProofs` | `ThreadLeavesFirst` | `ThreadGoneFirst` |
| `ThreadsProofs` | `WakeupsAreKept` | `NoLostWakeup` |
| `ThreadsProofs` | `OneCloserRemains` | `ThrowLeavesCloser` |
| `ThreadsProofs` | `ThreadsNeverDeadlock` | `NobodyStuck` |
| `PowerLossProofs` | `PowerTyping` | `TypeOK` |
| `PowerLossProofs` | `PromisesKept` | `PromisedRecovered` |
| `CodingProofs` | `FixedReadsBack`, `VarintReadsBack`, `LengthPrefixedReadsBack` | no run: each is read back, and what follows it is left |
| `ManifestProofs` | `LoadReadsBack` | no run: `Load` of what `Save` wrote is the version |
| `ManifestProofs` | `ManifestTypes` | `TypeOK` |
| `ManifestProofs` | `LastSaveIsLoaded` | `LoadsLastSave` |
| `LogProofs` | `AppendedIsReplayed` | `LoggedIsReplayed` |
| `TableProofs` | `NoFalseNegative` | no run: a key in the set is never denied, and every probe is inside the filter |
| `TableProofs` | `WholeTablesAreOpened` | `WholeIsOpened` |
| `TableProofs` | `OpenTablesReadBack` | `TypeOK` and `ReadsBack`, where `CutOffIsRefused` holds |

For the engine the argument has five layers, each an invariant that includes the one before.

*Types.* `TypeOK` is inductive once it says that the pending batch is a batch
while it is appended and applied. It needs `MergeType`, that a merge is a table,
and with it that `Max` and `Min` of a bounded set of file numbers are members of
it (`MaxIs`, `MinIs`, from well-foundedness of the natural numbers).

*Files* (`FileInv`). `FilesExist` alone is not inductive, because a compaction
removes files and a flush writes over a number: one has to know that the files a
compaction removes are named neither by `version_` nor by the manifest
(`Replaced`), which needs that a number is in one level only (`OneLevel`) and
that outputs are new (`Numbered`); that the manifest never names a number at or
above the next one, although failed saves let `version_` run ahead of it
(`Numbered`); and that the steps that write tables only run on an object that
loaded the manifest (`PhaseInv`). The step lemma has one case per action; the
actions that touch neither tables, manifest nor `version_` share `QuietStep`,
the ends of an object `DiscardStep`, and the saves of an unchanged `version_`
`SaveStep`. The sweep of `Open` keeps the invariant if it spares the tables of the
manifest (`Spares`). The invariants are therefore proved of `SparingSpec`, in which
every step does, and `PlainSpec` shows that `Spec` is such a specification where
`PlainPaths` holds, because the two strings for a path are then equal.

*Levels* (`LevelInv`). During a compaction the outputs so far are sorted and lie
below what is left (`Sorted`), and together with it they are exactly the merge
of the two levels (`Merging`). A lookup is characterised by the first level that
has the key (`LookupFirst`, `LookupNone`); `LookupCompacted` compares the levels
before and after a compaction by where that level is. It needs sortedness, since
the merge takes the last of the files of level l + 1 where `Get` takes the
first, and the rule that tombstones go only at the last level.

*Data* (`DataInv`). `ReadsExpected` and `DurableAlways` talk about single states;
what is inductive says, for each key, which of the log, the memtable and the
tables has an expected value: the last record that mentions the key
(`LogCovers`), or else the tables of both the manifest and `version_`
(`TablesCover`); once the log is replayed, the memtable and then the tables
(`MemoryCovers`). `Replaying` ties the memtable to the part of the log that
was replayed, and `Staged` keeps what a step needs of the steps before: a flush
that is about to save has a table for all of the memtable, one that is about to
remove the log has saved `version_` and has an empty memtable, a write that is
about to be applied is the last record. `StepKinds` sorts the actions by what
they can change, `LookupStep` says what they do to lookups, and `CoverStep` has
a case for each action that changes the log, the memtable or what is expected.
The theorems carry the condition `lost = {}` of their properties; what it comes
down to is said under *Losses*.

*Refinement* (`RefinementInv`). `DataInv` says that log, memtable and tables have
*an* expected value; the refinement needs that they have *the same* one. Two
facts are added, as long as nothing is lost: for a key that the log does not
mention the manifest answers as `version_` does (`SavedAlike`), so that saving
the manifest, which failed saves may have delayed, changes nothing a restart
would find; and an object that has replayed the log and is not yet open reads
what a restart would find (`OpensAlike`), so that the destructor of a failed
`Open`, which flushes, may remove the log. The mapping then has one lemma for
each kind of step: the append of a record, also one whose write fails, is `Log`
(`LogMap`); `ApplyBatch` is `Apply` (`ApplyMap`); removing the log is `Forget`, the
loss of records whose writes had failed, or nothing while the object is being
opened (`RotateMap`); the beginning and the end of an object are `Restart`, and
everything else changes neither map (`QuietMap`). `MapStep` puts them together.

*Losses* (`Sound`, `Intact`). `lost` is a history variable, so a condition on it says
little about the code. `Sound` says it in terms of steps: one is sound if it does not
append to a log that holds a part of a record, does not end the replay before the
end of the log because a read failed, does not save `version_` of an object
that could not load the manifest, and does not sweep away a table that the manifest
names. As long as every step is sound nothing is lost
and a part of a record is the last thing in the log (`Intact`), so no complete
record is ever buried. `OnlyDefectsLoseWrites` and `SoundEngineIsStore` are then
the theorems above without their conditions. `Sound` restricts the executions of
the code as it is; it does not describe a repaired program. That each of the four
steps is reachable and does lose writes is what `torn_tail`, `read_error`,
`failed_open`, and `inline` with `DbPaths = {0, 1}`, show.

*The compaction loop* (`LoopInv`). `OperationsAdvance` is a measure: the stage of the
operation, then the level of the loop, then the part of the compaction, then the
entries left to write. That the loop never returns to a level needs that the levels
above the one being compacted are not overfull, although the loop looks for the
first one from the top each time. A compaction empties its level and touches only
the next, and an empty level is not overfull: at level 0 because the trigger is at
least 1, below it because its sum of sizes is 0 and its target a natural number
(`EmptyLevelBytes`, `TargetType`). The target is computed by a recursive function;
that it has the value its definition says is shown by induction on sets of
numbers (`SetInduction`, `TargetsExist`, `TargetsAgree`).

*Readers* (`ReaderInv`, on top of `LevelInv`). `Get` stops at the newest table that
has the key and `NewIterator` overwrites from the oldest on. Both are shown equal
to the lookup of `LsmTree` (`GetIsRead`, `ScanIsGet`): at level 0 because the newest
is the last one written over, below it because `LevelsDisjoint` leaves one table
that can have the key (`LastIsFirst`). For the iterator, `Copied` ties the snapshot
to what `Get` returned when it was made, and `Walking` says that a walk has seen
exactly the entries of its range up to where it is; `AdvanceIs` and
`LowerBoundIs` say what the methods of `Iterator` step to.

*Threads* (`SafeInv`). `ThreadGoneFirst` needs that the thread has left once it is
no longer joinable, and before any `Close` goes on to finish (`Gone`);
`ClosedIsFlushed` that the result of a `Close` is set together with `closed_`, after
which writes are refused (`Flushed`). `ThrowLeavesCloser` needs who has joined:
`joiner` is a client that is still joining, and a thread that was joined was
joined by a `Close` that is finishing or has set `closed_` (`Joined`).
`NoLostWakeup` is inductive with the types: every step that sets a flag also
notifies under the mutex, and the thread tests both flags before it waits.
`NobodyStuck` needs who can hold the mutex: a thread that is at a step that needs
it, and so can go on (`Holding`); and that a `Close` that has given the mutex up has
announced the shutdown (`Announced`), so that by `NoLostWakeup` the thread it
joins is not asleep.

*Power loss* (`PowerInv`). While the process runs the manifest loads, and tables
and log hold all that was acknowledged (`Running`). Memtable and log hold the
same writes until a flush has saved the manifest, and from then on, until the log
is gone, the tables hold the log (`Flushing`): this is the order of
`FlushMemTableLocked`. What was fsynced and would be recovered is in the tables or
in the part of the log that is on the disk (`Synced`), also while the process is
down, since a loss of power may follow a crash or another loss of power. A failed
`Open` leaves what the next one recovers as it was (`OpenDamaged`, `OpenMissing`),
which needs that beside a manifest that a loss of power damaged, the log is all on
the disk (`Settled`).

*Bloom filter.* A filter has at least one byte (`SomeBytes`), a position below
its number of bits splits into a byte and a bit of it (`BitOfByte`), and every
probe is such a position (`ProbeInBounds`); so the bits that `Build` sets for a key
are those that `MayContain` looks at. The hash function, the number of keys, the
bits per key and the widths are arbitrary.

*Coding.* The library's induction theorems cannot be instantiated here, so
induction is done on a set: the numbers for which a statement fails have a least
one (`InductionOnNat`). A recursive function is shown to satisfy its equation by
building its beginnings (`UptoExists`, `UptoAgree`, `Recursion`), once for each kind
of recursion: powers, digits, the folds of the checksum, the concatenation of a
sequence of strings, and the loops of the readers. From digits and powers follow
the three theorems on integers and strings, from the folds that a checksum is a
word (`CrcIs`) and that `Unmask` undoes `Mask` (`UnmaskMask`). For the formats,
`FlattenIs` and `FlattenAppend` take a concatenation apart, and `LoopFinds` says
that a loop that parses one item after the other reads back every sequence of
items whose encoding its body reads back, and `LoopKeeps` that what follows
them cannot change them.

*Manifest* (`FileInv`). `LoadReadsBack` follows the format inwards: levels, files
of a level, fields of a file. The invariant of the save says that the manifest
is byte for byte what `Save` writes for the last version renamed, and that the
temporary file is complete when the rename is next; anything may be in it
otherwise. Whatever the version in memory becomes must fit (`Saveable`), which
`AddFile` keeps because the number of tables is bounded.

*Log* (`LogInv`). The log is the records of the batches that were appended whole,
followed by some bytes, of which nothing is known but that there are none before
the first torn append. The records are read back (`LogReadsBack`), each payload
gives the operations of its batch (`BatchReadsBack`), and the rest of the file
cannot change that. `RecoversLogged` says more, that nothing is replayed beyond them;
this depends on the checksum and is not true of every one.

*Table* (`TableInv`). An open reader was loaded from the bytes that are there.
`TableLoads` finds the sections of a whole table by its footer and reads the index
and the filter back: offset by offset (`IndexReadsBack`) and bit by bit
(`BitsReadBack`). `GetIsStored` then needs that the keys are sorted, so that
`lower_bound` finds the key (`BoundIs`), that the filter lets it pass
(`FilterPasses`, from `NoFalseNegative`), and that the entry at its offset is
read back whatever follows (`EntryReadsBack`). `ReadAllIs` is the same for all
entries in turn. The theorem has `CutOffIsRefused` as a condition: a table that was
cut off has no footer, unless its data or its index, which clients choose, end at
the cut in bytes that look like one, and whether any do depends on keys, values
and the magic number.

TLC finds each of these invariants true on the instances of the runs of its
module (`LogInv` with the bytes behind the last whole record for `tail`).

Only model-checked:

* `OperationsReturn`, `CallsReturn`, `RequestsTaken`, `RequestsFlush` and
  `SomeCloseFinishes`: liveness under fairness is out of the prover's reach.
  `WakeupsAreKept`, `OneCloserRemains` and `ThreadsNeverDeadlock` are the safety part
  of the last four, `EveryStepAdvances` that of the first;
* `RecoversLogged`, `DamageEndsReplay`, `DamageIsRefused`, `CutOffIsRefused`, and the
  types of `LogFile`, whose memtable holds only what clients wrote if no damaged
  record is replayed: they say that something is recognised as not being a record, a
  manifest or a table. A checksum or a magic number can be met by chance, so
  they hold for the polynomials, keys and values of the runs and not for all;
* the four violation runs, which are counterexamples.

## Plan

1. Done: `LsmTree`, `ClomDB` and proofs of all their safety properties.
2. Done: `Threads`; `KVStore` and the refinement; `Reader`; `PowerLoss`; the
   byte-level modules; the proof about the Bloom filter.
3. Done: proofs of the safety properties of `Threads`, `PowerLoss` and `Reader`, and
   that `ClomDB` implements `KVStore`.
4. Done: proofs about the file formats, that operations advance, that the threads do
   not deadlock, and that the four defects are the only ways to lose a write.
5. Left: that a polynomial of the code's kind detects every single bit error is a
   statement about its algebra. `DamageIsRefused` would follow from it for every
   manifest, and `DamageEndsReplay` for a bit of the checksum or the payload of a
   record; not for a bit of the length, which changes what the checksum is taken of.

## Not modelled

`GetStats` (it reads only); the refusals at the start of `Open`
(`create_if_missing`, `error_if_exists`), which leave everything as it was; the
CLI, the benchmark and the tests, which are clients of the library; the
arithmetic of `BloomHash`, on which nothing depends; `PutVarint64` and
`GetVarint64Ptr`, which nothing calls; `bg_idle_` and `bg_idle_cv_`, which are set
and never read; accessors and message texts of `Slice` and `Status`; two processes
on one directory (the code has no lock file).
