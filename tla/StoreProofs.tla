---------------------------- MODULE StoreProofs ----------------------------
(***************************************************************************)
(* ClomDB is a store. It keeps what it acknowledged: the directory always  *)
(* holds the expected values, reads return them, and maintenance does not  *)
(* change what is read. Every step of it is a step of KVStore, or changes  *)
(* neither what clients read nor what a restart would find. And Get and    *)
(* NewIterator agree in every state of it.                                 *)
(***************************************************************************)
EXTENDS Reader, StoreRefinement, ClomDBProofs

-----------------------------------------------------------------------------
(* Nothing acknowledged is lost *)

(***************************************************************************)
(* ReadsExpected and DurableAlways are about the states between operations *)
(* and after a crash. DataInv says what holds in between: which of the     *)
(* log, the memtable and the tables has the expected value of each key     *)
(* while an open replays, a write is logged but not applied, or a flush    *)
(* has written its table but not saved the manifest.                       *)
(***************************************************************************)

\* What the steps of Open, Write, Close and a flush know of the steps before.
Staged ==
    /\ pc \in {"load", "readers", "replay"} \/ op = "load_failed" => handle = "opening"
    /\ pc \in {"append", "apply"} \/ op = "close" => handle = "open"
    /\ pc = "f_save" => \A k \in Keys : k \in DOMAIN mem => Lookup(version, sst, k) = mem[k]
    /\ pc = "f_rotate" => mem = EmptyTable /\ manifest.levels = version
    /\ handle = "none" \/ pc \in {"load", "readers"} => replayAt = 1 /\ mem = EmptyTable
    /\ pc = "apply" => Len(wal) \in DOMAIN wal /\ wal[Len(wal)] = pending

\* i is the last of the records of M that come before record r.
LastBefore(M, i, r) == i \in M /\ i < r /\ \A j \in M : j < r => j <= i

\* The memtable holds the records replayed so far.
Replaying ==
    pc = "replay" => \A k \in Keys :
      /\ \A i : LastBefore(Mentions(k), i, replayAt) => k \in DOMAIN mem /\ mem[k] = wal[i][k]
      /\ k \in DOMAIN mem => \E i \in Mentions(k) : i < replayAt

\* The log has been replayed into the memtable.
Recovered ==
    Loaded /\ (handle \in {"open", "closed"}
               \/ pc \in {"openwal", "persist", "f_table", "f_save", "f_rotate"})

\* The last record that mentions k has an expected value.
LogCovers(k) ==
    \A i \in Mentions(k) : (\A j \in Mentions(k) : j <= i) => wal[i][k] \in expect[k]

\* A key that the log does not mention has an expected value in the tables.
TablesCover(k) ==
    Mentions(k) = {} =>
      /\ Lookup(manifest.levels, sst, k) \in expect[k]
      /\ Loaded => Lookup(version, sst, k) \in expect[k]

\* Memtable, or else tables, have an expected value; the log has all of the memtable.
MemoryCovers(k) ==
    /\ Loaded /\ k \in DOMAIN mem => Mentions(k) # {}
    /\ Recovered => Read(k) \in expect[k]

Covered == lost = {} => \A k \in Keys : LogCovers(k) /\ TablesCover(k) /\ MemoryCovers(k)

DataInv == LevelInv /\ Staged /\ Replaying /\ Covered

\* The records of a log that one is appended to, and which of them mention a key.
LEMMA Appended ==
    ASSUME NEW log \in Seq(Batches \cup {Torn}), NEW r \in Batches \cup {Torn}
    PROVE  /\ Len(log) \in Nat /\ DOMAIN log = 1 .. Len(log)
           /\ Len(Append(log, r)) = Len(log) + 1
           /\ DOMAIN Append(log, r) = DOMAIN log \cup {Len(log) + 1}
           /\ Append(log, r)[Len(log) + 1] = r
           /\ \A i \in DOMAIN log : Append(log, r)[i] = log[i]
<1>1. Len(log) \in Nat /\ DOMAIN log = 1 .. Len(log)
  OBVIOUS
<1>2. Len(Append(log, r)) = Len(log) + 1 /\ Append(log, r)[Len(log) + 1] = r
  OBVIOUS
<1>3. \A i \in 1 .. Len(log) : Append(log, r)[i] = log[i]
  OBVIOUS
<1>4. DOMAIN Append(log, r) = 1 .. Len(log) + 1
  OBVIOUS
<1> QED BY <1>1, <1>2, <1>3, <1>4

\* Which steps lead to which points of the operations, and which steps change what.
LEMMA StepKinds ==
    ASSUME PhaseInv, Staged, [SparingNext]_vars
    PROVE  /\ pc' \in {"load", "readers", "replay"} \/ op' = "load_failed" => handle' = "opening"
           /\ pc' \in {"append", "apply"} \/ op' = "close" => handle' = "open"
           /\ pc' = "f_save" => FlushTable \/ UNCHANGED vars
           /\ pc' = "f_rotate" => FlushSave \/ UNCHANGED vars
           /\ pc' = "apply" => AddRecord \/ UNCHANGED vars
           /\ pc' = "replay" => OpenReaders \/ ReplayRecord \/ UNCHANGED vars
           /\ handle' = "none" => Discard \/ UNCHANGED vars
           /\ pc' = "load" => OpenBegin \/ UNCHANGED vars
           /\ pc' = "readers" => OpenLoad \/ UNCHANGED vars
           /\ lost' = {} => lost = {}
           /\ Loaded' => Loaded \/ OpenLoad
           /\ Loaded /\ handle' # "none" => Loaded'
           /\ Recovered' /\ lost' = {} => Recovered \/ ReplayEnd \/ OpenFails
           /\ UNCHANGED version \/ ~Loaded' \/ OpenLoad \/ FlushTable
                \/ CompactInstall \/ CompactInstallFails
           /\ \/ UNCHANGED manifest \/ CompactInstall
              \/ FlushSave \/ OpenPersist \/ CloseFinish \/ AbandonFinish
           /\ \/ UNCHANGED <<wal, mem, expect>> \/ ReplayRecord \/ AddRecord \/ AddRecordFails
              \/ ApplyBatch \/ FlushSave \/ RotateWal \/ RotateWalFails
              \/ UNCHANGED expect /\ ~Loaded' /\ wal' \in {wal, Append(wal, Torn)}
<1> USE DEF SparingNext, Next, Begin, Work, Opening, Writing, Flushing, Compacting, Finishing, Failing, vars,
       OpenBegin, WriteBegin, FlushCall, BackgroundBegin, CloseBegin, Destroy, OpenLoad,
       OpenReaders, ReplayRecord, ReplayEnd, ReplayReadFails, OpenWal, OpenPersist, AddRecord, ApplyBatch,
       FlushTable, FlushSave, RotateWal, CompactNone, CompactPick, CompactOutput, CompactInstall,
       CompactRemove, CloseFinish, AbandonFinish, OpenLoadFails, OpenFails, AddRecordFails,
       FlushTableFails, FlushSaveFails, RotateWalFails, CompactReadFails, CompactOutputFails,
       CompactInstallFails, Crash, Discard, Saved, Return, Closing, FlushOr, PhaseInv, Loaded,
       disk, memory, control, history
<1>1. pc' \in {"load", "readers", "replay"} \/ op' = "load_failed" => handle' = "opening"
  BY DEF Staged
<1>2. pc' \in {"append", "apply"} \/ op' = "close" => handle' = "open"
  BY DEF Staged
<1>3. pc' = "f_save" => FlushTable \/ UNCHANGED vars
  OBVIOUS
<1>4. pc' = "f_rotate" => FlushSave \/ UNCHANGED vars
  OBVIOUS
<1>5. pc' = "apply" => AddRecord \/ UNCHANGED vars
  OBVIOUS
<1>6. pc' = "replay" => OpenReaders \/ ReplayRecord \/ UNCHANGED vars
  OBVIOUS
<1>7. /\ handle' = "none" => Discard \/ UNCHANGED vars
      /\ pc' = "load" => OpenBegin \/ UNCHANGED vars
      /\ pc' = "readers" => OpenLoad \/ UNCHANGED vars
  OBVIOUS
<1>8. lost' = {} => lost = {}
  OBVIOUS
<1>9. /\ Loaded' => Loaded \/ OpenLoad
      /\ Loaded /\ handle' # "none" => Loaded'
  OBVIOUS
<1>10. Recovered' /\ lost' = {} => Recovered \/ ReplayEnd \/ OpenFails
  BY DEF Recovered, Staged
<1>11. UNCHANGED version \/ ~Loaded' \/ OpenLoad \/ FlushTable
         \/ CompactInstall \/ CompactInstallFails
  OBVIOUS
<1>12. \/ UNCHANGED manifest \/ CompactInstall
       \/ FlushSave \/ OpenPersist \/ CloseFinish \/ AbandonFinish
  OBVIOUS
<1>13. \/ UNCHANGED <<wal, mem, expect>> \/ ReplayRecord \/ AddRecord \/ AddRecordFails
       \/ ApplyBatch \/ FlushSave \/ RotateWal \/ RotateWalFails
       \/ UNCHANGED expect /\ ~Loaded' /\ wal' \in {wal, Append(wal, Torn)}
  OBVIOUS
<1> QED BY <1>1, <1>2, <1>3, <1>4, <1>5, <1>6, <1>7, <1>8, <1>9, <1>10, <1>11, <1>12, <1>13

(***************************************************************************)
(* What a step does to the lookups: version_ answers as before, unless the *)
(* memtable is flushed; the manifest answers as before, or as version_.    *)
(***************************************************************************)
LEMMA LookupStep ==
    ASSUME LevelInv, Staged, [SparingNext]_vars, NEW k \in Keys
    PROVE  /\ Loaded /\ Loaded' /\ ~FlushTable =>
                Lookup(version', sst', k) = Lookup(version, sst, k)
           /\ FlushTable => Lookup(version', sst', k) = Read(k)
           /\ OpenLoad => Lookup(version', sst', k) = Lookup(manifest.levels, sst, k)
           /\ lost' = {} =>
                \/ Lookup(manifest'.levels, sst', k) = Lookup(manifest.levels, sst, k)
                \/ Loaded /\ Lookup(manifest'.levels, sst', k) = Lookup(version, sst, k)
<1>1. /\ version \in [Levels -> SUBSET FileNums]
      /\ manifest.levels \in [Levels -> SUBSET FileNums]
      /\ sst \in [FileNums -> Table] /\ mem \in Table /\ PhaseInv
  BY DEF LevelInv, FileInv, TypeOK, DiskTypes, MemoryTypes
<1>2. /\ Lookup(version, sst', k) = Lookup(version, sst, k)
      /\ Lookup(manifest.levels, sst', k) = Lookup(manifest.levels, sst, k)
  <2>1. /\ \A n \in Live(version) : sst'[n] = sst[n]
        /\ \A n \in Live(manifest.levels) : sst'[n] = sst[n]
    BY KeptStep DEF LevelInv, Kept
  <2> QED BY <1>1, <2>1, LookupAgree
<1>3. CompactInstall \/ CompactInstallFails => Lookup(version', sst', k) = Lookup(version, sst, k)
  <2> SUFFICES ASSUME CompactInstall \/ CompactInstallFails
               PROVE  Lookup(version', sst', k) = Lookup(version, sst, k)
    OBVIOUS
  <2>1. pc = "c_out" /\ comp.rest = EmptyTable /\ version' = Compacted /\ sst' = sst
    BY DEF CompactInstall, CompactInstallFails, disk
  <2> QED BY <2>1, LookupCompacted
<1>4. OpenLoad => Lookup(version', sst', k) = Lookup(manifest.levels, sst, k)
  BY <1>2 DEF OpenLoad
<1>5. FlushTable => Lookup(version', sst', k) = Read(k)
  <2> SUFFICES ASSUME FlushTable PROVE Lookup(version', sst', k) = Read(k)
    OBVIOUS
  <2>1. nextFile \in FileNums /\ Loaded
    BY <1>1 DEF FlushTable, PhaseInv, Loaded, FileNums, LevelInv, FileInv, TypeOK, MemoryTypes
  <2>2. Flushed(version, sst, nextFile, mem, version', sst')
    <3>1. \A n \in Live(version) : n < nextFile
      BY <2>1, NextIsNew DEF LevelInv
    <3> QED BY <1>1, <2>1, <3>1, Bounds DEF FlushTable, Flushed
  <2>3. Lookup(version', sst', k) = IF k \in DOMAIN mem THEN mem[k] ELSE Lookup(version, sst, k)
    BY <1>1, <2>1, <2>2, LookupFlushed
  <2> QED BY <2>3 DEF Read
<1>6. Loaded /\ Loaded' /\ ~FlushTable => Lookup(version', sst', k) = Lookup(version, sst, k)
  <2>1. OpenLoad => ~Loaded
    BY DEF OpenLoad, Loaded
  <2>2. UNCHANGED version \/ ~Loaded' \/ OpenLoad \/ FlushTable
          \/ CompactInstall \/ CompactInstallFails
    BY <1>1, StepKinds
  <2> QED BY <1>2, <1>3, <2>1, <2>2
<1>7. ASSUME lost' = {}
      PROVE  \/ Lookup(manifest'.levels, sst', k) = Lookup(manifest.levels, sst, k)
             \/ Loaded /\ Lookup(manifest'.levels, sst', k) = Lookup(version, sst, k)
  <2>1. CASE UNCHANGED manifest
    BY <1>2, <2>1
  <2>2. CASE CompactInstall
    <3>1. Loaded /\ manifest'.levels = version'
      BY <1>1, <2>2 DEF CompactInstall, Saved, PhaseInv, Loaded
    <3> QED BY <1>3, <2>2, <3>1
  <2>3. CASE FlushSave \/ OpenPersist \/ CloseFinish
    <3>1. Loaded /\ manifest'.levels \in {manifest.levels, version}
      BY <1>1, <2>3 DEF FlushSave, OpenPersist, CloseFinish, Saved, PhaseInv, Loaded
    <3> QED BY <1>2, <3>1
  <2>4. CASE AbandonFinish
    <3>1. CASE op = "load_failed"
      <4>1. version = NoFiles
        BY <1>1, <3>1 DEF PhaseInv, Loaded
      <4>2. manifest'.levels = manifest.levels
        BY <1>7, <2>4, <3>1, <4>1 DEF AbandonFinish, Saved
      <4> QED BY <1>2, <4>2
    <3>2. CASE op # "load_failed"
      <4>1. Loaded
        BY <1>1, <2>4, <3>2 DEF AbandonFinish, PhaseInv, Loaded
      <4>2. manifest'.levels \in {manifest.levels, version}
        BY <2>4 DEF AbandonFinish, Saved
      <4> QED BY <1>2, <4>1, <4>2
    <3> QED BY <3>1, <3>2
  <2> QED BY <1>1, <2>1, <2>2, <2>3, <2>4, StepKinds
<1> QED BY <1>4, <1>5, <1>6, <1>7

LEMMA StagedStep ==
    ASSUME LevelInv, Staged, [SparingNext]_vars
    PROVE  Staged'
<1>0. TypeOK /\ PhaseInv
  BY DEF LevelInv, FileInv
<1>1. /\ pc' \in {"load", "readers", "replay"} \/ op' = "load_failed" => handle' = "opening"
      /\ pc' \in {"append", "apply"} \/ op' = "close" => handle' = "open"
  BY <1>0, StepKinds
<1>2. ASSUME pc' = "f_save", NEW k \in Keys, k \in DOMAIN mem'
      PROVE  Lookup(version', sst', k) = mem'[k]
  <2>1. CASE FlushTable
    BY <1>2, <2>1, LookupStep DEF FlushTable, Read
  <2>2. CASE UNCHANGED vars
    BY <1>2, <2>2 DEF Staged, vars, disk, memory, control
  <2> QED BY <1>0, <1>2, <2>1, <2>2, StepKinds
<1>3. pc' = "f_rotate" => mem' = EmptyTable /\ manifest'.levels = version'
  <2>1. FlushSave => mem' = EmptyTable /\ manifest'.levels = version'
    BY DEF FlushSave, Saved
  <2>2. UNCHANGED vars => UNCHANGED <<pc, mem, manifest, version>>
    BY DEF vars, disk, memory, control
  <2> QED BY <1>0, <2>1, <2>2, StepKinds DEF Staged
<1>4. handle' = "none" \/ pc' \in {"load", "readers"} => replayAt' = 1 /\ mem' = EmptyTable
  <2>1. Discard => replayAt' = 1 /\ mem' = EmptyTable
    BY DEF Discard
  <2>2. OpenBegin => UNCHANGED <<replayAt, mem>> /\ handle = "none"
    BY DEF OpenBegin
  <2>3. OpenLoad => UNCHANGED <<replayAt, mem>> /\ pc = "load"
    BY DEF OpenLoad
  <2>4. UNCHANGED vars => UNCHANGED <<pc, handle, replayAt, mem>>
    BY DEF vars, memory, control
  <2> QED BY <1>0, <2>1, <2>2, <2>3, <2>4, StepKinds DEF Staged
<1>5. pc' = "apply" => Len(wal') \in DOMAIN wal' /\ wal'[Len(wal')] = pending'
  <2>1. CASE AddRecord
    <3>1. wal \in Seq(Batches \cup {Torn}) /\ pending \in Batches \cup {Torn}
      BY <1>0, <2>1 DEF AddRecord, TypeOK, DiskTypes, ControlTypes
    <3>2. wal' = Append(wal, pending) /\ UNCHANGED pending
      BY <2>1 DEF AddRecord, Logged
    <3> QED BY <3>1, <3>2, Appended
  <2>2. CASE UNCHANGED vars
    BY <2>2 DEF Staged, vars, disk, control
  <2> QED BY <1>0, <2>1, <2>2, StepKinds
<1> QED BY <1>1, <1>2, <1>3, <1>4, <1>5 DEF Staged

\* The records that mention a key are batches, and one of them is the last.
LEMMA MentionsIs ==
    ASSUME TypeOK, NEW k
    PROVE  /\ \A i \in Mentions(k) :
                /\ i \in Nat /\ i \in DOMAIN wal /\ 1 <= i /\ i <= Len(wal)
                /\ wal[i] # Torn /\ k \in DOMAIN wal[i]
           /\ Mentions(k) # {} => \E i \in Mentions(k) : \A j \in Mentions(k) : j <= i
<1>1. Len(wal) \in Nat /\ DOMAIN wal = 1 .. Len(wal)
  BY DEF TypeOK, DiskTypes
<1>2. Mentions(k) \subseteq 0 .. Len(wal)
  BY <1>1 DEF Mentions
<1>3. Mentions(k) # {} => \E i \in Mentions(k) : \A j \in Mentions(k) : i >= j
  BY <1>1, <1>2, MaxExists
<1>4. \A i \in Mentions(k) :
        /\ i \in Nat /\ i \in DOMAIN wal /\ 1 <= i /\ i <= Len(wal)
        /\ wal[i] # Torn /\ k \in DOMAIN wal[i]
  BY <1>1 DEF Mentions
<1> QED BY <1>3, <1>4

\* Part of a record, after the others, mentions no key.
LEMMA LogKept ==
    ASSUME TypeOK, wal' \in {wal, Append(wal, Torn)}, NEW k
    PROVE  Mentions(k)' = Mentions(k) /\ \A i \in Mentions(k) : wal'[i] = wal[i]
<1>1. CASE wal' = wal
  BY <1>1 DEF Mentions
<1>2. CASE wal' = Append(wal, Torn)
  <2>1. wal \in Seq(Batches \cup {Torn})
    BY DEF TypeOK, DiskTypes
  <2>2. /\ DOMAIN wal' = DOMAIN wal \cup {Len(wal) + 1} /\ wal'[Len(wal) + 1] = Torn
        /\ \A i \in DOMAIN wal : wal'[i] = wal[i]
    BY <1>2, <2>1, Appended
  <2> QED BY <2>2 DEF Mentions
<1> QED BY <1>1, <1>2

\* A record that is appended is the last one to mention its keys.
LEMMA LogGrown ==
    ASSUME TypeOK, pending \in Batches, Logged, NEW k
    PROVE  /\ \A i \in Mentions(k) : i \in Mentions(k)' /\ i < Len(wal) + 1 /\ wal'[i] = wal[i]
           /\ \A i \in Mentions(k)' :
                i \in Mentions(k) \/ (i = Len(wal) + 1 /\ k \in DOMAIN pending)
           /\ k \in DOMAIN pending => Len(wal) + 1 \in Mentions(k)'
           /\ wal'[Len(wal) + 1] = pending /\ Len(wal) + 1 \in Nat
<1>1. wal \in Seq(Batches \cup {Torn}) /\ pending # Torn
  BY BatchIs DEF TypeOK, DiskTypes
<1>2. /\ DOMAIN wal' = DOMAIN wal \cup {Len(wal) + 1} /\ wal'[Len(wal) + 1] = pending
      /\ \A i \in DOMAIN wal : wal'[i] = wal[i]
      /\ Len(wal) \in Nat
  BY <1>1, Appended DEF Logged
<1>3. \A i \in Mentions(k) : i \in DOMAIN wal /\ i < Len(wal) + 1
  BY <1>2, MentionsIs
<1>4. \A i \in Mentions(k) : i \in Mentions(k)' /\ i < Len(wal) + 1 /\ wal'[i] = wal[i]
  BY <1>2, <1>3 DEF Mentions
<1>5. ASSUME NEW i \in Mentions(k)'
      PROVE  i \in Mentions(k) \/ (i = Len(wal) + 1 /\ k \in DOMAIN pending)
  <2>1. i \in DOMAIN wal' /\ wal'[i] # Torn /\ k \in DOMAIN wal'[i]
    BY <1>5 DEF Mentions
  <2>2. CASE i \in DOMAIN wal
    <3>1. wal'[i] = wal[i]
      BY <1>2, <2>2
    <3>2. wal[i] # Torn /\ k \in DOMAIN wal[i]
      BY <2>1, <3>1
    <3> QED BY <2>2, <3>2 DEF Mentions
  <2>3. CASE i = Len(wal) + 1
    BY <1>2, <2>1, <2>3
  <2> QED BY <1>2, <2>1, <2>2, <2>3
<1>6. k \in DOMAIN pending => Len(wal) + 1 \in Mentions(k)'
  BY <1>1, <1>2 DEF Mentions
<1> QED BY <1>2, <1>4, <1>5, <1>6

LEMMA ReplayStep ==
    ASSUME LevelInv, Staged, Replaying, [SparingNext]_vars
    PROVE  Replaying'
<1>0. TypeOK /\ PhaseInv
  BY DEF LevelInv, FileInv
<1> SUFFICES ASSUME pc' = "replay", NEW k \in Keys
             PROVE  /\ \A i : LastBefore(Mentions(k)', i, replayAt')
                                => k \in DOMAIN mem' /\ mem'[k] = wal'[i][k]
                    /\ k \in DOMAIN mem' => \E i \in Mentions(k)' : i < replayAt'
  BY DEF Replaying
<1>1. CASE UNCHANGED vars
  <2>1. UNCHANGED <<pc, wal, mem, replayAt>>
    BY <1>1 DEF vars, disk, memory, control
  <2>2. Mentions(k)' = Mentions(k)
    BY <2>1 DEF Mentions
  <2> QED BY <2>1, <2>2 DEF Replaying
<1>2. CASE OpenReaders
  <2>1. replayAt' = 1 /\ UNCHANGED wal /\ mem' = EmptyTable
    BY <1>2 DEF OpenReaders, Staged, disk, memory
  <2>2. Mentions(k)' = Mentions(k)
    BY <2>1 DEF Mentions
  <2>3. \A i \in Mentions(k) : ~(i < 1)
    BY <1>0, MentionsIs
  <2> QED BY <2>1, <2>2, <2>3, EmptyTableIs DEF LastBefore
<1>3. CASE ReplayRecord
  <2> DEFINE r == replayAt
             b == wal[r]
  <2>1. /\ pc = "replay" /\ r \in Nat /\ r \in DOMAIN wal /\ b # Torn
        /\ replayAt' = r + 1 /\ UNCHANGED wal /\ mem' = Overlay(b, mem)
    BY <1>0, <1>3 DEF ReplayRecord, disk, TypeOK, DiskTypes, ControlTypes
  <2>2. Mentions(k)' = Mentions(k)
    BY <2>1 DEF Mentions
  <2>3. k \in DOMAIN b <=> r \in Mentions(k)
    BY <2>1 DEF Mentions
  <2>4. /\ \A i : LastBefore(Mentions(k), i, r) => k \in DOMAIN mem /\ mem[k] = wal[i][k]
        /\ k \in DOMAIN mem => \E i \in Mentions(k) : i < r
    BY <2>1 DEF Replaying
  <2>5. /\ DOMAIN mem' = DOMAIN b \cup DOMAIN mem
        /\ \A j \in DOMAIN mem' : mem'[j] = IF j \in DOMAIN b THEN b[j] ELSE mem[j]
    BY <2>1 DEF Overlay
  <2>6. r < r + 1 /\ \A i \in Mentions(k) : i \in Nat /\ (i < r + 1 <=> i < r \/ i = r)
    BY <1>0, <2>1, MentionsIs
  <2> HIDE DEF r, b
  <2>7. ASSUME NEW i, LastBefore(Mentions(k), i, r + 1)
        PROVE  k \in DOMAIN mem' /\ mem'[k] = wal[i][k]
    <3>1. CASE k \in DOMAIN b
      <4>1. i \in Mentions(k) /\ r <= i /\ i < r + 1
        BY <2>3, <2>6, <2>7, <3>1 DEF LastBefore
      <4>2. i = r
        BY <2>1, <2>6, <4>1
      <4> QED BY <2>5, <3>1, <4>2 DEF b
    <3>2. CASE k \notin DOMAIN b
      <4>1. LastBefore(Mentions(k), i, r)
        BY <2>3, <2>6, <2>7, <3>2 DEF LastBefore
      <4> QED BY <2>4, <2>5, <3>2, <4>1
    <3> QED BY <3>1, <3>2
  <2>8. k \in DOMAIN mem' => \E i \in Mentions(k) : i < r + 1
    BY <2>3, <2>4, <2>5, <2>6
  <2> QED BY <2>1, <2>2, <2>7, <2>8
<1> QED BY <1>0, <1>1, <1>2, <1>3, StepKinds

\* When the memtable is complete it has, with the tables, the expected value of each key.
LEMMA RecoveredStep ==
    ASSUME DataInv, [SparingNext]_vars, lost' = {}, Recovered', NEW k \in Keys
    PROVE  Loaded /\ Read(k) \in expect[k]
<1>0. TypeOK /\ PhaseInv /\ LevelInv /\ Staged
  BY DEF DataInv, LevelInv, FileInv
<1>1. LogCovers(k) /\ TablesCover(k) /\ MemoryCovers(k)
  BY <1>0, StepKinds DEF DataInv, Covered
<1>2. CASE Recovered
  BY <1>1, <1>2 DEF MemoryCovers, Recovered
<1>3. CASE ReplayEnd
  <2>1. /\ Loaded /\ replayAt \in Nat /\ Behind(replayAt) = {}
        /\ replayAt \in DOMAIN wal => wal[replayAt] = Torn
    BY <1>0, <1>3 DEF ReplayEnd, PhaseInv, Loaded, TypeOK, ControlTypes
  <2>2. /\ \A i : LastBefore(Mentions(k), i, replayAt) => k \in DOMAIN mem /\ mem[k] = wal[i][k]
        /\ k \in DOMAIN mem => Mentions(k) # {}
    BY <1>3 DEF ReplayEnd, DataInv, Replaying
  <2>3. CASE Mentions(k) = {}
    BY <1>1, <2>1, <2>2, <2>3 DEF TablesCover, Read
  <2>4. CASE Mentions(k) # {}
    <3>1. PICK i \in Mentions(k) : \A j \in Mentions(k) : j <= i
      BY <1>0, <2>4, MentionsIs
    <3>2. i \in Nat /\ i \in DOMAIN wal /\ wal[i] # Torn
      BY <1>0, MentionsIs
    <3>3. i < replayAt
      BY <2>1, <3>2 DEF Behind
    <3>4. LastBefore(Mentions(k), i, replayAt)
      BY <3>1, <3>3 DEF LastBefore
    <3> QED BY <1>1, <2>1, <2>2, <3>1, <3>4 DEF LogCovers, Read
  <2> QED BY <2>3, <2>4
<1>4. CASE OpenFails
  <2>1. Loaded
    BY <1>0, <1>4 DEF OpenFails, PhaseInv, Loaded
  <2>2. CASE pc \in {"openwal", "persist"}
    BY <1>2, <2>1, <2>2 DEF Recovered
  <2>3. CASE pc = "readers" \/ (pc = "replay" /\ replayAt = 1)
    <3>1. mem = EmptyTable
      <4>1. CASE pc = "readers"
        BY <1>0, <4>1 DEF Staged
      <4>2. CASE pc = "replay" /\ replayAt = 1
        <5>1. ASSUME NEW j \in Keys, j \in DOMAIN mem PROVE FALSE
          <6>1. \A i \in Mentions(j) : 1 <= i /\ i \in Nat
            BY <1>0, MentionsIs
          <6>2. \E i \in Mentions(j) : i < 1
            BY <4>2, <5>1 DEF DataInv, Replaying
          <6> QED BY <6>1, <6>2
        <5>2. mem \in Table
          BY <1>0 DEF TypeOK, MemoryTypes
        <5> QED BY <5>1, <5>2, NonEmptyTable
      <4> QED BY <2>3, <4>1, <4>2
    <3>2. pc' = "finish" /\ UNCHANGED handle
      BY <1>4, <3>1 DEF OpenFails, FlushOr, memory
    <3>3. handle \in {"open", "closed"}
      BY <3>2 DEF Recovered
    <3> QED BY <1>2, <2>1, <3>3 DEF Recovered
  <2>4. pc \in {"openwal", "persist"} \/ pc = "readers" \/ (pc = "replay" /\ replayAt = 1)
    BY <1>4 DEF OpenFails
  <2> QED BY <2>2, <2>3, <2>4
<1> QED BY <1>0, <1>2, <1>3, <1>4, StepKinds

\* A step that leaves the log, the memtable and what is expected as they are.
LEMMA CoverQuiet ==
    ASSUME DataInv, [SparingNext]_vars, lost' = {}, UNCHANGED <<wal, mem, expect>>, NEW k \in Keys
    PROVE  LogCovers(k)' /\ TablesCover(k)' /\ MemoryCovers(k)'
<1>0. TypeOK /\ PhaseInv /\ LevelInv /\ Staged
  BY DEF DataInv, LevelInv, FileInv
<1>1. LogCovers(k) /\ TablesCover(k) /\ MemoryCovers(k)
  BY <1>0, StepKinds DEF DataInv, Covered
<1>2. Mentions(k)' = Mentions(k)
  BY DEF Mentions
<1>3. /\ Loaded /\ Loaded' /\ ~FlushTable =>
           Lookup(version', sst', k) = Lookup(version, sst, k)
      /\ FlushTable => Lookup(version', sst', k) = Read(k)
      /\ OpenLoad => Lookup(version', sst', k) = Lookup(manifest.levels, sst, k)
      /\ \/ Lookup(manifest'.levels, sst', k) = Lookup(manifest.levels, sst, k)
         \/ Loaded /\ Lookup(manifest'.levels, sst', k) = Lookup(version, sst, k)
  BY <1>0, LookupStep
<1>4. Loaded' => Loaded \/ OpenLoad
  BY <1>0, StepKinds
<1>5. LogCovers(k)'
  BY <1>1, <1>2 DEF LogCovers
<1>6. TablesCover(k)'
  BY <1>1, <1>2, <1>3, <1>4 DEF TablesCover, MemoryCovers, Read
<1>7. Loaded' /\ k \in DOMAIN mem' => Mentions(k)' # {}
  <2>1. OpenLoad => mem = EmptyTable
    BY <1>0 DEF OpenLoad, Staged
  <2> QED BY <1>1, <1>2, <1>4, <2>1, EmptyTableIs DEF MemoryCovers
<1>8. Recovered' => Read(k)' \in expect'[k]
  <2> SUFFICES ASSUME Recovered' PROVE Read(k)' \in expect'[k]
    OBVIOUS
  <2>1. Loaded /\ Loaded' /\ Read(k) \in expect[k]
    BY RecoveredStep DEF Recovered
  <2>2. Read(k)' = IF k \in DOMAIN mem THEN mem[k] ELSE Lookup(version', sst', k)
    BY DEF Read
  <2>3. Read(k)' = Read(k)
    BY <1>3, <2>1, <2>2 DEF Read
  <2> QED BY <2>1, <2>3
<1> QED BY <1>5, <1>6, <1>7, <1>8 DEF MemoryCovers

LEMMA CoverStep ==
    ASSUME DataInv, [SparingNext]_vars, lost' = {}, NEW k \in Keys
    PROVE  LogCovers(k)' /\ TablesCover(k)' /\ MemoryCovers(k)'
<1>0. TypeOK /\ PhaseInv /\ LevelInv /\ Staged
  BY DEF DataInv, LevelInv, FileInv
<1>1. LogCovers(k) /\ TablesCover(k) /\ MemoryCovers(k)
  BY <1>0, StepKinds DEF DataInv, Covered
<1>2. Recovered' => Loaded /\ Read(k) \in expect[k]
  BY RecoveredStep
<1>3. CASE UNCHANGED <<wal, mem, expect>>
  BY <1>3, CoverQuiet
<1>4. CASE UNCHANGED expect /\ ~Loaded' /\ wal' \in {wal, Append(wal, Torn)}
  <2>1. Mentions(k)' = Mentions(k) /\ \A i \in Mentions(k) : wal'[i] = wal[i]
    BY <1>0, <1>4, LogKept
  <2>2. \/ Lookup(manifest'.levels, sst', k) = Lookup(manifest.levels, sst, k)
        \/ Loaded /\ Lookup(manifest'.levels, sst', k) = Lookup(version, sst, k)
    BY <1>0, LookupStep
  <2>3. LogCovers(k)'
    BY <1>1, <1>4, <2>1 DEF LogCovers
  <2>4. TablesCover(k)'
    BY <1>1, <1>4, <2>1, <2>2 DEF TablesCover
  <2>5. MemoryCovers(k)'
    BY <1>4 DEF MemoryCovers, Recovered
  <2> QED BY <2>3, <2>4, <2>5
<1>5. CASE ReplayRecord
  <2>1. UNCHANGED <<wal, expect, version, manifest, sst>> /\ pc' = "replay" /\ Loaded
    BY <1>0, <1>5 DEF ReplayRecord, PhaseInv, Loaded, disk, history
  <2>2. Mentions(k)' = Mentions(k)
    BY <2>1 DEF Mentions
  <2>3. k \in DOMAIN mem' => Mentions(k)' # {}
    BY <1>0, <2>1, ReplayStep DEF DataInv, Replaying
  <2>4. ~Recovered'
    BY <1>0, <2>1, StepKinds DEF Recovered
  <2>5. LogCovers(k)' /\ TablesCover(k)'
    BY <1>1, <2>1, <2>2 DEF LogCovers, TablesCover
  <2> QED BY <2>3, <2>4, <2>5 DEF MemoryCovers
<1>6. ASSUME pending \in Batches, Logged, UNCHANGED <<mem, version, manifest, sst>>,
             Loaded' => Loaded
      PROVE  LogCovers(k)' /\ TablesCover(k)' /\ MemoryCovers(k)'
  <2> DEFINE n == Len(wal) + 1
  <2>1. /\ \A i \in Mentions(k) : i \in Mentions(k)' /\ i < n /\ wal'[i] = wal[i]
        /\ \A i \in Mentions(k)' : i \in Mentions(k) \/ (i = n /\ k \in DOMAIN pending)
        /\ k \in DOMAIN pending => n \in Mentions(k)'
        /\ wal'[n] = pending /\ n \in Nat
    BY <1>0, <1>6, LogGrown
  <2>2. /\ expect'[k] = IF k \in DOMAIN pending THEN expect[k] \cup {pending[k]} ELSE expect[k]
        /\ expect[k] \subseteq expect'[k]
    BY <1>6 DEF Logged
  <2>3. \A i \in Mentions(k) : i \in Nat
    BY <1>0, MentionsIs
  <2> HIDE DEF n
  <2>4. LogCovers(k)'
    <3> SUFFICES ASSUME NEW i \in Mentions(k)', \A j \in Mentions(k)' : j <= i
                 PROVE  wal'[i][k] \in expect'[k]
      BY DEF LogCovers
    <3>1. CASE i = n /\ k \in DOMAIN pending
      BY <2>1, <2>2, <3>1
    <3>2. CASE i \in Mentions(k)
      <4>1. wal'[i] = wal[i] /\ \A j \in Mentions(k) : j <= i
        BY <2>1, <3>2
      <4> QED BY <1>1, <2>2, <3>2, <4>1 DEF LogCovers
    <3> QED BY <2>1, <3>1, <3>2
  <2>5. TablesCover(k)'
    <3>1. Mentions(k)' = {} => Mentions(k) = {}
      BY <2>1
    <3> QED BY <1>1, <1>6, <2>2, <3>1 DEF TablesCover
  <2>6. MemoryCovers(k)'
    <3>1. Mentions(k) # {} => Mentions(k)' # {}
      BY <2>1
    <3>2. Read(k)' = Read(k)
      BY <1>6 DEF Read
    <3> QED BY <1>1, <1>2, <1>6, <2>2, <3>1, <3>2 DEF MemoryCovers
  <2> QED BY <2>4, <2>5, <2>6
<1>7. CASE AddRecord
  <2>1. /\ Logged /\ UNCHANGED <<mem, version, manifest, sst>> /\ Loaded
        /\ pending \in Batches
    BY <1>0, <1>7 DEF AddRecord, PhaseInv, Loaded, TypeOK, ControlTypes, memory
  <2> QED BY <1>6, <2>1
<1>8. CASE AddRecordFails
  <2>1. /\ UNCHANGED <<mem, version, manifest, sst>> /\ Loaded
        /\ pending \in Batches
    BY <1>0, <1>8 DEF AddRecordFails, PhaseInv, Loaded, TypeOK, ControlTypes, memory
  <2>2. CASE Logged
    BY <1>6, <2>1, <2>2
  <2>3. CASE UNCHANGED <<wal, expect>>
    BY <1>3, <2>1, <2>3
  <2>4. CASE wal' = Append(wal, Torn) /\ UNCHANGED expect
    <3>1. Mentions(k)' = Mentions(k) /\ \A i \in Mentions(k) : wal'[i] = wal[i]
      BY <1>0, <2>4, LogKept
    <3>2. Read(k)' = Read(k)
      BY <2>1 DEF Read
    <3>3. LogCovers(k)'
      BY <1>1, <2>4, <3>1 DEF LogCovers
    <3>4. TablesCover(k)'
      BY <1>1, <2>1, <2>4, <3>1 DEF TablesCover
    <3>5. MemoryCovers(k)'
      BY <1>1, <1>2, <2>1, <2>4, <3>1, <3>2 DEF MemoryCovers
    <3> QED BY <3>3, <3>4, <3>5
  <2> QED BY <1>8, <2>2, <2>3, <2>4 DEF AddRecordFails
<1>9. CASE ApplyBatch
  <2>1. /\ UNCHANGED <<wal, version, manifest, sst>> /\ Loaded
        /\ pending \in Batches /\ mem' = Overlay(pending, mem)
        /\ expect'[k] = IF k \in DOMAIN pending THEN {pending[k]} ELSE expect[k]
    BY <1>0, <1>9 DEF ApplyBatch, PhaseInv, Loaded, TypeOK, ControlTypes, disk
  <2>2. Mentions(k)' = Mentions(k)
    BY <2>1 DEF Mentions
  <2>3. /\ k \in DOMAIN mem' <=> k \in DOMAIN pending \/ k \in DOMAIN mem
        /\ k \in DOMAIN pending => mem'[k] = pending[k]
        /\ k \in DOMAIN mem' /\ k \notin DOMAIN pending => mem'[k] = mem[k]
    BY <2>1 DEF Overlay
  <2>4. CASE k \in DOMAIN pending
    <3>1. wal[Len(wal)] = pending /\ Len(wal) \in Mentions(k)
      BY <1>0, <1>9, <2>1, <2>4, BatchIs DEF ApplyBatch, Staged, Mentions
    <3>2. \A i \in Mentions(k) : i \in Nat /\ i <= Len(wal)
      BY <1>0, MentionsIs
    <3>3. LogCovers(k)'
      <4> SUFFICES ASSUME NEW i \in Mentions(k), \A j \in Mentions(k) : j <= i
                   PROVE  wal[i][k] \in expect'[k]
        BY <2>1, <2>2 DEF LogCovers
      <4>1. i = Len(wal)
        BY <3>1, <3>2
      <4> QED BY <2>1, <2>4, <3>1, <4>1
    <3>4. TablesCover(k)'
      BY <2>2, <3>1 DEF TablesCover
    <3>5. MemoryCovers(k)'
      BY <2>1, <2>2, <2>3, <2>4, <3>1 DEF MemoryCovers, Read
    <3> QED BY <3>3, <3>4, <3>5
  <2>5. CASE k \notin DOMAIN pending
    <3>1. Read(k)' = Read(k)
      BY <2>1, <2>3, <2>5 DEF Read
    <3>2. LogCovers(k)' /\ TablesCover(k)'
      BY <1>1, <2>1, <2>2, <2>5 DEF LogCovers, TablesCover
    <3>3. MemoryCovers(k)'
      BY <1>1, <1>2, <2>1, <2>2, <2>3, <2>5, <3>1 DEF MemoryCovers
    <3> QED BY <3>2, <3>3
  <2> QED BY <2>4, <2>5
<1>10. CASE FlushSave
  <2>1. /\ UNCHANGED <<wal, expect, version, sst>> /\ Recovered /\ Loaded
        /\ mem' = EmptyTable /\ manifest'.levels = version /\ pc = "f_save"
    BY <1>0, <1>10 DEF FlushSave, Saved, PhaseInv, Loaded, Recovered, history
  <2>2. Mentions(k)' = Mentions(k)
    BY <2>1 DEF Mentions
  <2>3. Lookup(version, sst, k) \in expect[k]
    BY <1>0, <1>1, <2>1 DEF MemoryCovers, Read, Staged
  <2>4. LogCovers(k)'
    BY <1>1, <2>1, <2>2 DEF LogCovers
  <2>5. TablesCover(k)' /\ MemoryCovers(k)'
    BY <2>1, <2>3, EmptyTableIs DEF TablesCover, MemoryCovers, Read
  <2> QED BY <2>4, <2>5
<1>11. CASE RotateWal \/ RotateWalFails
  <2>1. /\ UNCHANGED <<expect, mem, version, manifest, sst>> /\ Recovered
        /\ wal' \in {<<>>, wal} /\ pc = "f_rotate"
    BY <1>0, <1>11 DEF RotateWal, RotateWalFails, PhaseInv, Loaded, Recovered, history
  <2>2. CASE wal' = wal
    BY <1>3, <2>1, <2>2
  <2>3. CASE wal' = <<>>
    <3>1. mem = EmptyTable /\ manifest.levels = version
      BY <1>0, <2>1 DEF Staged
    <3>2. Lookup(version, sst, k) \in expect[k]
      BY <1>1, <2>1, <3>1, EmptyTableIs DEF MemoryCovers, Read
    <3>3. Mentions(k)' = {}
      BY <2>3 DEF Mentions
    <3>4. LogCovers(k)'
      BY <3>3 DEF LogCovers
    <3>5. TablesCover(k)' /\ MemoryCovers(k)'
      BY <2>1, <3>1, <3>2, EmptyTableIs DEF TablesCover, MemoryCovers, Read
    <3> QED BY <3>4, <3>5
  <2> QED BY <2>1, <2>2, <2>3
<1> QED
  BY <1>0, <1>3, <1>4, <1>5, <1>7, <1>8, <1>9, <1>10, <1>11, StepKinds

LEMMA DataInvariant == SparingSpec => []DataInv
<1>1. Init => DataInv
  <2> SUFFICES ASSUME Init PROVE DataInv
    OBVIOUS
  <2>1. LevelInv
    BY FileInit, ApartEmpty DEF Init, LevelInv, Sorted, Merging, NoFiles
  <2>2. Staged /\ Replaying
    BY DEF Init, Staged, Replaying
  <2>3. ASSUME NEW k \in Keys PROVE LogCovers(k) /\ TablesCover(k) /\ MemoryCovers(k)
    <3>1. ~Loaded /\ ~Recovered /\ Mentions(k) = {} /\ manifest.levels = NoFiles
      BY DEF Init, Loaded, Recovered, Mentions
    <3>2. Nowhere(NoFiles, sst, k)
      BY DEF Nowhere, NoFiles, Holders
    <3>3. Lookup(manifest.levels, sst, k) = Tombstone
      BY <3>1, <3>2, LookupNone
    <3>4. expect[k] = {Tombstone}
      BY DEF Init
    <3> QED BY <3>1, <3>3, <3>4 DEF LogCovers, TablesCover, MemoryCovers
  <2> QED BY <2>1, <2>2, <2>3 DEF DataInv, Covered
<1>2. DataInv /\ [SparingNext]_vars => DataInv'
  <2> SUFFICES ASSUME DataInv, [SparingNext]_vars PROVE DataInv'
    OBVIOUS
  <2>1. LevelInv' /\ Staged' /\ Replaying'
    BY LevelStep, StagedStep, ReplayStep DEF DataInv
  <2>2. Covered'
    BY CoverStep DEF Covered
  <2> QED BY <2>1, <2>2 DEF DataInv
<1> QED BY <1>1, <1>2, PTL DEF SparingSpec

\* What it says of reads.
LEMMA DataRead == DataInv => ReadsExpected
<1> SUFFICES ASSUME DataInv, handle = "open", pc = "idle", lost = {}, NEW k \in Keys
             PROVE  Read(k) \in expect[k]
  BY DEF ReadsExpected
<1>1. Recovered
  BY DEF DataInv, LevelInv, FileInv, PhaseInv, Loaded, Recovered
<1> QED BY <1>1 DEF DataInv, Covered, MemoryCovers

\* Between operations Get returns the last acknowledged write (or one that failed but was logged).
THEOREM ReadsReturnWrites ==
    ASSUME PlainPaths
    PROVE  Spec => []ReadsExpected
BY DataRead, DataInvariant, PlainSpec, PTL

\* And of the directory.
LEMMA DataDurable == DataInv => DurableAlways
<1> SUFFICES ASSUME DataInv, lost = {}, NEW k \in Keys
             PROVE  OnDisk(k) \in expect[k]
  BY DEF DurableAlways
<1>1. LogCovers(k) /\ TablesCover(k) /\ TypeOK
  BY DEF DataInv, Covered, LevelInv, FileInv
<1>2. CASE Mentions(k) = {}
  BY <1>1, <1>2 DEF TablesCover, OnDisk
<1>3. CASE Mentions(k) # {}
  <2>1. Len(wal) \in Nat /\ Mentions(k) \subseteq 0 .. Len(wal)
    BY <1>1, MentionsIs DEF TypeOK, DiskTypes
  <2>2. /\ Max(Mentions(k)) \in Mentions(k)
        /\ \A j \in Mentions(k) : Max(Mentions(k)) >= j
    BY <1>3, <2>1, MaxIs
  <2>3. \A j \in Mentions(k) : j <= Max(Mentions(k))
    BY <2>2
  <2> QED BY <1>1, <1>3, <2>2, <2>3 DEF LogCovers, OnDisk
<1> QED BY <1>2, <1>3

\* At every instant the log and the manifest hold the expected value of every key.
THEOREM WritesAreDurable ==
    ASSUME PlainPaths
    PROVE  Spec => []DurableAlways
BY DataDurable, DataInvariant, PlainSpec, PTL

\* Flushing, rotating the log, compacting, or failing to, never changes what Get returns.
THEOREM MaintenanceHidden ==
    ASSUME PlainPaths
    PROVE  Spec => MaintenanceInvisible
<1>1. DataInv /\ [SparingNext]_vars =>
        (handle = "open" /\ handle' = "open" /\ pc # "apply" => \A k \in Keys : Read(k)' = Read(k))
  <2> SUFFICES ASSUME DataInv, [SparingNext]_vars, handle = "open", handle' = "open", pc # "apply",
                      NEW k \in Keys
               PROVE  Read(k)' = Read(k)
    OBVIOUS
  <2>0. PhaseInv /\ LevelInv /\ Staged
    BY DEF DataInv, LevelInv, FileInv
  <2>1. Loaded /\ Loaded'
    <3>1. Loaded
      BY <2>0 DEF PhaseInv, Staged, Loaded
    <3> QED BY <2>0, <3>1, StepKinds
  <2>2. /\ ~FlushTable => Lookup(version', sst', k) = Lookup(version, sst, k)
        /\ FlushTable => Lookup(version', sst', k) = Read(k)
    BY <2>0, <2>1, LookupStep
  <2>3. CASE FlushSave
    <3>1. /\ pc = "f_save" /\ mem' = EmptyTable /\ UNCHANGED <<version, sst>>
      BY <2>3 DEF FlushSave
    <3> QED BY <2>0, <3>1, EmptyTableIs DEF Staged, Read
  <2>4. CASE UNCHANGED mem
    <3>1. Read(k)' = IF k \in DOMAIN mem THEN mem[k] ELSE Lookup(version', sst', k)
      BY <2>4 DEF Read
    <3> QED BY <2>2, <3>1 DEF Read
  <2>5. UNCHANGED mem \/ FlushSave
    <3>1. ReplayRecord => handle = "opening"
      BY <2>0 DEF ReplayRecord, Staged
    <3>2. ApplyBatch => pc = "apply"
      BY DEF ApplyBatch
    <3>3. AddRecord \/ AddRecordFails \/ RotateWal \/ RotateWalFails => UNCHANGED mem
      BY DEF AddRecord, AddRecordFails, RotateWal, RotateWalFails, memory
    <3> QED BY <2>0, <2>1, <3>1, <3>2, <3>3, StepKinds
  <2> QED BY <2>3, <2>4, <2>5
<1> QED BY <1>1, DataInvariant, PlainSpec, PTL DEF SparingSpec, MaintenanceInvisible

-----------------------------------------------------------------------------
(* The engine implements the store *)

(***************************************************************************)
(* What the refinement needs beyond DataInv. For a key that the log does   *)
(* not mention, the manifest answers as version_ does, so that saving the  *)
(* manifest changes nothing a restart would find (SavedAlike). Until Open  *)
(* returns, a recovered object reads what a restart would find, also after *)
(* the flush that the destructor of a failed Open runs (OpensAlike).       *)
(***************************************************************************)
SavedAlike(k) ==
    Mentions(k) = {} /\ Loaded => Lookup(version, sst, k) = Lookup(manifest.levels, sst, k)

OpensAlike(k) == handle = "opening" /\ Recovered => Read(k) = OnDisk(k)

Mirrored == lost = {} => \A k \in Keys : SavedAlike(k) /\ OpensAlike(k)

RefinementInv == DataInv /\ Mirrored

-----------------------------------------------------------------------------
(* What a restart finds *)

\* The largest element of M is Max(M).
LEMMA LastIs ==
    ASSUME NEW n \in Nat, NEW M, M \subseteq 0 .. n, NEW i \in M, \A j \in M : j <= i
    PROVE  Max(M) = i
<1>1. Max(M) \in M /\ \A j \in M : Max(M) >= j
  BY MaxIs
<1>2. Max(M) \in 0 .. n /\ i \in 0 .. n /\ Max(M) <= i /\ Max(M) >= i
  BY <1>1
<1> QED BY <1>2

\* Of the records that mention k, the last one counts.
LEMMA LastMention ==
    ASSUME TypeOK, NEW k, Mentions(k) # {}
    PROVE  /\ Max(Mentions(k)) \in Mentions(k)
           /\ \A j \in Mentions(k) : j <= Max(Mentions(k))
           /\ OnDisk(k) = wal[Max(Mentions(k))][k]
<1>1. Len(wal) \in Nat /\ Mentions(k) \subseteq 0 .. Len(wal)
  BY MentionsIs DEF TypeOK, DiskTypes
<1>2. Max(Mentions(k)) \in Mentions(k) /\ \A j \in Mentions(k) : Max(Mentions(k)) >= j
  BY <1>1, MaxIs
<1>3. \A j \in Mentions(k) : j <= Max(Mentions(k))
  BY <1>1, <1>2
<1> QED BY <1>2, <1>3 DEF OnDisk

\* A step that leaves the records of a key as they are does not change what a restart finds.
LEMMA StoreSame ==
    ASSUME RefinementInv, [SparingNext]_vars, lost' = {}, NEW k \in Keys,
           Mentions(k)' = Mentions(k), \A i \in Mentions(k) : wal'[i] = wal[i]
    PROVE  OnDisk(k)' = OnDisk(k)
<1>0. TypeOK /\ PhaseInv /\ LevelInv /\ Staged
  BY DEF RefinementInv, DataInv, LevelInv, FileInv
<1>1. CASE Mentions(k) = {}
  <2>1. SavedAlike(k)
    BY <1>0, StepKinds DEF RefinementInv, Mirrored
  <2>2. \/ Lookup(manifest'.levels, sst', k) = Lookup(manifest.levels, sst, k)
        \/ Loaded /\ Lookup(manifest'.levels, sst', k) = Lookup(version, sst, k)
    BY <1>0, LookupStep
  <2>3. Lookup(manifest'.levels, sst', k) = Lookup(manifest.levels, sst, k)
    BY <1>1, <2>1, <2>2 DEF SavedAlike
  <2> QED BY <1>1, <2>3 DEF OnDisk
<1>2. CASE Mentions(k) # {}
  <2>1. Max(Mentions(k)) \in Mentions(k)
    BY <1>0, <1>2, LastMention
  <2> QED BY <1>2, <2>1 DEF OnDisk
<1> QED BY <1>1, <1>2

\* A record that reaches the log gives its keys their new entries.
LEMMA StoreLogged ==
    ASSUME TypeOK, pending \in Batches, Logged, UNCHANGED <<manifest, sst>>, NEW k
    PROVE  OnDisk(k)' = IF k \in DOMAIN pending THEN pending[k] ELSE OnDisk(k)
<1> DEFINE n == Len(wal) + 1
           M == Mentions(k)'
<1>1. /\ \A i \in Mentions(k) : i \in M /\ i < n /\ wal'[i] = wal[i]
      /\ \A i \in M : i \in Mentions(k) \/ (i = n /\ k \in DOMAIN pending)
      /\ k \in DOMAIN pending => n \in M
      /\ wal'[n] = pending /\ n \in Nat
  BY LogGrown
<1>2. \A i \in Mentions(k) : i \in Nat
  BY MentionsIs
<1>3. OnDisk(k)' = IF M = {} THEN Lookup(manifest.levels, sst, k) ELSE wal'[Max(M)][k]
  BY DEF OnDisk
<1> HIDE DEF n, M
<1>4. CASE k \in DOMAIN pending
  <2>1. M \subseteq 0 .. n /\ \A j \in M : j <= n
    BY <1>1, <1>2
  <2>2. Max(M) = n
    BY <1>1, <1>4, <2>1, LastIs
  <2> QED BY <1>1, <1>3, <1>4, <2>2
<1>5. CASE k \notin DOMAIN pending
  <2>1. M = Mentions(k)
    BY <1>1, <1>5
  <2>2. CASE M = {}
    BY <1>3, <1>5, <2>1, <2>2 DEF OnDisk
  <2>3. CASE M # {}
    <3>1. Max(M) \in M /\ OnDisk(k) = wal[Max(M)][k]
      BY <2>1, <2>3, LastMention
    <3> QED BY <1>1, <1>3, <1>5, <2>1, <2>3, <3>1
  <2> QED BY <2>2, <2>3
<1> QED BY <1>4, <1>5

\* Unless a batch is applied or a record replayed, a read returns what it did.
LEMMA ViewSame ==
    ASSUME DataInv, [SparingNext]_vars, Loaded, Loaded', UNCHANGED mem \/ FlushSave, NEW k \in Keys
    PROVE  Read(k)' = Read(k)
<1>0. PhaseInv /\ LevelInv /\ Staged
  BY DEF DataInv, LevelInv, FileInv
<1>1. /\ ~FlushTable => Lookup(version', sst', k) = Lookup(version, sst, k)
      /\ FlushTable => Lookup(version', sst', k) = Read(k)
  BY <1>0, LookupStep
<1>2. CASE FlushSave
  <2>1. /\ pc = "f_save" /\ mem' = EmptyTable /\ UNCHANGED <<version, sst>>
    BY <1>2 DEF FlushSave
  <2> QED BY <1>0, <2>1, EmptyTableIs DEF Staged, Read
<1>3. CASE UNCHANGED mem
  <2>1. Read(k)' = IF k \in DOMAIN mem THEN mem[k] ELSE Lookup(version', sst', k)
    BY <1>3 DEF Read
  <2> QED BY <1>1, <2>1 DEF Read
<1> QED BY <1>2, <1>3

\* How a step changes the state of the object.
LEMMA HandleStep ==
    ASSUME [SparingNext]_vars
    PROVE  \/ handle' = handle
           \/ handle' = "none"
           \/ handle = "none" /\ handle' = "opening"
           \/ pc \in {"openwal", "persist"} /\ handle' = "open"
           \/ op = "close" /\ handle' = "closed"
BY DEF SparingNext, Next, Begin, Work, Opening, Writing, Flushing, Compacting, Finishing, Failing, vars,
       OpenBegin, WriteBegin, FlushCall, BackgroundBegin, CloseBegin, Destroy, OpenLoad,
       OpenReaders, ReplayRecord, ReplayEnd, ReplayReadFails, OpenWal, OpenPersist, AddRecord,
       ApplyBatch, FlushTable, FlushSave, RotateWal, CompactNone, CompactPick, CompactOutput,
       CompactInstall, CompactRemove, CloseFinish, AbandonFinish, OpenLoadFails, OpenFails,
       AddRecordFails, FlushTableFails, FlushSaveFails, RotateWalFails, CompactReadFails,
       CompactOutputFails, CompactInstallFails, Crash, Discard, disk, memory, control, history

-----------------------------------------------------------------------------
(* The invariant *)

\* The steps that add a record to the log, and those that remove the log.
Appending == AddRecord \/ (AddRecordFails /\ Logged)

Rotated == (RotateWal \/ RotateWalFails) /\ wal' = <<>>

\* Which records mention a key changes by an append or by the removal of the log only.
LEMMA MentionsStep ==
    ASSUME DataInv, [SparingNext]_vars, NEW k
    PROVE  \/ Rotated
           \/ Appending
           \/ Mentions(k)' = Mentions(k) /\ \A i \in Mentions(k) : wal'[i] = wal[i]
<1>0. TypeOK /\ PhaseInv /\ Staged
  BY DEF DataInv, LevelInv, FileInv
<1>1. \/ wal' \in {wal, Append(wal, Torn)}
      \/ AddRecord \/ AddRecordFails \/ RotateWal \/ RotateWalFails
  <2>1. ReplayRecord \/ ApplyBatch \/ FlushSave => wal' = wal
    BY DEF ReplayRecord, ApplyBatch, FlushSave, disk
  <2> QED BY <1>0, <2>1, StepKinds
<1>2. AddRecordFails => Logged \/ wal' \in {wal, Append(wal, Torn)}
  BY DEF AddRecordFails
<1>3. RotateWal \/ RotateWalFails => wal' \in {<<>>, wal}
  BY DEF RotateWal, RotateWalFails
<1> QED BY <1>0, <1>1, <1>2, <1>3, LogKept DEF Rotated, Appending

\* What is known when a batch has reached the log.
LEMMA LoggedIs ==
    ASSUME DataInv, Appending
    PROVE  /\ pending \in Batches /\ Logged /\ handle = "open" /\ handle' = "open" /\ Loaded
           /\ UNCHANGED <<manifest, sst, version, mem>>
<1>1. TypeOK /\ PhaseInv /\ Staged
  BY DEF DataInv, LevelInv, FileInv
<1> QED BY <1>1 DEF Appending, AddRecord, AddRecordFails, TypeOK, ControlTypes, PhaseInv, Loaded, Staged, memory

\* What is known when the log has been removed.
LEMMA RotatedIs ==
    ASSUME DataInv, Rotated, NEW k
    PROVE  /\ UNCHANGED <<manifest, sst, version, mem, handle>> /\ Recovered
           /\ mem = EmptyTable /\ manifest.levels = version
           /\ Mentions(k)' = {}
           /\ OnDisk(k)' = Read(k) /\ Read(k)' = Read(k)
<1>1. PhaseInv /\ Staged
  BY DEF DataInv, LevelInv, FileInv
<1>2. /\ UNCHANGED <<manifest, sst, version, mem, handle>> /\ Recovered /\ pc = "f_rotate"
  BY <1>1 DEF Rotated, RotateWal, RotateWalFails, PhaseInv, Loaded, Recovered
<1>3. mem = EmptyTable /\ manifest.levels = version
  BY <1>1, <1>2 DEF Staged
<1>4. Mentions(k)' = {}
  BY DEF Rotated, Mentions
<1>5. OnDisk(k)' = Lookup(version, sst, k) /\ Read(k) = Lookup(version, sst, k)
  BY <1>2, <1>3, <1>4, EmptyTableIs DEF OnDisk, Read
<1>6. Read(k)' = Read(k)
  BY <1>2 DEF Read
<1> QED BY <1>2, <1>3, <1>4, <1>5, <1>6

\* SavedAlike is kept: a flush adds a table only for keys that the log mentions.
LEMMA SavedStep ==
    ASSUME RefinementInv, [SparingNext]_vars, lost' = {}, NEW k \in Keys
    PROVE  SavedAlike(k)'
<1> SUFFICES ASSUME Mentions(k)' = {}, Loaded'
             PROVE  Lookup(version', sst', k) = Lookup(manifest'.levels, sst', k)
  BY DEF SavedAlike
<1>0. TypeOK /\ PhaseInv /\ LevelInv /\ Staged /\ DataInv
  BY DEF RefinementInv, DataInv, LevelInv, FileInv
<1>1. CASE Rotated
  BY <1>0, <1>1, RotatedIs
<1>2. CASE OpenLoad
  BY <1>2 DEF OpenLoad
<1>3. CASE ~Rotated /\ ~OpenLoad
  <2>1. Mentions(k) = {}
    <3>1. CASE Appending
      BY <1>0, <3>1, LoggedIs, LogGrown
    <3>2. CASE Mentions(k)' = Mentions(k)
      BY <3>2
    <3> QED BY <1>0, <1>3, <3>1, <3>2, MentionsStep
  <2>2. lost = {} /\ Loaded
    BY <1>0, <1>3, StepKinds
  <2>3. Lookup(version, sst, k) = Lookup(manifest.levels, sst, k)
    BY <2>1, <2>2 DEF RefinementInv, Mirrored, SavedAlike
  <2>4. k \notin DOMAIN mem
    BY <2>1, <2>2 DEF RefinementInv, DataInv, Covered, MemoryCovers
  <2>5. Read(k) = Lookup(version, sst, k)
    BY <2>4 DEF Read
  <2>6. /\ ~FlushTable => Lookup(version', sst', k) = Lookup(version, sst, k)
        /\ FlushTable => Lookup(version', sst', k) = Read(k)
        /\ \/ Lookup(manifest'.levels, sst', k) = Lookup(manifest.levels, sst, k)
           \/ Lookup(manifest'.levels, sst', k) = Lookup(version, sst, k)
    BY <1>0, <2>2, LookupStep
  <2> QED BY <2>3, <2>5, <2>6
<1> QED BY <1>1, <1>2, <1>3

\* The replay of a log without buried records ends with a memtable that has all of them.
LEMMA ReplayedIs ==
    ASSUME RefinementInv, ReplayEnd, lost' = {}, NEW k \in Keys
    PROVE  Read(k) = OnDisk(k)
<1>0. TypeOK /\ PhaseInv /\ Replaying
  BY DEF RefinementInv, DataInv, LevelInv, FileInv
<1>1. /\ pc = "replay" /\ lost = {} /\ Behind(replayAt) = {}
      /\ replayAt \in DOMAIN wal => wal[replayAt] = Torn
  BY DEF ReplayEnd
<1>2. Loaded
  BY <1>0, <1>1 DEF PhaseInv, Loaded
<1>3. CASE Mentions(k) = {}
  <2>1. k \notin DOMAIN mem
    BY <1>0, <1>1, <1>3 DEF Replaying
  <2>2. Lookup(version, sst, k) = Lookup(manifest.levels, sst, k)
    BY <1>1, <1>2, <1>3 DEF RefinementInv, Mirrored, SavedAlike
  <2> QED BY <1>3, <2>1, <2>2 DEF Read, OnDisk
<1>4. CASE Mentions(k) # {}
  <2> DEFINE i == Max(Mentions(k))
  <2>1. /\ i \in Mentions(k) /\ \A j \in Mentions(k) : j <= i
        /\ OnDisk(k) = wal[i][k]
    BY <1>0, <1>4, LastMention
  <2> HIDE DEF i
  <2>2. i \in Nat /\ i \in DOMAIN wal /\ wal[i] # Torn /\ replayAt \in Nat
    BY <1>0, <2>1, MentionsIs DEF TypeOK, ControlTypes
  <2>3. i < replayAt
    BY <1>1, <2>2 DEF Behind
  <2>4. LastBefore(Mentions(k), i, replayAt)
    BY <2>1, <2>3 DEF LastBefore
  <2>5. k \in DOMAIN mem /\ mem[k] = wal[i][k]
    BY <1>0, <1>1, <2>4 DEF Replaying
  <2> QED BY <2>1, <2>5 DEF Read
<1> QED BY <1>3, <1>4

\* While Open is under way, the memtable and the log change only as the flush of Close does it.
LEMMA OpeningStep ==
    ASSUME DataInv, [SparingNext]_vars, handle = "opening", handle' # "none", Recovered
    PROVE  /\ UNCHANGED mem \/ FlushSave
           /\ UNCHANGED wal \/ Rotated
           /\ Loaded /\ Loaded'
<1>0. PhaseInv /\ Staged
  BY DEF DataInv, LevelInv, FileInv
<1>1. Loaded /\ Loaded'
  BY <1>0, StepKinds DEF Recovered
<1>2. ~ReplayRecord /\ ~AddRecord /\ ~AddRecordFails /\ ~ApplyBatch
  BY <1>0 DEF Recovered, ReplayRecord, AddRecord, AddRecordFails, ApplyBatch, Staged
<1>3. RotateWal \/ RotateWalFails => UNCHANGED mem /\ wal' \in {<<>>, wal}
  BY DEF RotateWal, RotateWalFails
<1>4. FlushSave => UNCHANGED wal
  BY DEF FlushSave
<1> QED BY <1>0, <1>1, <1>2, <1>3, <1>4, StepKinds DEF Rotated

\* OpensAlike is kept, from the end of the replay on.
LEMMA OpensStep ==
    ASSUME RefinementInv, [SparingNext]_vars, lost' = {}, NEW k \in Keys
    PROVE  OpensAlike(k)'
<1> SUFFICES ASSUME handle' = "opening", Recovered'
             PROVE  Read(k)' = OnDisk(k)'
  BY DEF OpensAlike
<1>0. TypeOK /\ PhaseInv /\ Staged /\ DataInv
  BY DEF RefinementInv, DataInv, LevelInv, FileInv
<1>1. CASE ReplayEnd
  <2>1. Read(k)' = Read(k) /\ OnDisk(k)' = OnDisk(k)
    BY <1>1 DEF ReplayEnd, Read, OnDisk, Mentions, disk, memory
  <2> QED BY <1>1, <2>1, ReplayedIs
<1>2. CASE Recovered
  <2>1. handle = "opening"
    BY <1>0, <1>2, HandleStep DEF Recovered, Loaded
  <2>2. lost = {} /\ Read(k) = OnDisk(k)
    BY <1>0, <1>2, <2>1, StepKinds DEF RefinementInv, Mirrored, OpensAlike
  <2>3. /\ UNCHANGED mem \/ FlushSave
        /\ UNCHANGED wal \/ Rotated
        /\ Loaded /\ Loaded'
    BY <1>0, <1>2, <2>1, OpeningStep
  <2>4. CASE Rotated
    BY <1>0, <2>4, RotatedIs
  <2>5. CASE UNCHANGED wal
    <3>1. Mentions(k)' = Mentions(k)
      BY <2>5 DEF Mentions
    <3> QED BY <1>0, <2>2, <2>3, <2>5, <3>1, StoreSame, ViewSame
  <2> QED BY <2>3, <2>4, <2>5
<1>3. OpenFails => Recovered
  <2> SUFFICES ASSUME OpenFails PROVE Recovered
    OBVIOUS
  <2>1. pc' # "finish" /\ handle = "opening"
    BY DEF OpenFails, Recovered, memory
  <2>2. mem # EmptyTable
    BY <2>1 DEF OpenFails, FlushOr
  <2>3. pc \in {"openwal", "persist"}
    <3>1. pc # "readers"
      BY <1>0, <2>2 DEF Staged
    <3>2. ~(pc = "replay" /\ replayAt = 1)
      <4> SUFFICES ASSUME pc = "replay", replayAt = 1 PROVE FALSE
        OBVIOUS
      <4>1. PICK j \in Keys : j \in DOMAIN mem
        BY <1>0, <2>2, NonEmptyTable DEF TypeOK, MemoryTypes
      <4>2. \E i \in Mentions(j) : i < 1
        BY <4>1 DEF RefinementInv, DataInv, Replaying
      <4> QED BY <1>0, <4>2, MentionsIs
    <3> QED BY <3>1, <3>2 DEF OpenFails
  <2> QED BY <1>0, <2>1, <2>3 DEF Recovered, PhaseInv, Loaded
<1> QED BY <1>0, <1>1, <1>2, <1>3, StepKinds

\* The invariant of the refinement holds throughout.
LEMMA RefinementInvariant == SparingSpec => []RefinementInv
<1>1. Init => Mirrored
  <2> SUFFICES ASSUME Init PROVE Mirrored
    OBVIOUS
  <2>1. ~Loaded /\ ~Recovered
    BY DEF Init, Loaded, Recovered
  <2> QED BY <2>1 DEF Mirrored, SavedAlike, OpensAlike
<1>2. RefinementInv /\ [SparingNext]_vars => Mirrored'
  BY SavedStep, OpensStep DEF Mirrored
<1>3. RefinementInv <=> DataInv /\ Mirrored
  BY DEF RefinementInv
<1> QED BY <1>1, <1>2, <1>3, DataInvariant, PTL DEF SparingSpec

-----------------------------------------------------------------------------
(* Step by step *)

\* Clients can read: Get does not look at closed_.
Serving == handle \in {"open", "closed"}

\* While clients can read, the manifest is loaded and the log replayed.
LEMMA ServingIs ==
    ASSUME PhaseInv, Staged, [SparingNext]_vars
    PROVE  /\ Serving => Loaded /\ Recovered
           /\ Serving' => Loaded' /\ Recovered'
<1>1. Serving => Loaded
  BY DEF Serving, Staged, Loaded
<1>2. Serving' => Loaded'
  BY StepKinds DEF Serving, Loaded
<1> QED BY <1>1, <1>2 DEF Serving, Recovered

\* The maps of the refinement, from the values of their keys.
LEMMA MapsSame ==
    /\ (\A k \in Keys : OnDisk(k)' = OnDisk(k)) => StoreMap' = StoreMap
    /\ Serving /\ Serving' /\ (\A k \in Keys : Read(k)' = Read(k)) => ViewMap' = ViewMap
    /\ ~Serving => ViewMap = StoreMap
    /\ ~Serving' => ViewMap' = StoreMap'
BY DEF StoreMap, ViewMap, Serving

(***************************************************************************)
(* A step that leaves log and memtable alone, or the flush's save, is a    *)
(* restart if the object goes or comes, and otherwise invisible.           *)
(***************************************************************************)
LEMMA QuietMap ==
    ASSUME RefinementInv, [SparingNext]_vars, lost' = {},
           UNCHANGED mem \/ FlushSave \/ ~Serving',
           \A k \in Keys : OnDisk(k)' = OnDisk(k)
    PROVE  [KV!Next]_<<StoreMap, ViewMap>>
<1>0. PhaseInv /\ Staged /\ DataInv
  BY DEF RefinementInv, DataInv, LevelInv, FileInv
<1>1. StoreMap' = StoreMap
  BY MapsSame
<1>2. CASE Serving /\ Serving'
  <2>1. \A k \in Keys : Read(k)' = Read(k)
    BY <1>0, <1>2, ServingIs, ViewSame
  <2> QED BY <1>1, <1>2, <2>1, MapsSame
<1>3. CASE ~Serving'
  <2>1. ViewMap' = StoreMap
    BY <1>1, <1>3, MapsSame
  <2> QED BY <1>1, <2>1 DEF KV!Next, KV!Restart
<1>4. CASE ~Serving /\ Serving'
  <2>1. pc \in {"openwal", "persist"}
    BY <1>0, <1>4, HandleStep DEF Serving, Staged
  <2>2. Recovered /\ handle = "opening"
    <3>1. pc \in {"openwal", "persist"} /\ Loaded
      BY <1>0, <2>1 DEF PhaseInv, Loaded
    <3> QED BY <1>0, <1>4, <3>1 DEF Recovered, Serving, Loaded, RefinementInv, DataInv,
                                    LevelInv, FileInv, TypeOK, MemoryTypes
  <2>3. ASSUME NEW k \in Keys PROVE Read(k)' = OnDisk(k)
    <3>1. Read(k) = OnDisk(k)
      BY <1>0, <2>2, StepKinds DEF RefinementInv, Mirrored, OpensAlike
    <3>2. Loaded /\ Loaded'
      BY <1>0, <1>4, <2>2, ServingIs DEF Recovered
    <3> QED BY <1>0, <1>4, <3>1, <3>2, ViewSame
  <2>4. ViewMap' = StoreMap
    BY <1>4, <2>3 DEF ViewMap, StoreMap, Serving
  <2> QED BY <1>1, <2>4 DEF KV!Next, KV!Restart
<1> QED BY <1>2, <1>3, <1>4

\* A batch reaches the log: KVStore's Log, whether Write then succeeds or not.
LEMMA LogMap ==
    ASSUME RefinementInv, Appending
    PROVE  KV!Next
<1>0. TypeOK /\ DataInv
  BY DEF RefinementInv, DataInv, LevelInv, FileInv
<1>1. /\ pending \in Batches /\ Logged /\ handle = "open" /\ handle' = "open"
      /\ UNCHANGED <<manifest, sst, version, mem>>
  BY <1>0, LoggedIs
<1>2. \A k \in Keys : OnDisk(k)' = IF k \in DOMAIN pending THEN pending[k] ELSE OnDisk(k)
  BY <1>0, <1>1, StoreLogged
<1>3. StoreMap' = KV!Over(pending, StoreMap)
  BY <1>2 DEF StoreMap, KV!Over
<1>4. \A k \in Keys : Read(k)' = Read(k)
  BY <1>1 DEF Read
<1>5. ViewMap' = ViewMap
  BY <1>1, <1>4, MapsSame DEF Serving
<1> QED BY <1>1, <1>3, <1>5 DEF KV!Next, KV!Log

\* The batch that is the last record of the log becomes visible: KVStore's Apply.
LEMMA ApplyMap ==
    ASSUME RefinementInv, ApplyBatch
    PROVE  KV!Next
<1>0. TypeOK /\ PhaseInv /\ Staged
  BY DEF RefinementInv, DataInv, LevelInv, FileInv
<1>1. /\ pc = "apply" /\ pending \in Batches /\ mem' = Overlay(pending, mem)
      /\ UNCHANGED <<wal, manifest, sst, version, handle>> /\ handle = "open"
      /\ Len(wal) \in DOMAIN wal /\ wal[Len(wal)] = pending
  BY <1>0 DEF ApplyBatch, TypeOK, ControlTypes, Staged, disk
<1>2. ASSUME NEW k \in DOMAIN pending PROVE OnDisk(k) = pending[k]
  <2>1. Len(wal) \in Mentions(k)
    BY <1>1, BatchIs DEF Mentions
  <2>2. Len(wal) \in Nat /\ Mentions(k) \subseteq 0 .. Len(wal) /\ \A j \in Mentions(k) : j <= Len(wal)
    BY <1>0, MentionsIs DEF TypeOK, DiskTypes
  <2>3. Max(Mentions(k)) = Len(wal)
    BY <2>1, <2>2, LastIs
  <2> QED BY <1>1, <2>1, <2>3 DEF OnDisk
<1>3. KV!Over(pending, StoreMap) = StoreMap
  BY <1>2 DEF StoreMap, KV!Over
<1>4. \A k \in Keys : OnDisk(k)' = OnDisk(k)
  BY <1>1 DEF OnDisk, Mentions
<1>5. \A k \in Keys : Read(k)' = IF k \in DOMAIN pending THEN pending[k] ELSE Read(k)
  BY <1>1 DEF Read, Overlay
<1>6. ViewMap' = KV!Over(pending, ViewMap)
  BY <1>1, <1>5 DEF ViewMap, KV!Over
<1> QED BY <1>1, <1>3, <1>4, <1>6, MapsSame DEF KV!Next, KV!Apply

(***************************************************************************)
(* The log is removed: what was logged and never applied is forgotten. In  *)
(* an Open that failed there is no such thing.                             *)
(***************************************************************************)
LEMMA RotateMap ==
    ASSUME RefinementInv, [SparingNext]_vars, lost' = {}, Rotated
    PROVE  [KV!Next]_<<StoreMap, ViewMap>>
<1>0. PhaseInv /\ Staged /\ DataInv
  BY DEF RefinementInv, DataInv, LevelInv, FileInv
<1>1. \A k \in Keys : OnDisk(k)' = Read(k) /\ Read(k)' = Read(k)
  BY <1>0, RotatedIs
<1>2. UNCHANGED handle /\ Recovered
  BY <1>0, RotatedIs
<1>3. CASE Serving
  <2>1. StoreMap' = ViewMap
    BY <1>1, <1>3 DEF StoreMap, ViewMap, Serving
  <2>2. ViewMap' = ViewMap
    BY <1>1, <1>2, <1>3, MapsSame DEF Serving
  <2> QED BY <2>1, <2>2 DEF KV!Next, KV!Forget
<1>4. CASE ~Serving
  <2>1. handle = "opening"
    BY <1>2, <1>4 DEF Recovered, Serving, Loaded, RefinementInv, DataInv, LevelInv, FileInv,
                      TypeOK, MemoryTypes
  <2>2. \A k \in Keys : OnDisk(k)' = OnDisk(k)
    BY <1>0, <1>1, <1>2, <2>1, StepKinds DEF RefinementInv, Mirrored, OpensAlike
  <2>3. ~Serving'
    BY <1>2, <1>4 DEF Serving
  <2> QED BY <1>4, <2>2, <2>3, MapsSame
<1> QED BY <1>3, <1>4

\* Every step of the engine is a step of the store or leaves it as it is.
LEMMA MapStep ==
    ASSUME RefinementInv, [SparingNext]_vars, lost' = {}
    PROVE  [KV!Next]_<<StoreMap, ViewMap>>
<1>0. TypeOK /\ PhaseInv /\ Staged /\ DataInv
  BY DEF RefinementInv, DataInv, LevelInv, FileInv
<1>1. CASE Rotated
  BY <1>1, RotateMap
<1>2. CASE Appending
  BY <1>2, LogMap
<1>3. CASE ApplyBatch
  BY <1>3, ApplyMap
<1>4. CASE ~Rotated /\ ~Appending /\ ~ApplyBatch
  <2>1. \A k \in Keys : OnDisk(k)' = OnDisk(k)
    BY <1>0, <1>4, MentionsStep, StoreSame
  <2>2. UNCHANGED mem \/ FlushSave \/ ~Serving'
    <3>1. ReplayRecord => ~Serving'
      BY <1>0 DEF ReplayRecord, Staged, Serving
    <3>2. AddRecordFails \/ RotateWal \/ RotateWalFails => UNCHANGED mem
      BY DEF AddRecordFails, RotateWal, RotateWalFails, memory
    <3>3. ~AddRecord /\ ~ApplyBatch
      BY <1>4 DEF Appending
    <3>4. Serving' => Loaded'
      BY <1>0, ServingIs
    <3> QED BY <1>0, <3>1, <3>2, <3>3, <3>4, StepKinds
  <2> QED BY <2>1, <2>2, QuietMap
<1> QED BY <1>1, <1>2, <1>3, <1>4

\* A new directory is an empty store.
LEMMA MapInit == Init => KV!Init
<1> SUFFICES ASSUME Init PROVE KV!Init
  OBVIOUS
<1>1. ASSUME NEW k PROVE OnDisk(k) = Tombstone
  <2>1. Mentions(k) = {} /\ manifest.levels = NoFiles
    BY DEF Init, Mentions
  <2>2. Nowhere(NoFiles, sst, k)
    BY DEF Nowhere, NoFiles, Holders
  <2> QED BY <2>1, <2>2, LookupNone DEF OnDisk
<1>2. ~Serving
  BY DEF Init, Serving
<1>3. StoreMap = [k \in Keys |-> Tombstone]
  BY <1>1 DEF StoreMap
<1> QED BY <1>2, <1>3, MapsSame DEF KV!Init

(***************************************************************************)
(* The storage engine implements the key-value store: a batch becomes      *)
(* durable at the append of its record and visible when it is applied,     *)
(* each time as a whole, and no step of Open, a flush, a compaction, Close,*)
(* an error path or a crash shows, until a write has been lost.            *)
(***************************************************************************)
THEOREM EngineImplementsStore ==
    ASSUME PlainPaths
    PROVE  Spec => ImplementsStore
<1>1. RefinementInv /\ [SparingNext]_vars =>
        (Unharmed /\ Unharmed' => [KV!Next]_<<StoreMap, ViewMap>>)
  BY MapStep DEF Unharmed
<1> QED BY <1>1, MapInit, RefinementInvariant, PlainSpec, PTL DEF SparingSpec, ImplementsStore

-----------------------------------------------------------------------------
(***************************************************************************)
(* What the losses come down to. A step is sound if it does none of four   *)
(* things the code does: append to a log that ends in a part of a record   *)
(* (which Open does not cut off), end the replay before the end of the log *)
(* because a read fails, save version_ of an object that could not load    *)
(* the manifest, or remove tables that the manifest names (as Open does    *)
(* for a db_path that ends with a separator). Every other step, failure    *)
(* and crash remains possible.                                             *)
(***************************************************************************)
Sound ==
    /\ Len(wal') > Len(wal) => \A i \in DOMAIN wal : wal[i] # Torn
    /\ pc = "replay" /\ pc' = "openwal" /\ replayAt \in DOMAIN wal => wal[replayAt] = Torn
    /\ op = "load_failed" => UNCHANGED manifest
    /\ Spares

\* Sound steps are among those the invariants are about.
LEMMA SoundSpares == [Next]_vars /\ [Sound]_vars => [SparingNext]_vars
BY DEF Sound, SparingNext

\* Nothing is lost, and a part of a record can only be the last one of the log.
Intact == lost = {} /\ \A i \in DOMAIN wal : wal[i] = Torn => i = Len(wal)

\* The steps that can find a write lost.
LEMMA LostStep ==
    ASSUME [SparingNext]_vars
    PROVE  UNCHANGED lost \/ ReplayEnd \/ ReplayReadFails \/ AbandonFinish
BY DEF SparingNext, Next, Begin, Work, Opening, Writing, Flushing, Compacting, Finishing, Failing, vars,
       OpenBegin, WriteBegin, FlushCall, BackgroundBegin, CloseBegin, Destroy, OpenLoad,
       OpenReaders, ReplayRecord, OpenWal, OpenPersist, AddRecord, ApplyBatch, FlushTable,
       FlushSave, RotateWal, CompactNone, CompactPick, CompactOutput, CompactInstall,
       CompactRemove, CloseFinish, OpenLoadFails, OpenFails, AddRecordFails, FlushTableFails,
       FlushSaveFails, RotateWalFails, CompactReadFails, CompactOutputFails,
       CompactInstallFails, Crash, history

\* The log grows by one record, is removed, or stays as it is.
LEMMA WalStep ==
    ASSUME TypeOK, PhaseInv, Staged, [SparingNext]_vars
    PROVE  wal' \in {wal, <<>>} \/ \E r \in Batches \cup {Torn} : wal' = Append(wal, r)
<1>1. ReplayRecord \/ ApplyBatch \/ FlushSave => wal' = wal
  BY DEF ReplayRecord, ApplyBatch, FlushSave, disk
<1>2. RotateWal \/ RotateWalFails => wal' \in {<<>>, wal}
  BY DEF RotateWal, RotateWalFails
<1>3. AddRecord \/ AddRecordFails => wal' \in {wal, Append(wal, Torn), Append(wal, pending)}
                                  /\ pending \in Batches
  BY DEF AddRecord, AddRecordFails, Logged, TypeOK, ControlTypes
<1> QED BY <1>1, <1>2, <1>3, StepKinds

\* In an intact log no replay leaves a complete record behind.
LEMMA NoneBehind ==
    ASSUME TypeOK, Intact, NEW i \in Nat, i \in DOMAIN wal => wal[i] = Torn, i > 0
    PROVE  Behind(i) = {}
<1> SUFFICES ASSUME NEW j \in DOMAIN wal, j > i PROVE FALSE
  BY DEF Behind
<1>1. Len(wal) \in Nat /\ DOMAIN wal = 1 .. Len(wal) /\ j \in Nat
  BY DEF TypeOK, DiskTypes
<1>2. i \in DOMAIN wal
  BY <1>1
<1>3. i = Len(wal)
  BY <1>2 DEF Intact
<1> QED BY <1>1, <1>3

\* A sound step loses nothing.
LEMMA SoundStep ==
    ASSUME DataInv, Intact, [SparingNext]_vars, [Sound]_vars
    PROVE  Intact'
<1>0. TypeOK /\ PhaseInv /\ Staged
  BY DEF DataInv, LevelInv, FileInv
<1>1. Sound \/ UNCHANGED vars
  OBVIOUS
<1>2. CASE UNCHANGED vars
  BY <1>2 DEF vars, disk, history, Intact
<1>3. CASE Sound
  <2>1. lost' = {}
    <3>1. CASE UNCHANGED lost
      BY <3>1 DEF Intact
    <3>2. CASE ReplayEnd
      <4>1. Behind(replayAt) = {}
        BY <1>0, <3>2, NoneBehind DEF ReplayEnd, TypeOK, ControlTypes
      <4> QED BY <3>2, <4>1 DEF ReplayEnd, Intact
    <3>3. CASE ReplayReadFails
      <4>1. replayAt \in DOMAIN wal
        BY <1>0, <3>3 DEF ReplayReadFails, TypeOK, ControlTypes, DiskTypes
      <4> QED BY <1>3, <3>3, <4>1 DEF ReplayReadFails, Sound
    <3>4. CASE AbandonFinish
      <4>1. CASE UNCHANGED lost
        BY <4>1 DEF Intact
      <4>2. CASE op = "load_failed" /\ manifest.levels # NoFiles /\ manifest' = Saved(version)
        <5>1. version = NoFiles
          BY <1>0, <4>2 DEF PhaseInv, Staged, Loaded
        <5>2. manifest'.levels = NoFiles
          BY <4>2, <5>1 DEF Saved
        <5> QED BY <1>3, <4>2, <5>2 DEF Sound
      <4> QED BY <3>4, <4>1, <4>2 DEF AbandonFinish
    <3> QED BY <3>1, <3>2, <3>3, <3>4, LostStep
  <2>2. ASSUME NEW i \in DOMAIN wal', wal'[i] = Torn PROVE i = Len(wal')
    <3>1. CASE wal' = wal
      BY <2>2, <3>1 DEF Intact
    <3>2. CASE wal' = <<>>
      BY <2>2, <3>2
    <3>3. ASSUME NEW r \in Batches \cup {Torn}, wal' = Append(wal, r) PROVE i = Len(wal')
      <4>1. /\ wal \in Seq(Batches \cup {Torn}) /\ Len(wal) \in Nat
            /\ Len(wal') = Len(wal) + 1 /\ DOMAIN wal' = 1 .. Len(wal) + 1
            /\ DOMAIN wal = 1 .. Len(wal) /\ \A j \in DOMAIN wal : wal'[j] = wal[j]
        BY <1>0, <3>3 DEF TypeOK, DiskTypes
      <4>2. \A j \in DOMAIN wal : wal[j] # Torn
        BY <1>3, <4>1 DEF Sound
      <4> QED BY <2>2, <4>1, <4>2
    <3> QED BY <1>0, <3>1, <3>2, <3>3, WalStep
  <2> QED BY <2>1, <2>2 DEF Intact
<1> QED BY <1>1, <1>2, <1>3

(***************************************************************************)
(* The four unsound steps are the only ways to lose a write: while none    *)
(* of them is taken, whatever else fails and wherever the process dies,    *)
(* Get returns and the directory holds the last acknowledged write of      *)
(* every key.                                                              *)
(***************************************************************************)
THEOREM OnlyDefectsLoseWrites ==
    Spec /\ [][Sound]_vars =>
      [](\A k \in Keys : /\ OnDisk(k) \in expect[k]
                        /\ handle = "open" /\ pc = "idle" => Read(k) \in expect[k])
<1>1. Init => Intact
  BY DEF Init, Intact
<1>2. DataInv /\ Intact /\ [SparingNext]_vars /\ [Sound]_vars => Intact'
  BY SoundStep
<1>3. DataInv /\ Intact => ~Buried
  <2> SUFFICES ASSUME DataInv, Intact, NEW i \in DOMAIN wal, wal[i] = Torn PROVE Behind(i) = {}
    BY DEF Buried
  <2>1. TypeOK
    BY DEF DataInv, LevelInv, FileInv
  <2> QED BY <2>1, NoneBehind DEF TypeOK, DiskTypes
<1>4. DataInv /\ Intact /\ ReadsExpected /\ DurableAlways =>
        \A k \in Keys : /\ OnDisk(k) \in expect[k]
                       /\ handle = "open" /\ pc = "idle" => Read(k) \in expect[k]
  BY <1>3 DEF Intact, ReadsExpected, DurableAlways
<1> QED
  BY <1>1, <1>2, <1>4, SoundSpares, DataInvariant, DataRead, DataDurable, PTL
  DEF Spec, SparingSpec

(***************************************************************************)
(* While every step is sound the engine is the key-value store of KVStore, *)
(* with no exception: its specification holds of what the files contain    *)
(* and of what Get returns.                                                *)
(***************************************************************************)
THEOREM SoundEngineIsStore == Spec /\ [][Sound]_vars => KV!Spec
<1>1. Init => Intact
  BY DEF Init, Intact
<1>2. RefinementInv /\ Intact /\ [SparingNext]_vars /\ [Sound]_vars => Intact'
  BY SoundStep DEF RefinementInv
<1>3. RefinementInv /\ [SparingNext]_vars /\ Intact' => [KV!Next]_<<StoreMap, ViewMap>>
  BY MapStep DEF Intact
<1> QED
  BY <1>1, <1>2, <1>3, SoundSpares, MapInit, RefinementInvariant, PTL
  DEF Spec, SparingSpec, KV!Spec

-----------------------------------------------------------------------------
(* Get and the merge of NewIterator *)

\* The tables that answer for a key are files that have it.
LEMMA AnswersAre ==
    ASSUME TypeOK, NEW l \in Levels, NEW k, NEW bad
    PROVE  /\ Answers(version[l], k, bad) \subseteq FileNums
           /\ \A n \in Answers(version[l], k, bad) :
                n \in Holders(version[l], sst, k) /\ k \in DOMAIN sst[n]
BY DEF TypeOK, MemoryTypes, Answers, Holders

\* The first level that answers.
LEMMA AnsweredFirst ==
    ASSUME NEW k, NEW bad, Answered(k, bad) # {}
    PROVE  /\ Min(Answered(k, bad)) \in Levels
           /\ Answers(version[Min(Answered(k, bad))], k, bad) # {}
<1> DEFINE A == Answered(k, bad)
<1>1. A \subseteq Nat /\ A # {}
  BY DEF Answered, Levels
<1>2. Min(A) \in A
  <2> HIDE DEF A
  <2> QED BY <1>1, MinIs
<1> QED BY <1>2 DEF Answered

(***************************************************************************)
(* Of the tables of a level that answer, NewIterator's last one is the one *)
(* that Get stops at: at level 0 both take the newest, and below it there  *)
(* is only one, because the files of a level have disjoint key ranges.     *)
(***************************************************************************)
LEMMA LastIsFirst ==
    ASSUME LevelInv, NEW l \in Levels, NEW k, NEW bad, Answers(version[l], k, bad) # {}
    PROVE  Max(Answers(version[l], k, bad)) = Answering(l, Answers(version[l], k, bad))
<1> DEFINE H == Answers(version[l], k, bad)
<1>1. TypeOK
  BY DEF LevelInv, FileInv
<1>2. H \subseteq FileNums /\ \A n \in H : n \in Holders(version[l], sst, k)
  BY <1>1, AnswersAre
<1>3. Max(H) \in H /\ Answering(l, H) \in H
  <2>1. H \subseteq 0 .. MaxFile /\ MaxFile \in Nat
    BY <1>2, Bounds DEF FileNums
  <2> HIDE DEF H
  <2> QED BY <1>2, <2>1, MaxIs, AnsweringIs DEF H
<1>4. CASE l = 0
  BY <1>4 DEF Answering
<1>5. CASE l # 0
  <2>1. Apart(version[l], sst) /\ version[l] \subseteq FileNums /\ sst \in [FileNums -> Table]
    BY <1>1, <1>5 DEF LevelInv, Sorted, TypeOK, MemoryTypes, DiskTypes
  <2> QED BY <1>2, <1>3, <2>1, OneHolder
<1> QED BY <1>4, <1>5

\* The entry that ends up in a scan is the one that Get returns, whichever tables fail.
LEMMA ScanIsGet ==
    ASSUME LevelInv, NEW k, NEW bad
    PROVE  ScanEntry(k, bad) = GetEntry(k, bad)
<1>1. CASE k \in DOMAIN mem \/ Answered(k, bad) = {}
  BY <1>1 DEF ScanEntry, GetEntry
<1>2. CASE k \notin DOMAIN mem /\ Answered(k, bad) # {}
  <2> DEFINE l == Min(Answered(k, bad))
  <2>1. Max(Answers(version[l], k, bad)) = Answering(l, Answers(version[l], k, bad))
    BY <1>2, AnsweredFirst, LastIsFirst
  <2> QED BY <1>2, <2>1 DEF ScanEntry, GetEntry
<1> QED BY <1>1, <1>2

\* Without a read error, Get looks a key up in the memtable and then in the levels.
LEMMA GetIsRead ==
    ASSUME NEW k
    PROVE  GetEntry(k, {}) = Read(k)
<1>1. \A S : Answers(S, k, {}) = Holders(S, sst, k)
  BY DEF Answers
<1>2. Answered(k, {}) = {l \in Levels : Holders(version[l], sst, k) # {}}
  BY <1>1 DEF Answered
<1> QED BY <1>1, <1>2 DEF GetEntry, Read, Lookup

\* What Get returns is an entry.
LEMMA GetType ==
    ASSUME TypeOK, NEW k, NEW bad
    PROVE  GetEntry(k, bad) \in Entries
<1>0. mem \in Table /\ sst \in [FileNums -> Table] /\ Tombstone \in Entries
  BY DEF TypeOK, MemoryTypes, DiskTypes, Entries
<1>1. CASE k \in DOMAIN mem \/ Answered(k, bad) = {}
  BY <1>0, <1>1, TableIs DEF GetEntry
<1>2. CASE k \notin DOMAIN mem /\ Answered(k, bad) # {}
  <2> DEFINE l == Min(Answered(k, bad))
             H == Answers(version[l], k, bad)
  <2>1. l \in Levels /\ H # {}
    BY <1>2, AnsweredFirst
  <2>2. H \subseteq FileNums /\ \A n \in H : k \in DOMAIN sst[n]
    BY <2>1, AnswersAre
  <2>3. Answering(l, H) \in H
    <3> HIDE DEF H, l
    <3> QED BY <2>1, <2>2, AnsweringIs
  <2>4. sst[Answering(l, H)] \in Table /\ k \in DOMAIN sst[Answering(l, H)]
    BY <1>0, <2>2, <2>3
  <2>5. sst[Answering(l, H)][k] \in Entries
    <3> HIDE DEF H, l
    <3> QED BY <2>4, TableIs
  <2> QED BY <1>2, <2>5 DEF GetEntry
<1> QED BY <1>1, <1>2

-----------------------------------------------------------------------------
(* Positions *)

\* Among keys there is a first one.
LEMMA KeyMin ==
    ASSUME NEW S, S \subseteq Keys, S # {}
    PROVE  Min(S) \in S /\ \A k \in S : Min(S) <= k
<1>1. PICK least \in Int : \A k \in Keys : least <= k
  BY ReaderAssumption, TreeAssumption
<1>2. S \subseteq Int /\ \A k \in S : least <= k
  BY <1>1, TreeAssumption
<1> DEFINE M == {k - least : k \in S}
<1>3. M \subseteq Nat /\ M # {}
  <2>1. \A k \in S : k - least \in Nat
    BY <1>2
  <2>2. M \subseteq Nat
    BY <2>1
  <2>3. \E k \in S : TRUE
    OBVIOUS
  <2> QED BY <2>2, <2>3
<1>4. PICK d \in M : \A e \in M : d <= e
  <2> HIDE DEF M
  <2> QED BY <1>3, MinExists
<1>5. PICK x \in S : d = x - least
  BY <1>4
<1>6. \A k \in S : x <= k
  <2> TAKE k \in S
  <2>1. k - least \in M
    OBVIOUS
  <2> HIDE DEF M
  <2>2. x - least <= k - least
    BY <1>4, <1>5, <2>1
  <2> QED BY <1>2, <2>2
<1>7. \E y \in S : \A k \in S : y <= k
  BY <1>6
<1> QED BY <1>7 DEF Min

\* The entries of m with a key in S, up to position p.
UpTo(m, S, p) == [k \in {j \in DOMAIN m \cap S : p = End \/ j <= p} |-> m[k]]

\* SeekToFirst, on a snapshot m.
LEMMA StartIs ==
    ASSUME NEW m \in Table
    PROVE  /\ FirstPosition(m) \in DOMAIN m \cup {End}
           /\ Visit(EmptyTable, m, FirstPosition(m)) = UpTo(m, Keys, FirstPosition(m))
<1> DEFINE p == FirstPosition(m)
<1>1. DOMAIN m \subseteq Keys /\ End \notin DOMAIN m /\ DOMAIN m \subseteq Int
  BY TableIs, ReaderAssumption, TreeAssumption
<1>2. CASE m = EmptyTable
  <2>1. p = End
    BY <1>2 DEF FirstPosition
  <2>2. UpTo(m, Keys, p) = EmptyTable
    BY <1>2, EmptyTableIs DEF UpTo, EmptyTable
  <2> QED BY <2>1, <2>2 DEF Visit
<1>3. CASE m # EmptyTable
  <2>1. DOMAIN m # {}
    BY <1>3, NonEmptyTable
  <2>2. p = Min(DOMAIN m)
    BY <1>3 DEF FirstPosition
  <2>3. p \in DOMAIN m /\ \A k \in DOMAIN m : p <= k
    BY <1>1, <2>1, <2>2, KeyMin
  <2> HIDE DEF p
  <2>4. p # End
    BY <1>1, <2>3
  <2>5. {j \in DOMAIN m \cap Keys : p = End \/ j <= p} = {p}
    <3>1. \A j \in DOMAIN m : j <= p => j = p
      BY <1>1, <2>3
    <3>2. p <= p
      BY <1>1, <2>3
    <3> QED BY <1>1, <2>3, <2>4, <3>1, <3>2
  <2>6. Visit(EmptyTable, m, p) = [k \in {p} |-> m[k]]
    BY <2>4, EmptyTableIs DEF Visit, Overlay
  <2>7. Visit(EmptyTable, m, p) = UpTo(m, Keys, p)
    BY <2>5, <2>6 DEF UpTo
  <2> QED BY <2>3, <2>7 DEF p
<1> QED BY <1>2, <1>3

\* std::map::lower_bound.
LEMMA LowerBoundIs ==
    ASSUME NEW m \in Table, NEW k \in Int
    PROVE  LET p == LowerBound(m, k)
           IN  \/ p = End /\ \A j \in DOMAIN m : j < k
               \/ p \in DOMAIN m /\ k <= p /\ \A j \in DOMAIN m : j < k \/ p <= j
<1> DEFINE S == {j \in DOMAIN m : j >= k}
           p == LowerBound(m, k)
<1>1. DOMAIN m \subseteq Keys /\ DOMAIN m \subseteq Int
  BY TableIs, TreeAssumption
<1>2. \A j \in DOMAIN m : j \notin S => j < k
  BY <1>1
<1>3. CASE S = {}
  <2>1. p = End
    BY <1>3 DEF LowerBound
  <2> QED BY <1>2, <1>3, <2>1
<1>4. CASE S # {}
  <2>1. S \subseteq Keys
    BY <1>1
  <2>2. p = Min(S)
    BY <1>4 DEF LowerBound
  <2>3. p \in S /\ \A j \in S : p <= j
    <3> HIDE DEF S
    <3> QED BY <1>4, <2>1, <2>2, KeyMin
  <2>4. k <= p
    BY <1>1, <2>3
  <2> QED BY <1>2, <2>3, <2>4
<1> QED BY <1>3, <1>4

\* Iterator::Seek: the walk begins at the first entry from k on.
LEMMA SeekIs ==
    ASSUME NEW m \in Table, NEW k \in Keys
    PROVE  LET p == LowerBound(m, k)
               S == {j \in Keys : j >= k}
           IN  /\ p \in DOMAIN m \cup {End} /\ p \in S \cup {End}
               /\ Visit(EmptyTable, m, p) = UpTo(m, S, p)
<1> DEFINE p == LowerBound(m, k)
           S == {j \in Keys : j >= k}
<1>1. /\ DOMAIN m \subseteq Keys /\ DOMAIN m \subseteq Int
      /\ k \in Int /\ End \notin DOMAIN m
  BY TableIs, TreeAssumption, ReaderAssumption
<1>2. \/ p = End /\ \A j \in DOMAIN m : j < k
      \/ p \in DOMAIN m /\ k <= p /\ \A j \in DOMAIN m : j < k \/ p <= j
  BY <1>1, LowerBoundIs
<1> HIDE DEF p
<1>3. CASE p = End
  <2>1. {j \in DOMAIN m \cap S : p = End \/ j <= p} = {}
    BY <1>1, <1>2, <1>3
  <2>2. UpTo(m, S, p) = EmptyTable
    BY <2>1 DEF UpTo, EmptyTable
  <2> QED BY <1>3, <2>2 DEF Visit, p
<1>4. CASE p # End
  <2>1. p \in DOMAIN m /\ k <= p /\ \A j \in DOMAIN m : j < k \/ p <= j
    BY <1>2, <1>4
  <2>2. p \in S /\ \A j \in DOMAIN m \cap S : j <= p => j = p
    BY <1>1, <2>1
  <2>3. {j \in DOMAIN m \cap S : p = End \/ j <= p} = {p}
    <3>1. p <= p
      BY <1>1, <2>1
    <3> QED BY <1>4, <2>1, <2>2, <3>1
  <2>4. Visit(EmptyTable, m, p) = [i \in {p} |-> m[i]]
    BY <1>4, EmptyTableIs DEF Visit, Overlay
  <2>5. Visit(EmptyTable, m, p) = UpTo(m, S, p)
    BY <2>3, <2>4 DEF UpTo
  <2> QED BY <2>1, <2>2, <2>5 DEF p
<1> QED BY <1>3, <1>4

\* S holds every key behind one of its own.
ToTheEnd(S) == \A i \in S, j \in Keys : i <= j => j \in S

\* Iterator::Next: the entries seen are those up to the new position.
LEMMA AdvanceIs ==
    ASSUME NEW m \in Table, NEW S \in SUBSET Keys, ToTheEnd(S), NEW p \in DOMAIN m \cap S
    PROVE  LET q == LowerBound(m, p + 1)
           IN  /\ q \in DOMAIN m \cup {End} /\ q \in S \cup {End}
               /\ Visit(UpTo(m, S, p), m, q) = UpTo(m, S, q)
<1> DEFINE q == LowerBound(m, p + 1)
<1>1. /\ DOMAIN m \subseteq Keys /\ DOMAIN m \subseteq Int
      /\ End \notin DOMAIN m /\ p \in Int /\ p # End
  BY TableIs, TreeAssumption, ReaderAssumption
<1>2. \/ q = End /\ \A j \in DOMAIN m : j < p + 1
      \/ q \in DOMAIN m /\ p + 1 <= q /\ \A j \in DOMAIN m : j < p + 1 \/ q <= j
  BY <1>1, LowerBoundIs
<1> HIDE DEF q
<1>3. /\ DOMAIN UpTo(m, S, p) = {j \in DOMAIN m \cap S : j <= p}
      /\ \A j \in DOMAIN UpTo(m, S, p) : UpTo(m, S, p)[j] = m[j]
  BY <1>1 DEF UpTo
<1>4. CASE q = End
  <2>1. \A j \in DOMAIN m : j <= p
    BY <1>1, <1>2, <1>4
  <2>2. UpTo(m, S, p) = UpTo(m, S, q)
    BY <1>1, <1>4, <2>1 DEF UpTo
  <2> QED BY <1>4, <2>2 DEF Visit, q
<1>5. CASE q # End
  <2>1. q \in DOMAIN m /\ p + 1 <= q /\ \A j \in DOMAIN m : j < p + 1 \/ q <= j
    BY <1>2, <1>5
  <2>6. q \in S
    BY <1>1, <2>1 DEF ToTheEnd
  <2>2. \A j \in DOMAIN m : j <= q <=> j <= p \/ j = q
    BY <1>1, <2>1
  <2>3. {q} \cup DOMAIN UpTo(m, S, p) = {j \in DOMAIN m \cap S : q = End \/ j <= q}
    BY <1>3, <1>5, <2>1, <2>2, <2>6
  <2>4. Visit(UpTo(m, S, p), m, q)
          = [k \in {q} \cup DOMAIN UpTo(m, S, p) |-> IF k \in {q} THEN m[k] ELSE UpTo(m, S, p)[k]]
    BY <1>5 DEF Visit, Overlay
  <2>5. Visit(UpTo(m, S, p), m, q) = [k \in {j \in DOMAIN m \cap S : q = End \/ j <= q} |-> m[k]]
    BY <1>3, <2>3, <2>4
  <2> QED BY <2>1, <2>5, <2>6 DEF UpTo, q
<1> QED BY <1>4, <1>5

-----------------------------------------------------------------------------
(* The iterator *)

(***************************************************************************)
(* The inductive invariant: a walk has seen the entries of its range up to *)
(* where it is, and its range goes on to the last key (Walking); an        *)
(* iterator that could read every table has copied what Get returned       *)
(* (Copied).                                                               *)
(***************************************************************************)
Walking ==
    /\ seen = UpTo(snapshot, scope, at)
    /\ ToTheEnd(scope) /\ at \in scope \cup {End}

Copied == whole => snapshot = LiveEntries(frozen)

ReaderInv == LevelInv /\ ReaderTypeOK /\ Walking /\ Copied

\* Leaving out the tombstones of what was read gives a table.
LEMMA LiveEntriesType ==
    ASSUME NEW f \in [Keys -> Entries]
    PROVE  LiveEntries(f) \in Table
<1>1. f \in Table /\ DOMAIN f = Keys
  BY TableIs
<1>2. {j \in DOMAIN f : f[j] # Tombstone} \in SUBSET DOMAIN f
  OBVIOUS
<1> QED BY <1>1, <1>2, RestrictType DEF LiveEntries

\* The entries seen so far are a table.
LEMMA UpToType ==
    ASSUME NEW m \in Table, NEW S, NEW p
    PROVE  UpTo(m, S, p) \in Table
BY RestrictType DEF UpTo

\* Before the first NewIterator there is an empty snapshot.
LEMMA ReaderStarts == Init /\ ReaderInit => ReaderInv
<1> SUFFICES ASSUME Init, ReaderInit PROVE ReaderInv
  OBVIOUS
<1>1. LevelInv
  BY FileInit, ApartEmpty DEF Init, LevelInv, Sorted, Merging, NoFiles
<1>2. frozen \in [Keys -> Entries]
  BY DEF ReaderInit, Entries
<1>3. ReaderTypeOK
  BY <1>2, EmptyTableIs DEF ReaderInit, ReaderTypeOK
<1>4. UpTo(EmptyTable, Keys, End) = EmptyTable
  BY EmptyTableIs DEF UpTo, EmptyTable
<1>5. LiveEntries([k \in Keys |-> Tombstone]) = EmptyTable
  BY DEF LiveEntries, EmptyTable
<1> QED BY <1>1, <1>3, <1>4, <1>5 DEF ReaderInv, ReaderInit, Walking, Copied, ToTheEnd

\* No step of the engine or of the iterator breaks the invariant.
LEMMA ReaderStep ==
    ASSUME PlainPaths
    PROVE  ReaderInv /\ [ReaderNext]_rvars => ReaderInv'
<1> SUFFICES ASSUME ReaderInv, [ReaderNext]_rvars PROVE ReaderInv'
  OBVIOUS
<1>0. LevelInv /\ ReaderTypeOK /\ Walking /\ Copied
  BY DEF ReaderInv
<1>1. CASE [Next]_vars /\ UNCHANGED cursor
  <2>1. LevelInv'
    BY <1>0, <1>1, LevelStep, PlainSpares DEF LevelInv, FileInv
  <2>2. ReaderTypeOK' /\ Walking' /\ Copied'
    BY <1>0, <1>1 DEF cursor, ReaderTypeOK, Walking, Copied
  <2> QED BY <2>1, <2>2 DEF ReaderInv
<1>2. UNCHANGED vars => LevelInv'
  BY <1>0, LevelStep
<1>3. ASSUME NEW bad, NewIterator(bad) PROVE ReaderInv'
  <2> DEFINE f == [k \in Keys |-> ScanEntry(k, bad)]
  <2>1. /\ snapshot' = LiveEntries(f)
        /\ at' = FirstPosition(snapshot') /\ seen' = Visit(EmptyTable, snapshot', at')
        /\ scope' = Keys
        /\ frozen' = [k \in Keys |-> GetEntry(k, {})] /\ UNCHANGED vars
    BY <1>3 DEF NewIterator
  <2>2. whole' = (bad = {})
    BY <1>3 DEF NewIterator
  <2>3. TypeOK
    BY <1>0 DEF LevelInv, FileInv
  <2>4. f \in [Keys -> Entries] /\ frozen' \in [Keys -> Entries]
    BY <1>0, <2>1, <2>3, ScanIsGet, GetType
  <2>5. snapshot' \in Table
    <3> HIDE DEF f
    <3> QED BY <2>1, <2>4, LiveEntriesType
  <2>6. at' \in DOMAIN snapshot' \cup {End} /\ seen' = UpTo(snapshot', Keys, at')
    BY <2>1, <2>5, StartIs
  <2>7. whole' \in BOOLEAN
    BY <2>2, Zenon
  <2>8. at' \in Keys \cup {End}
    BY <2>5, <2>6, TableIs
  <2>9. ReaderTypeOK'
    BY <2>1, <2>4, <2>5, <2>6, <2>7, UpToType DEF ReaderTypeOK
  <2>10. Copied'
    <3>1. whole' => bad = {}
      BY <2>2, Zenon
    <3>2. bad = {} => f = frozen'
      BY <1>0, <2>1, ScanIsGet
    <3> HIDE DEF f
    <3> QED BY <2>1, <3>1, <3>2 DEF Copied
  <2> QED BY <1>2, <2>1, <2>6, <2>8, <2>9, <2>10 DEF ReaderInv, Walking, ToTheEnd
<1>4. CASE SeekToFirst
  <2>1. /\ at' = FirstPosition(snapshot) /\ seen' = Visit(EmptyTable, snapshot, at')
        /\ scope' = Keys /\ UNCHANGED <<vars, snapshot, frozen, whole>>
    BY <1>4 DEF SeekToFirst
  <2>2. snapshot \in Table
    BY <1>0 DEF ReaderTypeOK
  <2>3. at' \in DOMAIN snapshot \cup {End} /\ seen' = UpTo(snapshot, Keys, at')
    BY <2>1, <2>2, StartIs
  <2>4. at' \in Keys \cup {End}
    BY <2>2, <2>3, TableIs
  <2>5. ReaderTypeOK'
    BY <1>0, <2>1, <2>2, <2>3, UpToType DEF ReaderTypeOK
  <2> QED BY <1>0, <1>2, <2>1, <2>3, <2>4, <2>5 DEF ReaderInv, Walking, Copied, ToTheEnd
<1>5. ASSUME NEW k \in Keys, Seek(k) PROVE ReaderInv'
  <2>1. /\ at' = LowerBound(snapshot, k) /\ seen' = Visit(EmptyTable, snapshot, at')
        /\ scope' = {j \in Keys : j >= k} /\ UNCHANGED <<vars, snapshot, frozen, whole>>
    BY <1>5 DEF Seek
  <2>2. snapshot \in Table
    BY <1>0 DEF ReaderTypeOK
  <2>3. /\ at' \in DOMAIN snapshot \cup {End} /\ at' \in scope' \cup {End}
        /\ seen' = UpTo(snapshot, scope', at')
    BY <2>1, <2>2, SeekIs
  <2>4. ToTheEnd(scope') /\ scope' \subseteq Keys
    BY <2>1, TreeAssumption DEF ToTheEnd
  <2>5. ReaderTypeOK'
    BY <1>0, <2>1, <2>2, <2>3, <2>4, UpToType DEF ReaderTypeOK
  <2> QED BY <1>0, <1>2, <2>1, <2>3, <2>4, <2>5 DEF ReaderInv, Walking, Copied
<1>6. CASE Advance
  <2>1. /\ at # End /\ at' = LowerBound(snapshot, at + 1)
        /\ seen' = Visit(seen, snapshot, at')
        /\ UNCHANGED <<vars, snapshot, scope, frozen, whole>>
    BY <1>6 DEF Advance
  <2>2. /\ snapshot \in Table /\ scope \in SUBSET Keys /\ ToTheEnd(scope)
        /\ at \in DOMAIN snapshot \cap scope
    BY <1>0, <2>1 DEF ReaderTypeOK, Walking
  <2>3. /\ at' \in DOMAIN snapshot \cup {End} /\ at' \in scope \cup {End}
        /\ Visit(UpTo(snapshot, scope, at), snapshot, at') = UpTo(snapshot, scope, at')
    BY <2>1, <2>2, AdvanceIs
  <2>4. seen' = UpTo(snapshot, scope, at')
    BY <1>0, <2>1, <2>3 DEF Walking
  <2>5. ReaderTypeOK'
    BY <1>0, <2>1, <2>2, <2>3, <2>4, UpToType DEF ReaderTypeOK
  <2> QED BY <1>0, <1>2, <2>1, <2>2, <2>3, <2>4, <2>5 DEF ReaderInv, Walking, Copied
<1>7. UNCHANGED rvars => [Next]_vars /\ UNCHANGED cursor
  BY DEF rvars
<1> QED BY <1>1, <1>3, <1>4, <1>5, <1>6, <1>7 DEF ReaderNext, Walk

\* It holds throughout.
LEMMA ReaderInvariant ==
    ASSUME PlainPaths
    PROVE  ReaderSpec => []ReaderInv
BY ReaderStarts, ReaderStep, PTL DEF ReaderSpec

\* The members of Iterator hold what their types say; its position is in its snapshot.
THEOREM ReaderTyping ==
    ASSUME PlainPaths
    PROVE  ReaderSpec => []ReaderTypeOK
<1>1. ReaderInv => ReaderTypeOK
  BY DEF ReaderInv
<1> QED BY <1>1, ReaderInvariant, PTL

\* NewIterator, which overwrites from the deepest level up, and Get, which stops at the first
\* table that answers, have the same entry for every key.
THEOREM ScansAgree ==
    ASSUME PlainPaths
    PROVE  ReaderSpec => []ScanAgreesWithGet
<1>1. ReaderInv => ScanAgreesWithGet
  BY ScanIsGet DEF ReaderInv, ScanAgreesWithGet
<1> QED BY <1>1, ReaderInvariant, PTL

(***************************************************************************)
(* A walk to the end visits every entry of its range that Get returned     *)
(* when NewIterator was called, and no other, however the entries are      *)
(* spread over memtable, tables and levels.                                *)
(***************************************************************************)
THEOREM ScansAreComplete ==
    ASSUME PlainPaths
    PROVE  ReaderSpec => []ScanIsComplete
<1>1. ReaderInv => ScanIsComplete
  <2> SUFFICES ASSUME ReaderInv, at = End, whole
               PROVE  seen = Within(LiveEntries(frozen), scope)
    BY DEF ScanIsComplete
  <2>1. seen = UpTo(snapshot, scope, End) /\ snapshot = LiveEntries(frozen)
    BY DEF ReaderInv, Walking, Copied
  <2>2. UpTo(snapshot, scope, End) = Within(snapshot, scope)
    BY DEF UpTo, Within
  <2> QED BY <2>1, <2>2
<1> QED BY <1>1, ReaderInvariant, PTL

=============================================================================
