--------------------------- MODULE ClomDBProofs ----------------------------
(***************************************************************************)
(* What is proved of ClomDB for every value of its constants: its files,   *)
(* its locks and its control; what a lookup returns, that a compaction     *)
(* changes no lookup, and that the levels it writes stay sorted.           *)
(***************************************************************************)
EXTENDS ClomDB, FiniteSetTheorems, WellFoundedInduction, TLAPS

-----------------------------------------------------------------------------
(* Tables, minima and maxima *)

\* A table is a function from some keys to entries.
LEMMA TableIs ==
    \A t : t \in Table <=> DOMAIN t \subseteq Keys /\ t \in [DOMAIN t -> Entries]
BY DEF Table

LEMMA EmptyTableIs == EmptyTable \in Table /\ DOMAIN EmptyTable = {}
BY TableIs DEF EmptyTable

\* A table is empty exactly if it has no key.
LEMMA NonEmptyTable ==
    ASSUME NEW t \in Table
    PROVE  t # EmptyTable <=> \E k \in Keys : k \in DOMAIN t
BY TableIs, EmptyTableIs DEF EmptyTable

LEMMA MinExists ==
    ASSUME NEW S, S \subseteq Nat, S # {}
    PROVE  \E x \in S : \A y \in S : x <= y
<1> DEFINE R == OpToRel(<, Nat)
<1>1. IsWellFoundedOn(R, Nat)
  BY NatLessThanWellFounded
<1>2. PICK x \in S : \A y \in S : ~(<<y, x>> \in R)
  <2> HIDE DEF R
  <2> QED BY <1>1, WFMin
<1>3. \A y \in S : ~(y < x)
  BY <1>2 DEF OpToRel
<1> QED BY <1>3

\* Min of a set of natural numbers is its least element.
LEMMA MinIs ==
    ASSUME NEW S, S \subseteq Nat, S # {}
    PROVE  Min(S) \in S /\ \A y \in S : Min(S) <= y
BY MinExists DEF Min

LEMMA MaxExists ==
    ASSUME NEW S, NEW n \in Nat, S \subseteq 0 .. n, S # {}
    PROVE  \E x \in S : \A y \in S : x >= y
<1> DEFINE M == {n - x : x \in S}
<1>1. M \subseteq Nat
  OBVIOUS
<1>2. M # {}
  <2>1. PICK x \in S : TRUE  OBVIOUS
  <2>2. n - x \in M  BY <2>1
  <2> QED BY <2>2
<1>3. PICK m \in M : \A y \in M : m <= y
  <2> HIDE DEF M
  <2> QED BY <1>1, <1>2, MinExists
<1>4. PICK x \in S : m = n - x
  BY <1>3
<1>5. ASSUME NEW y \in S PROVE x >= y
  <2>1. n - y \in M  OBVIOUS
  <2>2. m <= n - y  BY <2>1, <1>3
  <2> QED BY <2>2, <1>4
<1> QED BY <1>5

\* Max of a bounded set of natural numbers is its largest element.
LEMMA MaxIs ==
    ASSUME NEW S, NEW n \in Nat, S \subseteq 0 .. n, S # {}
    PROVE  Max(S) \in S /\ \A y \in S : Max(S) >= y
BY MaxExists DEF Max

-----------------------------------------------------------------------------
(* The answering file and the merge *)

\* The file that answers for a level is one of its holders of the key.
LEMMA AnsweringIs ==
    ASSUME NEW l, NEW H, H \subseteq FileNums, H # {}
    PROVE  /\ Answering(l, H) \in H
           /\ l = 0 => \A n \in H : n <= Answering(l, H)
           /\ l # 0 => \A n \in H : Answering(l, H) <= n
<1>1. H \subseteq 0 .. MaxFile /\ H \subseteq Nat /\ MaxFile \in Nat
  BY TreeAssumption DEF FileNums
<1>2. Max(H) \in H /\ \A n \in H : Max(H) >= n
  BY <1>1, MaxIs
<1>3. Min(H) \in H /\ \A n \in H : Min(H) <= n
  BY <1>1, MinIs
<1> QED BY <1>1, <1>2, <1>3 DEF Answering

\* What a compaction writes out is a table.
LEMMA MergeType ==
    ASSUME NEW lv \in [Levels -> SUBSET FileNums], NEW t \in [FileNums -> Table],
           NEW l \in 0 .. kMaxLevels - 2
    PROVE  Merge(lv, t, l) \in Table
<1>1. l \in Levels /\ l + 1 \in Levels
  BY TreeAssumption DEF Levels
<1>2. ASSUME NEW k \in MergedKeys(lv, t, l)
      PROVE  MergedEntry(lv, t, l, k) \in Entries
  <2> DEFINE U == Holders(lv[l], t, k)
             L == Holders(lv[l + 1], t, k)
  <2>1. U \subseteq FileNums /\ L \subseteq FileNums /\ U \cup L # {}
    BY <1>1, <1>2 DEF Holders, MergedKeys
  <2>2. \A n \in U \cup L : t[n][k] \in Entries
    BY <1>1, TableIs DEF Holders
  <2>3. CASE U # {}
    <3> HIDE DEF U, L
    <3>1. Answering(l, U) \in U  BY <2>1, <2>3, AnsweringIs
    <3> QED BY <3>1, <2>2, <2>3 DEF MergedEntry, U
  <2>4. CASE U = {}
    <3>1. L \subseteq 0 .. MaxFile /\ MaxFile \in Nat /\ L # {}
      BY <2>1, <2>4, TreeAssumption DEF FileNums
    <3> HIDE DEF U, L
    <3>2. Max(L) \in L  BY <3>1, MaxIs
    <3> QED BY <3>2, <2>2, <2>4 DEF MergedEntry, U, L
  <2> QED BY <2>3, <2>4
<1>3. MergedKeys(lv, t, l) \subseteq Keys
  BY DEF MergedKeys
<1> QED BY <1>2, <1>3, TableIs DEF Merge

-----------------------------------------------------------------------------
(* Types *)

LEMMA Bounds ==
    /\ MaxFile \in Nat /\ kMaxLevels \in Nat /\ kMaxLevels >= 2
    /\ 0 \in Levels
    /\ \A l \in 0 .. kMaxLevels - 2 : l \in Levels /\ l + 1 \in Levels /\ l + 1 # 0
BY TreeAssumption DEF Levels

LEMMA OverlayType ==
    ASSUME NEW s \in Table, NEW t \in Table
    PROVE  Overlay(s, t) \in Table
BY TableIs DEF Overlay

LEMMA DefaultTypes ==
    /\ NoFiles \in [Levels -> SUBSET FileNums]
    /\ NoComp \in [level : 0 .. kMaxLevels - 2, rest : Table,
                   out : SUBSET FileNums, old : SUBSET FileNums]
    /\ <<>> \in Seq(Batches \cup {Torn})
BY EmptyTableIs, Bounds DEF NoFiles, NoComp

LEMMA BatchIs ==
    ASSUME NEW b \in Batches
    PROVE  b \in Table /\ b # EmptyTable /\ b # Torn /\ BatchBytes[b] \in Nat
BY EngineAssumption

LEMMA AppendType ==
    ASSUME NEW log \in Seq(Batches \cup {Torn}), NEW r \in Batches \cup {Torn}
    PROVE  Append(log, r) \in Seq(Batches \cup {Torn})
OBVIOUS

LEMMA RecordType ==
    ASSUME NEW log \in Seq(Batches \cup {Torn}), NEW i \in 1 .. Len(log), log[i] # Torn
    PROVE  log[i] \in Batches
OBVIOUS

LEMMA RestrictType ==
    ASSUME NEW t \in Table, NEW S \in SUBSET DOMAIN t
    PROVE  [k \in S |-> t[k]] \in Table
BY TableIs

LEMMA DiscardTypes == Discard => MemoryTypes' /\ ControlTypes'
<1> SUFFICES ASSUME Discard PROVE MemoryTypes' /\ ControlTypes'
  OBVIOUS
<1>1. MemoryTypes'
  BY EmptyTableIs, DefaultTypes, Bounds DEF Discard, MemoryTypes
<1>2. comp' \in [level : 0 .. kMaxLevels - 2, rest : Table,
                 out : SUBSET FileNums, old : SUBSET FileNums]
  BY DefaultTypes DEF Discard
<1>3. fresh' \in BOOLEAN
  BY DEF Discard
<1>4. /\ pending' \in Batches \cup {EmptyTable} /\ replayAt' \in Nat \ {0}
      /\ pc' = "idle" /\ op' = "none"
  BY DEF Discard
<1>5. ControlTypes'
  BY <1>2, <1>3, <1>4 DEF ControlTypes
<1> QED BY <1>1, <1>5

LEMMA ReturnTypes ==
    ControlTypes /\ Return =>
      pc' \in {"idle", "finish"} /\ op' \in {"none", "close", "open_failed", "load_failed"}
BY DEF Return, Closing, ControlTypes

LEMMA TypeStep == TypeOK /\ [Next]_vars => TypeOK'
<1> SUFFICES ASSUME TypeOK, [Next]_vars PROVE TypeOK'
  OBVIOUS
<1> USE DEF TypeOK
<1>1. CASE OpenBegin
  BY <1>1
     DEF OpenBegin, DiskTypes, MemoryTypes, ControlTypes, HistoryTypes, disk, memory, control,
         history
<1>2. CASE \E b \in Batches : WriteBegin(b)
  BY <1>2
     DEF WriteBegin, DiskTypes, MemoryTypes, ControlTypes, HistoryTypes, disk, memory,
         control, history
<1>3. CASE FlushCall
  BY <1>3
     DEF FlushCall, FlushOr, DiskTypes, MemoryTypes, ControlTypes, HistoryTypes, disk, memory,
         control, history
<1>4. CASE BackgroundBegin
  BY <1>4
     DEF BackgroundBegin, FlushOr, DiskTypes, MemoryTypes, ControlTypes, HistoryTypes, disk,
         memory, control, history
<1>5. CASE CloseBegin
  BY <1>5
     DEF CloseBegin, FlushOr, DiskTypes, MemoryTypes, ControlTypes, HistoryTypes, disk,
         memory, control, history
<1>6. CASE Destroy
  BY <1>6, DiscardTypes DEF Destroy, disk, history, DiskTypes, HistoryTypes
<1>7. CASE OpenLoad
  BY <1>7, EmptyTableIs
     DEF OpenLoad, DiskTypes, MemoryTypes, ControlTypes, HistoryTypes, disk, memory, control,
         history
<1>8. CASE OpenReaders
  BY <1>8
     DEF OpenReaders, DiskTypes, MemoryTypes, ControlTypes, HistoryTypes, disk, memory,
         control, history
<1>9. CASE ReplayRecord
  <2>1. wal[replayAt] \in Batches
    BY <1>9, RecordType DEF ReplayRecord, DiskTypes, ControlTypes
  <2>2. mem' \in Table /\ memBytes' \in Nat
    BY <1>9, <2>1, BatchIs, OverlayType DEF ReplayRecord, MemoryTypes
  <2> QED BY <1>9, <2>2
     DEF ReplayRecord, DiskTypes, MemoryTypes, ControlTypes, HistoryTypes, disk, memory,
         control, history
<1>10. CASE ReplayEnd
  BY <1>10
     DEF ReplayEnd, DiskTypes, MemoryTypes, ControlTypes, HistoryTypes, disk, memory, control,
         history
<1>11. CASE OpenWal
  BY <1>11
     DEF OpenWal, DiskTypes, MemoryTypes, ControlTypes, HistoryTypes, disk, memory, control,
         history
<1>12. CASE OpenPersist
  BY <1>12
     DEF OpenPersist, Saved, DiskTypes, MemoryTypes, ControlTypes, HistoryTypes, disk, memory,
         control, history
<1>13. CASE AddRecord
  <2>1. wal' \in Seq(Batches \cup {Torn})
    BY <1>13, AppendType DEF AddRecord, Logged, DiskTypes, ControlTypes
  <2>2. expect' \in [Keys -> SUBSET Entries]
    BY <1>13, BatchIs, TableIs DEF AddRecord, Logged, HistoryTypes, ControlTypes
  <2> QED BY <1>13, <2>1, <2>2
     DEF AddRecord, Logged, DiskTypes, MemoryTypes, ControlTypes, HistoryTypes, disk, memory,
         control, history
<1>14. CASE ApplyBatch
  <2>1. mem' \in Table /\ memBytes' \in Nat
    BY <1>14, BatchIs, OverlayType DEF ApplyBatch, MemoryTypes, ControlTypes
  <2>2. expect' \in [Keys -> SUBSET Entries]
    BY <1>14, BatchIs, TableIs DEF ApplyBatch, HistoryTypes, ControlTypes
  <2> QED BY <1>14, <2>1, <2>2
     DEF ApplyBatch, Return, Closing, DiskTypes, MemoryTypes, ControlTypes, HistoryTypes,
         disk, memory, control, history
<1>15. CASE FlushTable
  BY <1>15, Bounds
     DEF FlushTable, NumberTaken, FileNums, DiskTypes, MemoryTypes, ControlTypes,
         HistoryTypes, disk, memory, control, history
<1>16. CASE FlushSave
  BY <1>16, EmptyTableIs
     DEF FlushSave, Saved, DiskTypes, MemoryTypes, ControlTypes, HistoryTypes, disk, memory,
         control, history
<1>17. CASE RotateWal
  <2>1. wal' \in Seq(Batches \cup {Torn})
    BY <1>17, DefaultTypes DEF RotateWal, DiskTypes
  <2> QED BY <1>17, <2>1
     DEF RotateWal, Closing, DiskTypes, MemoryTypes, ControlTypes, HistoryTypes, disk, memory,
         control, history
<1>18. CASE CompactNone
  BY <1>18, ReturnTypes
     DEF CompactNone, DiskTypes, MemoryTypes, ControlTypes, HistoryTypes, disk, memory,
         control, history
<1>19. CASE CompactPick
  <2>1. PICK l : /\ l = Min(OverfullLevels)
                 /\ comp' = [level |-> l, rest |-> Merge(version, sst, l), out |-> {},
                     old |-> {}]
    BY <1>19 DEF CompactPick
  <2>2. OverfullLevels \subseteq Nat /\ OverfullLevels \subseteq 0 .. kMaxLevels - 2
    BY DEF OverfullLevels
  <2>3. l \in 0 .. kMaxLevels - 2
    BY <1>19, <2>1, <2>2, MinIs DEF CompactPick
  <2>4. Merge(version, sst, l) \in Table
    BY <2>3, MergeType DEF DiskTypes, MemoryTypes
  <2> QED BY <1>19, <2>1, <2>3, <2>4
     DEF CompactPick, DiskTypes, MemoryTypes, ControlTypes, HistoryTypes, disk, memory,
         control, history
<1>20. CASE \E c \in Keys : CompactOutput(c)
  <2> PICK c \in Keys : CompactOutput(c)
    BY <1>20
  <2>1. Chunk(c) \in Table
    BY RestrictType DEF Chunk, ControlTypes
  <2>2. [k \in DOMAIN comp.rest \ DOMAIN Chunk(c) |-> comp.rest[k]] \in Table
    BY RestrictType DEF ControlTypes
  <2> DEFINE left == [k \in DOMAIN comp.rest \ DOMAIN Chunk(c) |-> comp.rest[k]]
  <2> HIDE DEF left
  <2>3. sst' \in [FileNums -> Table]
    BY <2>1 DEF CompactOutput, DiskTypes
  <2>4. nextFile \in FileNums /\ nextFile' \in 1 .. MaxFile + 1
    BY Bounds DEF CompactOutput, NumberTaken, MemoryTypes, FileNums
  <2>5. comp' = [comp EXCEPT !.rest = left, !.out = @ \cup {nextFile}]
    BY DEF CompactOutput, left
  <2>6. comp' \in [level : 0 .. kMaxLevels - 2, rest : Table,
                   out : SUBSET FileNums, old : SUBSET FileNums]
    BY <2>2, <2>4, <2>5 DEF ControlTypes, left
  <2> QED BY <2>3, <2>4, <2>6
     DEF CompactOutput, DiskTypes, MemoryTypes, ControlTypes, HistoryTypes, disk, memory,
         control, history
<1>21. CASE CompactInstall
  BY <1>21, Bounds
     DEF CompactInstall, Saved, Compacted, DiskTypes, MemoryTypes, ControlTypes, HistoryTypes,
         disk, memory, control, history
<1>22. CASE CompactRemove
  BY <1>22, DefaultTypes, EmptyTableIs
     DEF CompactRemove, DiskTypes, MemoryTypes, ControlTypes, HistoryTypes, disk, memory,
         control, history
<1>23. CASE CloseFinish
  <2>1. DiskTypes'
    BY <1>23 DEF CloseFinish, Saved, DiskTypes, MemoryTypes
  <2> QED BY <1>23, <2>1
     DEF CloseFinish, DiskTypes, MemoryTypes, ControlTypes, HistoryTypes, disk, memory,
         control, history
<1>24. CASE AbandonFinish
  <2>1. DiskTypes'
    BY <1>24 DEF AbandonFinish, Saved, DiskTypes, MemoryTypes
  <2>2. HistoryTypes'
    BY <1>24 DEF AbandonFinish, HistoryTypes
  <2> QED BY <1>24, <2>1, <2>2, DiscardTypes DEF AbandonFinish
<1>25. CASE OpenLoadFails
  BY <1>25
     DEF OpenLoadFails, FlushOr, DiskTypes, MemoryTypes, ControlTypes, HistoryTypes, disk,
         memory, control, history
<1>26. CASE OpenFails
  BY <1>26
     DEF OpenFails, FlushOr, DiskTypes, MemoryTypes, ControlTypes, HistoryTypes, disk, memory,
         control, history
<1>36. CASE ReplayReadFails
  BY <1>36
     DEF ReplayReadFails, DiskTypes, MemoryTypes, ControlTypes, HistoryTypes, disk, memory,
         control, history
<1>27. CASE AddRecordFails
  <2>1. wal' \in Seq(Batches \cup {Torn})
    <3>1. pending \in Batches /\ wal \in Seq(Batches \cup {Torn})
      BY <1>27 DEF AddRecordFails, ControlTypes, DiskTypes
    <3> QED BY <1>27, <3>1, AppendType DEF AddRecordFails, Logged
  <2>2. expect' \in [Keys -> SUBSET Entries]
    BY <1>27, BatchIs, TableIs DEF AddRecordFails, Logged, HistoryTypes, ControlTypes
  <2> QED BY <1>27, <2>1, <2>2, ReturnTypes
     DEF AddRecordFails, DiskTypes, MemoryTypes, ControlTypes, HistoryTypes, disk, memory,
         control, history
<1>28. CASE FlushTableFails
  <2>1. sst' \in [FileNums -> Table]
    BY <1>28, EmptyTableIs DEF FlushTableFails, DiskTypes, MemoryTypes
  <2> QED BY <1>28, <2>1, ReturnTypes, Bounds
     DEF FlushTableFails, NumberTaken, DiskTypes, MemoryTypes, ControlTypes, HistoryTypes,
         disk, memory, control, history
<1>29. CASE FlushSaveFails
  BY <1>29, ReturnTypes
     DEF FlushSaveFails, DiskTypes, MemoryTypes, ControlTypes, HistoryTypes, disk, memory,
         control, history
<1>30. CASE RotateWalFails
  <2>1. wal' \in Seq(Batches \cup {Torn})
    BY <1>30, DefaultTypes DEF RotateWalFails, DiskTypes
  <2> QED BY <1>30, <2>1, ReturnTypes
     DEF RotateWalFails, DiskTypes, MemoryTypes, ControlTypes, HistoryTypes, disk, memory,
         control, history
<1>31. CASE CompactReadFails
  BY <1>31, ReturnTypes
     DEF CompactReadFails, DiskTypes, MemoryTypes, ControlTypes, HistoryTypes, disk, memory,
         control, history
<1>32. CASE CompactOutputFails
  <2>1. \A c \in DOMAIN comp.rest : Chunk(c) \in Table
    BY RestrictType DEF Chunk, ControlTypes
  <2>2. sst' \in [FileNums -> Table]
    BY <1>32, <2>1, EmptyTableIs DEF CompactOutputFails, DiskTypes
  <2> QED BY <1>32, <2>2, ReturnTypes, DefaultTypes, Bounds
     DEF CompactOutputFails, NumberTaken, DiskTypes, MemoryTypes, ControlTypes, HistoryTypes,
         disk, memory, control, history
<1>33. CASE CompactInstallFails
  BY <1>33, ReturnTypes, DefaultTypes, Bounds
     DEF CompactInstallFails, Compacted, DiskTypes, MemoryTypes, ControlTypes, HistoryTypes,
         disk, memory, control, history
<1>34. CASE Crash
  <2>1. wal' \in Seq(Batches \cup {Torn})
    <3>1. wal \in Seq(Batches \cup {Torn})
      BY DEF DiskTypes
    <3>2. CASE wal' = Append(wal, Torn)
      BY <3>1, <3>2, AppendType
    <3>3. CASE UNCHANGED wal
      BY <3>1, <3>3
    <3> QED BY <1>34, <3>2, <3>3 DEF Crash
  <2> QED BY <1>34, <2>1, DiscardTypes DEF Crash, DiskTypes, HistoryTypes, history
<1>35. CASE UNCHANGED vars
  BY <1>35
     DEF vars, DiskTypes, MemoryTypes, ControlTypes, HistoryTypes, disk, memory, control,
         history
<1> QED
  BY <1>1, <1>2, <1>3, <1>4, <1>5, <1>6, <1>7, <1>8, <1>9, <1>10, <1>11, <1>12, <1>13, <1>14,
      <1>15, <1>16, <1>17, <1>18, <1>19, <1>20, <1>21, <1>22, <1>23, <1>24, <1>25, <1>26,
          <1>27, <1>28, <1>29, <1>30, <1>31, <1>32, <1>33, <1>34, <1>35, <1>36
     DEF Next, Begin, Work, Opening, Writing, Flushing, Compacting, Finishing, Failing

LEMMA InitTypes == Init => TypeOK
<1> SUFFICES ASSUME Init PROVE TypeOK
  OBVIOUS
<1>1. DiskTypes
  <2>1. manifest \in [next : 1 .. MaxFile + 1, levels : [Levels -> SUBSET FileNums]]
    BY DefaultTypes, Bounds DEF Init
  <2>2. sst \in [FileNums -> Table] /\ wal \in Seq(Batches \cup {Torn})
    BY EmptyTableIs, DefaultTypes DEF Init
  <2> QED BY <2>1, <2>2 DEF Init, DiskTypes
<1>2. MemoryTypes
  <2>1. mem \in Table /\ version \in [Levels -> SUBSET FileNums]
    BY EmptyTableIs, DefaultTypes DEF Init
  <2>2. walOpen \in BOOLEAN /\ bgRequested \in BOOLEAN
    BY DEF Init
  <2>3. memBytes \in Nat /\ nextFile \in 1 .. MaxFile + 1 /\ handle = "none"
    BY Bounds DEF Init
  <2> QED BY <2>1, <2>2, <2>3 DEF MemoryTypes
<1>3. ControlTypes
  <2>1. comp \in [level : 0 .. kMaxLevels - 2, rest : Table,
                  out : SUBSET FileNums, old : SUBSET FileNums]
    BY DefaultTypes DEF Init
  <2>2. fresh \in BOOLEAN
    BY DEF Init
  <2>3. /\ pending \in Batches \cup {EmptyTable} /\ replayAt \in Nat \ {0}
        /\ pc = "idle" /\ op = "none"
    BY DEF Init
  <2> QED BY <2>1, <2>2, <2>3 DEF ControlTypes
<1>4. HistoryTypes
  BY DEF Init, HistoryTypes, Entries
<1> QED BY <1>1, <1>2, <1>3, <1>4 DEF TypeOK

\* Every variable keeps its type in every reachable state.
THEOREM Typing == Spec => []TypeOK
BY InitTypes, TypeStep, PTL DEF Spec

-----------------------------------------------------------------------------
(* Tables and their numbers *)

(***************************************************************************)
(* FilesExist and NumbersFresh are not inductive as they stand: a step     *)
(* that removes files, or that overwrites the file of the next number,     *)
(* preserves them because of where the operation is, of what version_ and  *)
(* the manifest then have in common, and because no number is in two       *)
(* levels. FileInv says all of it.                                         *)
(***************************************************************************)

\* version_ holds what the manifest said, or later changes.
Loaded == handle # "none" /\ pc # "load" /\ op # "load_failed"

PhaseInv ==
    /\ handle = "none" => pc = "idle"
    /\ op = "none" <=> pc = "idle"
    /\ op = "load_failed" => pc = "finish"
    /\ pc = "f_table" => mem # EmptyTable
    /\ pc \notin {"c_out", "c_remove"} => comp = NoComp
    /\ ~Loaded => version = NoFiles /\ mem = EmptyTable

Numbered ==
    /\ \A n \in Live(manifest.levels) : n < manifest.next
    /\ Loaded => manifest.next <= nextFile
    /\ Loaded => \A n \in Live(version) \cup comp.out : n < nextFile

Separate(lv) == \A l, m \in Levels : \A n \in FileNums : n \in lv[l] /\ n \in lv[m] => l = m

OneLevel ==
    /\ Separate(version) /\ Separate(manifest.levels)
    /\ pc = "c_out" => \A n \in comp.out : n \notin Live(version)

Present == \A n \in Live(version) \cup Live(manifest.levels) \cup comp.out : sst[n] # EmptyTable

Replaced ==
    pc = "c_remove" => manifest.levels = version /\ \A n \in comp.old : n \notin Live(version)

FileInv == TypeOK /\ PhaseInv /\ Numbered /\ OneLevel /\ Present /\ Replaced

(***************************************************************************)
(* None of it survives an Open whose sweep removes tables that the manifest*)
(* names. From here on the steps are those of Next except such a sweep;    *)
(* when no db_path ends with a separator there is none (PlainSpares).      *)
(***************************************************************************)
Spares == pc = "load" => \A n \in Live(manifest.levels) : sst'[n] = sst[n]

SparingNext == Next /\ Spares
SparingSpec == Init /\ [][SparingNext]_vars

\* No db_path ends with a separator.
PlainPaths == DbPaths \subseteq {0}

LEMMA OverlayNonEmpty ==
    ASSUME NEW b \in Batches, NEW t
    PROVE  Overlay(b, t) # EmptyTable
<1>1. DOMAIN b # {}
  BY BatchIs, NonEmptyTable
<1> QED BY <1>1, EmptyTableIs DEF Overlay

LEMMA PhaseStep == TypeOK /\ PhaseInv /\ [Next]_vars => PhaseInv'
<1> SUFFICES ASSUME TypeOK, PhaseInv, [Next]_vars PROVE PhaseInv'
  OBVIOUS
<1> USE DEF PhaseInv, Loaded, disk, memory, control, history
<1>1. CASE OpenBegin
  BY <1>1 DEF OpenBegin
<1>2. CASE \E b \in Batches : WriteBegin(b)
  BY <1>2 DEF WriteBegin
<1>3. CASE FlushCall
  BY <1>3 DEF FlushCall, FlushOr
<1>4. CASE BackgroundBegin
  BY <1>4 DEF BackgroundBegin, FlushOr
<1>5. CASE CloseBegin
  BY <1>5 DEF CloseBegin, FlushOr
<1>6. CASE OpenReaders
  BY <1>6 DEF OpenReaders
<1>7. CASE ReplayRecord
  BY <1>7 DEF ReplayRecord
<1>8. CASE ReplayEnd
  BY <1>8 DEF ReplayEnd
<1>9. CASE OpenWal
  BY <1>9 DEF OpenWal
<1>10. CASE AddRecord
  BY <1>10 DEF AddRecord
<1>11. CASE ApplyBatch
  BY <1>11, OverlayNonEmpty DEF ApplyBatch, Return, Closing, TypeOK, ControlTypes
<1>12. CASE RotateWal
  BY <1>12 DEF RotateWal, Closing
<1>13. CASE CompactNone
  BY <1>13 DEF CompactNone, Return, Closing
<1>14. CASE OpenLoadFails
  BY <1>14 DEF OpenLoadFails, FlushOr
<1>15. CASE OpenFails
  BY <1>15 DEF OpenFails, FlushOr
<1>36. CASE ReplayReadFails
  BY <1>36 DEF ReplayReadFails
<1>16. CASE AddRecordFails
  BY <1>16 DEF AddRecordFails, Return, Closing
<1>17. CASE FlushSaveFails
  BY <1>17 DEF FlushSaveFails, Return, Closing
<1>18. CASE RotateWalFails
  BY <1>18 DEF RotateWalFails, Return, Closing
<1>19. CASE CompactReadFails
  BY <1>19 DEF CompactReadFails, Return, Closing
<1>20. CASE Destroy
  BY <1>20 DEF Destroy, Discard
<1>21. CASE OpenLoad
  BY <1>21 DEF OpenLoad
<1>22. CASE OpenPersist
  BY <1>22 DEF OpenPersist
<1>23. CASE FlushTable
  BY <1>23 DEF FlushTable
<1>24. CASE FlushSave
  BY <1>24 DEF FlushSave
<1>25. CASE CompactPick
  BY <1>25 DEF CompactPick
<1>26. CASE \E c \in Keys : CompactOutput(c)
  BY <1>26 DEF CompactOutput
<1>27. CASE CompactInstall
  BY <1>27 DEF CompactInstall
<1>28. CASE CompactRemove
  BY <1>28 DEF CompactRemove
<1>29. CASE CloseFinish
  BY <1>29 DEF CloseFinish
<1>30. CASE AbandonFinish
  BY <1>30 DEF AbandonFinish, Discard
<1>31. CASE FlushTableFails
  BY <1>31 DEF FlushTableFails, Return, Closing
<1>32. CASE CompactOutputFails
  BY <1>32 DEF CompactOutputFails, Return, Closing
<1>33. CASE CompactInstallFails
  BY <1>33 DEF CompactInstallFails, Return, Closing
<1>34. CASE Crash
  BY <1>34 DEF Crash, Discard
<1>35. CASE UNCHANGED vars
  BY <1>35 DEF vars
<1> QED
  BY <1>1, <1>2, <1>3, <1>4, <1>5, <1>6, <1>7, <1>8, <1>9, <1>10, <1>11, <1>12, <1>13, <1>14,
      <1>15, <1>16, <1>17, <1>18, <1>19, <1>20, <1>21, <1>22, <1>23, <1>24, <1>25, <1>26,
      <1>27, <1>28, <1>29, <1>30, <1>31, <1>32, <1>33, <1>34, <1>35, <1>36
     DEF Next, Begin, Work, Opening, Writing, Flushing, Compacting, Finishing, Failing

LEMMA LiveNoFiles == Live(NoFiles) = {} /\ Separate(NoFiles)
BY DEF Live, NoFiles, Separate

\* The tables version_ and the manifest name are files.
LEMMA LiveType ==
    ASSUME NEW lv \in [Levels -> SUBSET FileNums]
    PROVE  /\ Live(lv) \subseteq FileNums
           /\ \A l \in Levels : \A n \in lv[l] : n \in Live(lv)
           /\ \A n \in Live(lv) : \E l \in Levels : n \in lv[l]
BY DEF Live

\* A step that is no sweep of named tables.
LEMMA SparesStep == [SparingNext]_vars => Spares
BY DEF SparingNext, Spares, vars, disk

\* With no separator at the end of db_path, the path SSTablePath makes for a table is the
\* one the directory is listed with, and the sweep leaves the manifest's tables alone.
LEMMA PlainSpares ==
    ASSUME PlainPaths, TypeOK, [Next]_vars
    PROVE  [SparingNext]_vars
<1>1. CASE OpenLoad
  <2>1. PICK p \in DbPaths : \E gone \in SUBSET Unreferenced(p) :
               sst' = [n \in FileNums |-> IF n \in gone THEN EmptyTable ELSE sst[n]]
    BY <1>1 DEF OpenLoad
  <2>2. \A n : EntryPath(p, n) = SSTablePath(p, n)
    BY <2>1 DEF PlainPaths, EntryPath, SSTablePath
  <2>3. \A n \in Live(manifest.levels) : n \in FileNums /\ n \notin Unreferenced(p)
    BY <2>2, LiveType DEF Unreferenced, TypeOK, DiskTypes
  <2> QED BY <1>1, <2>1, <2>3 DEF Spares, SparingNext, Next, Work, Opening
<1>2. CASE Next /\ ~OpenLoad
  <2>1. pc = "load" => OpenBegin \/ OpenLoadFails \/ Crash
    BY <1>2 DEF Next, Begin, Work, Opening, Writing, Flushing, Compacting, Finishing, Failing,
       WriteBegin, FlushCall, BackgroundBegin, CloseBegin, Destroy, OpenReaders,
       ReplayRecord, ReplayEnd, ReplayReadFails, OpenWal, OpenPersist, AddRecord, ApplyBatch,
       FlushTable, FlushSave, RotateWal, CompactNone, CompactPick, CompactOutput,
       CompactInstall, CompactRemove, CloseFinish, AbandonFinish, OpenFails, AddRecordFails,
       FlushTableFails, FlushSaveFails, RotateWalFails, CompactReadFails, CompactOutputFails,
       CompactInstallFails
  <2> QED BY <1>2, <2>1 DEF Spares, SparingNext, OpenBegin, OpenLoadFails, Crash, disk
<1> QED BY <1>1, <1>2

\* So the engine then does what the lemmas below are about.
LEMMA PlainSpec ==
    ASSUME PlainPaths
    PROVE  Spec => SparingSpec
<1>1. TypeOK /\ [Next]_vars => [SparingNext]_vars
  BY PlainSpares
<1> QED BY <1>1, Typing, PTL DEF Spec, SparingSpec

\* A step that leaves tables, manifest, version_ and the compaction alone.
LEMMA QuietStep ==
    ASSUME FileInv, TypeOK', PhaseInv',
           UNCHANGED <<manifest, sst, version, nextFile, comp>>,
           Loaded' => Loaded, pc' \in {"c_out", "c_remove"} => pc' = pc
    PROVE  FileInv'
<1>1. Numbered'
  BY DEF FileInv, Numbered
<1>2. OneLevel' /\ Replaced'
  BY DEF FileInv, OneLevel, Replaced, Separate
<1>3. Present'
  BY DEF FileInv, Present
<1> QED BY <1>1, <1>2, <1>3 DEF FileInv

\* The object is gone; the manifest is the old one or that of version_.
LEMMA DiscardStep ==
    ASSUME FileInv, TypeOK', PhaseInv', Discard, UNCHANGED sst,
           \/ UNCHANGED manifest
           \/ manifest' = Saved(version) /\ (Loaded \/ version = NoFiles)
    PROVE  FileInv'
<1>1. ~Loaded' /\ version' = NoFiles /\ pc' = "idle" /\ comp'.out = {}
  BY DEF Discard, Loaded, NoComp
<1>2. Live(version') = {} /\ Separate(version')
  BY <1>1, LiveNoFiles
<1>3. Numbered'
  BY <1>1, LiveNoFiles DEF FileInv, Numbered, Saved
<1>4. OneLevel' /\ Replaced'
  BY <1>1, <1>2 DEF FileInv, OneLevel, Replaced, Saved, Separate
<1>5. Present'
  BY <1>1, <1>2 DEF FileInv, Present, Saved
<1> QED BY <1>3, <1>4, <1>5 DEF FileInv

\* version_ is saved and stays as it is.
LEMMA SaveStep ==
    ASSUME FileInv, TypeOK', PhaseInv', Loaded,
           manifest' = Saved(version), UNCHANGED <<sst, version, nextFile, comp>>,
           pc' \notin {"c_out", "c_remove"}
    PROVE  FileInv'
<1>1. Numbered'
  BY DEF FileInv, Numbered, Saved, TypeOK, MemoryTypes
<1>2. OneLevel' /\ Replaced'
  BY DEF FileInv, OneLevel, Replaced, Saved, Separate
<1>3. Present'
  BY DEF FileInv, Present, Saved
<1> QED BY <1>1, <1>2, <1>3 DEF FileInv

\* version_ after a compaction names its outputs and files of the other levels only.
LEMMA CompactedIs ==
    ASSUME TypeOK, OneLevel, pc = "c_out"
    PROVE  /\ Live(Compacted) \subseteq Live(version) \cup comp.out
           /\ Separate(Compacted)
           /\ \A n \in version[comp.level] \cup version[comp.level + 1] : n \notin Live(Compacted)
<1> DEFINE l == comp.level
<1>1. /\ l \in Levels /\ l + 1 \in Levels /\ l + 1 # l
      /\ version \in [Levels -> SUBSET FileNums] /\ comp.out \subseteq FileNums
  BY Bounds DEF TypeOK, ControlTypes, MemoryTypes
<1>2. \A m \in Levels : Compacted[m] = IF m = l + 1 THEN comp.out
                                       ELSE IF m = l THEN {} ELSE version[m]
  BY <1>1 DEF Compacted
<1>3. \A n \in comp.out : \A m \in Levels : n \notin version[m]
  BY <1>1 DEF OneLevel, Live
<1>4. \A m \in Levels : \A n \in Compacted[m] : n \in comp.out \/ n \in version[m]
  BY <1>2
<1>5. Live(Compacted) \subseteq Live(version) \cup comp.out
  BY <1>4 DEF Live
<1>6. Separate(Compacted)
  <2> SUFFICES ASSUME NEW i \in Levels, NEW j \in Levels, NEW n \in FileNums,
                      n \in Compacted[i], n \in Compacted[j]
               PROVE  i = j
    BY DEF Separate
  <2>1. CASE n \in comp.out
    BY <2>1, <1>2, <1>3
  <2>2. CASE n \notin comp.out
    BY <2>2, <1>2 DEF OneLevel, Separate
  <2> QED BY <2>1, <2>2
<1>7. \A n \in version[l] \cup version[l + 1] : n \notin Live(Compacted)
  <2> SUFFICES ASSUME NEW n \in version[l] \cup version[l + 1], NEW m \in Levels,
                      n \in Compacted[m]
               PROVE  FALSE
    BY DEF Live
  <2>1. n \in FileNums /\ n \notin comp.out
    BY <1>1, <1>3
  <2>2. m # l /\ m # l + 1 /\ n \in version[m]
    BY <1>1, <1>2, <2>1
  <2> QED BY <1>1, <2>1, <2>2 DEF OneLevel, Separate
<1> QED BY <1>5, <1>6, <1>7

LEMMA FileStep == FileInv /\ [SparingNext]_vars => FileInv'
<1> SUFFICES ASSUME FileInv, [SparingNext]_vars PROVE FileInv'
  OBVIOUS
<1>0. TypeOK' /\ PhaseInv'
  BY TypeStep, PhaseStep DEF FileInv, SparingNext
<1> USE DEF disk, memory, control, history
<1>1. CASE OpenBegin
  BY <1>1, <1>0, QuietStep DEF OpenBegin, Loaded, FileInv, PhaseInv
<1>2. CASE \E b \in Batches : WriteBegin(b)
  BY <1>2, <1>0, QuietStep DEF WriteBegin, Loaded, FileInv, PhaseInv
<1>3. CASE FlushCall
  BY <1>3, <1>0, QuietStep DEF FlushCall, FlushOr, Loaded, FileInv, PhaseInv
<1>4. CASE BackgroundBegin
  BY <1>4, <1>0, QuietStep DEF BackgroundBegin, FlushOr, Loaded, FileInv, PhaseInv
<1>5. CASE CloseBegin
  BY <1>5, <1>0, QuietStep DEF CloseBegin, FlushOr, Loaded, FileInv, PhaseInv
<1>6. CASE OpenReaders
  BY <1>6, <1>0, QuietStep DEF OpenReaders, Loaded, FileInv, PhaseInv
<1>7. CASE ReplayRecord
  BY <1>7, <1>0, QuietStep DEF ReplayRecord, Loaded, FileInv, PhaseInv
<1>8. CASE ReplayEnd
  BY <1>8, <1>0, QuietStep DEF ReplayEnd, Loaded, FileInv, PhaseInv
<1>9. CASE OpenWal
  BY <1>9, <1>0, QuietStep DEF OpenWal, Loaded, FileInv, PhaseInv
<1>10. CASE AddRecord
  BY <1>10, <1>0, QuietStep DEF AddRecord, Loaded, FileInv, PhaseInv
<1>11. CASE ApplyBatch
  BY <1>11, <1>0, QuietStep DEF ApplyBatch, Return, Closing, Loaded, FileInv, PhaseInv
<1>12. CASE RotateWal
  BY <1>12, <1>0, QuietStep DEF RotateWal, Closing, Loaded, FileInv, PhaseInv
<1>13. CASE CompactNone
  BY <1>13, <1>0, QuietStep DEF CompactNone, Return, Closing, Loaded, FileInv, PhaseInv
<1>14. CASE OpenLoadFails
  BY <1>14, <1>0, QuietStep DEF OpenLoadFails, FlushOr, Loaded, FileInv, PhaseInv
<1>15. CASE OpenFails
  BY <1>15, <1>0, QuietStep DEF OpenFails, FlushOr, Loaded, FileInv, PhaseInv
<1>36. CASE ReplayReadFails
  BY <1>36, <1>0, QuietStep DEF ReplayReadFails, Loaded, FileInv, PhaseInv
<1>16. CASE AddRecordFails
  BY <1>16, <1>0, QuietStep DEF AddRecordFails, Return, Closing, Loaded, FileInv, PhaseInv
<1>17. CASE FlushSaveFails
  BY <1>17, <1>0, QuietStep DEF FlushSaveFails, Return, Closing, Loaded, FileInv, PhaseInv
<1>18. CASE RotateWalFails
  BY <1>18, <1>0, QuietStep DEF RotateWalFails, Return, Closing, Loaded, FileInv, PhaseInv
<1>19. CASE CompactReadFails
  BY <1>19, <1>0, QuietStep DEF CompactReadFails, Return, Closing, Loaded, FileInv, PhaseInv
<1>20. CASE Destroy
  BY <1>20, <1>0, DiscardStep DEF Destroy
<1>21. CASE Crash
  BY <1>21, <1>0, DiscardStep DEF Crash
<1>22. CASE AbandonFinish
  BY <1>22, <1>0, DiscardStep DEF AbandonFinish, FileInv, PhaseInv, Loaded
<1>23. CASE CloseFinish
  <2>1. CASE UNCHANGED manifest
    BY <1>23, <2>1, <1>0, QuietStep DEF CloseFinish, Loaded, FileInv, PhaseInv
  <2>2. CASE manifest' = Saved(version)
    BY <1>23, <2>2, <1>0, SaveStep DEF CloseFinish, Loaded, FileInv, PhaseInv
  <2> QED BY <1>23, <2>1, <2>2 DEF CloseFinish
<1>24. CASE OpenPersist
  BY <1>24, <1>0, SaveStep DEF OpenPersist, Loaded, FileInv, PhaseInv
<1>25. CASE FlushSave
  BY <1>25, <1>0, SaveStep DEF FlushSave, Loaded, FileInv, PhaseInv
<1>26. CASE OpenLoad
  <2>1. Numbered'
    BY <1>26 DEF OpenLoad, FileInv, PhaseInv, Numbered, NoComp, Loaded, TypeOK, DiskTypes
  <2>2. OneLevel' /\ Replaced'
    BY <1>26 DEF OpenLoad, FileInv, OneLevel, Replaced, Separate
  <2>3. Present'
    <3>1. comp'.out = {}
      BY <1>26 DEF OpenLoad, FileInv, PhaseInv, NoComp
    <3>2. \A n \in Live(manifest.levels) : sst'[n] = sst[n]
      BY <1>26, SparesStep DEF OpenLoad, Spares
    <3> QED BY <1>26, <3>1, <3>2 DEF OpenLoad, FileInv, Present
  <2> QED BY <1>0, <2>1, <2>2, <2>3 DEF FileInv
<1>27. CASE CompactPick
  <2>1. comp'.out = {}
    BY <1>27 DEF CompactPick
  <2>2. Numbered'
    BY <1>27, <2>1 DEF CompactPick, FileInv, Numbered, Loaded
  <2>3. OneLevel' /\ Replaced'
    BY <1>27, <2>1 DEF CompactPick, FileInv, OneLevel, Replaced, Separate
  <2>4. Present'
    BY <1>27, <2>1 DEF CompactPick, FileInv, Present
  <2> QED BY <1>0, <2>2, <2>3, <2>4 DEF FileInv
<1>28. CASE FlushTable
  <2>1. /\ Loaded /\ mem # EmptyTable /\ comp.out = {}
        /\ nextFile \in FileNums /\ nextFile' = nextFile + 1
    BY <1>28, Bounds
       DEF FlushTable, FileInv, PhaseInv, Loaded, NoComp, NumberTaken, FileNums, TypeOK,
           MemoryTypes
  <2>2. /\ Live(version') \subseteq Live(version) \cup {nextFile}
        /\ Separate(version')
    <3>1. nextFile \notin Live(version)
      BY <2>1 DEF FileInv, Numbered, TypeOK, MemoryTypes
    <3>2. version' = [version EXCEPT ![0] = @ \cup {nextFile}]
      BY <1>28 DEF FlushTable
    <3> QED BY <2>1, <3>1, <3>2, Bounds DEF FileInv, OneLevel, Separate, Live, TypeOK, MemoryTypes
  <2>3. Numbered'
    <3>1. /\ manifest.next \in Nat /\ nextFile \in Nat
          /\ \A n \in Live(version) \cup {nextFile} : n \in Nat
      BY <2>1, LiveType DEF FileInv, TypeOK, DiskTypes, MemoryTypes, FileNums
    <3>2. \A n \in Live(version') : n < nextFile'
      BY <2>1, <2>2, <3>1 DEF FileInv, Numbered
    <3>3. comp'.out = {} /\ UNCHANGED manifest /\ manifest.next <= nextFile'
      BY <1>28, <2>1, <3>1 DEF FlushTable, FileInv, Numbered
    <3> QED BY <3>2, <3>3 DEF FileInv, Numbered
  <2>4. OneLevel' /\ Replaced'
    BY <1>28, <2>2 DEF FlushTable, FileInv, OneLevel, Replaced, Separate
  <2>5. Present'
    BY <1>28, <2>1, <2>2, LiveType DEF FlushTable, FileInv, Present, TypeOK, DiskTypes,
        MemoryTypes
  <2> QED BY <1>0, <2>3, <2>4, <2>5 DEF FileInv
<1>29. CASE FlushTableFails
  <2>1. Loaded /\ comp.out = {} /\ nextFile \in Nat /\ nextFile' \in Nat /\ nextFile <= nextFile'
    BY <1>29 DEF FlushTableFails, FileInv, PhaseInv, Loaded, NoComp, NumberTaken, TypeOK,
        MemoryTypes
  <2>2. \A n \in Live(version) \cup Live(manifest.levels) : sst'[n] = sst[n]
    <3>1. \A n \in Live(version) \cup Live(manifest.levels) : n \in FileNums /\ n # nextFile
      BY <2>1, LiveType
         DEF FileInv, Numbered, TypeOK, DiskTypes, MemoryTypes, FileNums
    <3> QED BY <1>29, <3>1 DEF FlushTableFails, FileInv, TypeOK, DiskTypes
  <2>3. Numbered'
    BY <1>29, <2>1, LiveType
       DEF FlushTableFails, FileInv, Numbered, TypeOK, MemoryTypes, DiskTypes, FileNums
  <2>4. OneLevel' /\ Replaced'
    BY <1>29 DEF FlushTableFails, Return, FileInv, OneLevel, Replaced, Separate
  <2>5. Present'
    BY <1>29, <2>1, <2>2 DEF FlushTableFails, FileInv, Present
  <2> QED BY <1>0, <2>3, <2>4, <2>5 DEF FileInv
<1>30. CASE \E c \in Keys : CompactOutput(c)
  <2> PICK c \in Keys : CompactOutput(c)
    BY <1>30
  <2>1. /\ Loaded /\ nextFile \in FileNums /\ nextFile' = nextFile + 1
        /\ comp'.out = comp.out \cup {nextFile}
    BY Bounds DEF CompactOutput, FileInv, PhaseInv, Loaded, NumberTaken, FileNums,
       TypeOK, MemoryTypes, ControlTypes
  <2>2. \A n \in Live(version) \cup Live(manifest.levels) \cup comp.out :
          n \in FileNums /\ n < nextFile
    BY <2>1, LiveType
       DEF FileInv, Numbered, TypeOK, DiskTypes, MemoryTypes, ControlTypes, FileNums
  <2>3. Chunk(c) # EmptyTable
    <3>1. c \in DOMAIN Chunk(c)
      BY TreeAssumption DEF CompactOutput, Chunk
    <3> QED BY <3>1, EmptyTableIs
  <2>4. Numbered'
    BY <2>1, <2>2 DEF CompactOutput, FileInv, Numbered, TypeOK, DiskTypes, MemoryTypes,
        FileNums
  <2>5. OneLevel' /\ Replaced'
    BY <2>1, <2>2 DEF CompactOutput, FileInv, OneLevel, Replaced, Separate, FileNums
  <2>6. Present'
    <3>1. sst'[nextFile] = Chunk(c) /\ \A n \in FileNums : n # nextFile => sst'[n] = sst[n]
      BY <2>1 DEF CompactOutput, FileInv, TypeOK, DiskTypes
    <3>2. \A n \in Live(version) \cup Live(manifest.levels) \cup comp.out : sst'[n] # EmptyTable
      BY <2>1, <2>2, <3>1 DEF FileInv, Present, FileNums
    <3> QED BY <2>1, <2>3, <3>1, <3>2 DEF CompactOutput, Present
  <2> QED BY <1>0, <2>4, <2>5, <2>6 DEF FileInv
<1>31. CASE CompactOutputFails
  <2>1. /\ Loaded /\ comp'.out = {} /\ nextFile \in Nat /\ nextFile' \in Nat
        /\ nextFile <= nextFile' /\ pc' \notin {"c_out", "c_remove"}
    BY <1>31 DEF CompactOutputFails, Return, FileInv, PhaseInv, Loaded, NoComp, NumberTaken,
       TypeOK, MemoryTypes
  <2>2. \A n \in Live(version) \cup Live(manifest.levels) : sst'[n] = sst[n]
    <3>1. \A n \in Live(version) \cup Live(manifest.levels) : n \in FileNums /\ n # nextFile
      BY <2>1, LiveType
         DEF FileInv, Numbered, TypeOK, DiskTypes, MemoryTypes, FileNums
    <3> QED BY <1>31, <3>1 DEF CompactOutputFails, FileInv, TypeOK, DiskTypes
  <2>3. Numbered'
    BY <1>31, <2>1, LiveType
       DEF CompactOutputFails, FileInv, Numbered, TypeOK, MemoryTypes, DiskTypes, FileNums
  <2>4. OneLevel' /\ Replaced'
    BY <1>31, <2>1 DEF CompactOutputFails, FileInv, OneLevel, Replaced, Separate
  <2>5. Present'
    BY <1>31, <2>1, <2>2 DEF CompactOutputFails, FileInv, Present
  <2> QED BY <1>0, <2>3, <2>4, <2>5 DEF FileInv
<1>32. CASE CompactInstall
  <2>1. Loaded' /\ pc = "c_out" /\ Loaded
    BY <1>32 DEF CompactInstall, FileInv, PhaseInv, Loaded
  <2>2. version' = Compacted /\ manifest' = Saved(Compacted)
    BY <1>32 DEF CompactInstall
  <2>3. comp'.out = comp.out /\ comp'.old = version[comp.level] \cup version[comp.level + 1]
    BY <1>32 DEF CompactInstall, FileInv, TypeOK, ControlTypes
  <2>4. Live(Compacted) \subseteq Live(version) \cup comp.out
    BY CompactedIs, <2>1 DEF FileInv
  <2>5. Numbered'
    BY <1>32, <2>1, <2>2, <2>3, <2>4 DEF CompactInstall, FileInv, Numbered, Saved, TypeOK,
        MemoryTypes
  <2>6. OneLevel'
    BY <1>32, <2>1, <2>2, CompactedIs DEF CompactInstall, FileInv, OneLevel, Saved, Separate
  <2>7. Replaced'
    BY <1>32, <2>1, <2>2, <2>3, CompactedIs DEF CompactInstall, FileInv, Replaced, Saved
  <2>8. Present'
    BY <1>32, <2>2, <2>3, <2>4 DEF CompactInstall, FileInv, Present, Saved
  <2> QED BY <1>0, <2>5, <2>6, <2>7, <2>8 DEF FileInv
<1>33. CASE CompactInstallFails
  <2>1. pc = "c_out" /\ Loaded /\ comp'.out = {} /\ pc' \notin {"c_out", "c_remove"}
    BY <1>33 DEF CompactInstallFails, Return, FileInv, PhaseInv, Loaded, NoComp
  <2>2. version' = Compacted
    BY <1>33 DEF CompactInstallFails
  <2>3. Live(Compacted) \subseteq Live(version) \cup comp.out
    BY CompactedIs, <2>1 DEF FileInv
  <2>4. Numbered'
    BY <1>33, <2>1, <2>2, <2>3 DEF CompactInstallFails, FileInv, Numbered
  <2>5. OneLevel' /\ Replaced'
    BY <1>33, <2>1, <2>2, CompactedIs
       DEF CompactInstallFails, FileInv, OneLevel, Replaced, Separate
  <2>6. Present'
    BY <1>33, <2>1, <2>2, <2>3 DEF CompactInstallFails, FileInv, Present
  <2> QED BY <1>0, <2>4, <2>5, <2>6 DEF FileInv
<1>34. CASE CompactRemove
  <2>1. comp'.out = {} /\ manifest.levels = version
    BY <1>34 DEF CompactRemove, FileInv, Replaced, NoComp
  <2>2. \A n \in Live(version) : n \in FileNums /\ n \notin comp.old
    BY <1>34, LiveType DEF CompactRemove, FileInv, Replaced, TypeOK, MemoryTypes
  <2>3. Numbered'
    BY <1>34, <2>1 DEF CompactRemove, FileInv, PhaseInv, Numbered, Loaded
  <2>4. OneLevel' /\ Replaced'
    BY <1>34 DEF CompactRemove, FileInv, OneLevel, Replaced, Separate
  <2>5. Present'
    <3>1. \A n \in Live(version) : sst'[n] = sst[n]
      BY <1>34, <2>2 DEF CompactRemove
    <3> QED BY <1>34, <2>1, <3>1 DEF CompactRemove, FileInv, Present
  <2> QED BY <1>0, <2>3, <2>4, <2>5 DEF FileInv
<1>35. CASE UNCHANGED vars
  BY <1>35, <1>0, QuietStep DEF vars, Loaded
<1> QED
  BY <1>1, <1>2, <1>3, <1>4, <1>5, <1>6, <1>7, <1>8, <1>9, <1>10, <1>11, <1>12, <1>13, <1>14,
      <1>15, <1>16, <1>17, <1>18, <1>19, <1>20, <1>21, <1>22, <1>23, <1>24, <1>25, <1>26,
      <1>27, <1>28, <1>29, <1>30, <1>31, <1>32, <1>33, <1>34, <1>35, <1>36
     DEF SparingNext, Next, Begin, Work, Opening, Writing, Flushing, Compacting, Finishing, Failing

LEMMA FileInit == Init => FileInv
<1> SUFFICES ASSUME Init PROVE FileInv
  OBVIOUS
<1>1. TypeOK
  BY InitTypes
<1>2. PhaseInv
  BY DEF Init, PhaseInv, Loaded
<1>3. /\ version = NoFiles /\ manifest.levels = NoFiles /\ comp.out = {}
      /\ handle = "none" /\ pc = "idle"
  BY DEF Init, NoComp
<1>4. Numbered /\ OneLevel /\ Present /\ Replaced
  BY <1>3, LiveNoFiles DEF Numbered, OneLevel, Present, Replaced, Loaded
<1> QED BY <1>1, <1>2, <1>4 DEF FileInv

LEMMA FileInvariant == SparingSpec => []FileInv
BY FileInit, FileStep, PTL DEF SparingSpec

\* No table that the manifest or version_ names is ever missing.
THEOREM NoMissingTable ==
    ASSUME PlainPaths
    PROVE  Spec => []FilesExist
<1>1. FileInv => FilesExist
  BY DEF FileInv, Present, FilesExist
<1> QED BY <1>1, FileInvariant, PlainSpec, PTL

\* The next table never takes the number of a table that is still needed.
THEOREM NoTableOverwritten ==
    ASSUME PlainPaths
    PROVE  Spec => []NumbersFresh
<1>1. FileInv => NumbersFresh
  <2> SUFFICES ASSUME FileInv, pc \in {"f_table", "c_out"},
                      NEW n \in Live(version) \cup Live(manifest.levels) \cup comp.out
               PROVE  n < nextFile
    BY DEF NumbersFresh, FileInv, Numbered
  <2>1. Loaded
    BY DEF FileInv, PhaseInv, Loaded
  <2>2. n \in Nat /\ nextFile \in Nat /\ manifest.next \in Nat
    BY LiveType DEF FileInv, TypeOK, DiskTypes, MemoryTypes, ControlTypes, FileNums
  <2> QED BY <2>1, <2>2 DEF FileInv, Numbered
<1> QED BY <1>1, FileInvariant, PlainSpec, PTL

-----------------------------------------------------------------------------
(* What a lookup returns *)

Nowhere(lv, s, k) == \A l \in Levels : Holders(lv[l], s, k) = {}

First(l, lv, s, k) ==
    /\ l \in Levels /\ Holders(lv[l], s, k) # {}
    /\ \A m \in Levels : m < l => Holders(lv[m], s, k) = {}

\* Either no level has the key, or there is a first level that does.
LEMMA FirstLevel ==
    ASSUME NEW lv, NEW s, NEW k
    PROVE  Nowhere(lv, s, k) \/ \E l \in Levels : First(l, lv, s, k)
<1> DEFINE Having == {l \in Levels : Holders(lv[l], s, k) # {}}
<1>1. Having \subseteq Nat
  BY DEF Levels
<1>2. CASE Having = {}
  BY <1>2 DEF Nowhere
<1>3. CASE Having # {}
  <2>1. PICK l \in Having : \A m \in Having : l <= m
    <3> HIDE DEF Having
    <3> QED BY <1>1, <1>3, MinExists
  <2>2. \A m \in Levels : m < l => m \notin Having
    BY <2>1 DEF Levels
  <2> QED BY <2>1, <2>2 DEF First
<1> QED BY <1>2, <1>3

LEMMA LookupNone ==
    ASSUME NEW lv, NEW s, NEW k, Nowhere(lv, s, k)
    PROVE  Lookup(lv, s, k) = Tombstone
BY DEF Lookup, Nowhere

\* The first level that has the key answers.
LEMMA LookupFirst ==
    ASSUME NEW lv, NEW s, NEW k, NEW l, First(l, lv, s, k)
    PROVE  Lookup(lv, s, k) = s[Answering(l, Holders(lv[l], s, k))][k]
<1> DEFINE Having == {m \in Levels : Holders(lv[m], s, k) # {}}
<1>1. Having \subseteq Nat /\ l \in Having
  BY DEF Levels, First
<1>2. Min(Having) \in Having /\ Min(Having) <= l
  <2> HIDE DEF Having
  <2> QED BY <1>1, MinIs
<1>3. Min(Having) = l
  <2>1. \A m \in Having : ~(m < l)
    BY DEF First
  <2> HIDE DEF Having
  <2>2. Min(Having) \in Nat /\ l \in Nat /\ ~(Min(Having) < l)
    BY <1>1, <1>2, <2>1
  <2> QED BY <1>2, <2>2
<1>4. Lookup(lv, s, k) = IF Having = {} THEN Tombstone
                         ELSE s[Answering(Min(Having), Holders(lv[Min(Having)], s, k))][k]
  BY DEF Lookup
<1> HIDE DEF Having
<1> QED BY <1>1, <1>3, <1>4

\* Levels with the same holders of a key, holding the same entries, answer alike.
LEMMA LookupSame ==
    ASSUME NEW lv \in [Levels -> SUBSET FileNums], NEW lw, NEW s, NEW t, NEW k,
           \A l \in Levels : Holders(lv[l], s, k) = Holders(lw[l], t, k),
           \A l \in Levels : \A n \in Holders(lv[l], s, k) : s[n][k] = t[n][k]
    PROVE  Lookup(lv, s, k) = Lookup(lw, t, k)
<1>1. CASE Nowhere(lv, s, k)
  <2>1. Nowhere(lw, t, k)
    BY <1>1 DEF Nowhere
  <2> QED BY <1>1, <2>1, LookupNone
<1>2. ASSUME NEW l \in Levels, First(l, lv, s, k)
      PROVE  Lookup(lv, s, k) = Lookup(lw, t, k)
  <2> DEFINE H == Holders(lv[l], s, k)
  <2>1. H \subseteq FileNums
    BY DEF Holders
  <2>2. Answering(l, H) \in H
    <3> HIDE DEF H
    <3>1. H # {}  BY <1>2 DEF H, First
    <3> QED BY <2>1, <3>1, AnsweringIs
  <2>3. Lookup(lv, s, k) = s[Answering(l, H)][k]
    BY <1>2, LookupFirst
  <2>4. Lookup(lw, t, k) = t[Answering(l, H)][k]
    <3>1. First(l, lw, t, k)
      BY <1>2 DEF First
    <3>2. H = Holders(lw[l], t, k)
      OBVIOUS
    <3> QED BY <3>1, <3>2, LookupFirst
  <2> QED BY <2>2, <2>3, <2>4
<1> QED BY <1>1, <1>2, FirstLevel

\* A lookup only depends on the tables that the levels name.
LEMMA LookupAgree ==
    ASSUME NEW lv \in [Levels -> SUBSET FileNums], NEW s, NEW t,
           \A n \in Live(lv) : s[n] = t[n]
    PROVE  \A k : Lookup(lv, s, k) = Lookup(lv, t, k)
<1> TAKE k
<1>1. \A l \in Levels : \A n \in lv[l] : s[n] = t[n]
  BY LiveType
<1>2. \A l \in Levels : Holders(lv[l], s, k) = Holders(lv[l], t, k)
  BY <1>1 DEF Holders
<1>3. \A l \in Levels : \A n \in Holders(lv[l], s, k) : s[n][k] = t[n][k]
  BY <1>1 DEF Holders
<1> QED BY <1>2, <1>3, LookupSame

\* Levels lw and tables u are lv and s with table t added to level 0 as file f.
Flushed(lv, s, f, t, lw, u) ==
    /\ \A n \in Live(lv) : n < f
    /\ lw[0] = lv[0] \cup {f} /\ \A l \in Levels : l # 0 => lw[l] = lv[l]
    /\ u[f] = t /\ \A n \in FileNums : n # f => u[n] = s[n]

\* A table with a number above all others, added to level 0, answers for its keys.
LEMMA LookupFlushed ==
    ASSUME NEW lv \in [Levels -> SUBSET FileNums], NEW s \in [FileNums -> Table],
           NEW f \in FileNums, NEW t \in Table, NEW lw, NEW u, NEW k,
           Flushed(lv, s, f, t, lw, u)
    PROVE  Lookup(lw, u, k) = IF k \in DOMAIN t THEN t[k] ELSE Lookup(lv, s, k)
<1>0. \A l \in Levels : \A n \in lv[l] : n \in FileNums /\ n < f /\ n # f
  BY LiveType DEF FileNums, Flushed
<1>1. CASE k \in DOMAIN t
  <2> DEFINE H == Holders(lw[0], u, k)
  <2>1. f \in H /\ H \subseteq FileNums /\ \A n \in H : n <= f
    BY <1>0, <1>1, Bounds DEF Holders, FileNums, Flushed
  <2>2. Answering(0, H) = f
    <3> HIDE DEF H
    <3>1. Answering(0, H) \in H /\ f <= Answering(0, H)
      BY <2>1, AnsweringIs
    <3>2. \A n \in FileNums : n \in Nat
      BY DEF FileNums
    <3>3. Answering(0, H) <= f
      BY <2>1, <3>1
    <3> QED BY <2>1, <3>1, <3>2, <3>3
  <2>3. First(0, lw, u, k)
    <3>1. \A m \in Levels : ~(m < 0)
      BY DEF Levels
    <3> QED BY <2>1, <3>1, Bounds DEF First
  <2>4. Lookup(lw, u, k) = u[Answering(0, H)][k]
    BY <2>3, LookupFirst
  <2> QED BY <1>1, <2>2, <2>4 DEF Flushed
<1>2. CASE k \notin DOMAIN t
  <2>1. \A l \in Levels : Holders(lv[l], s, k) = Holders(lw[l], u, k)
    BY <1>0, <1>2, Bounds DEF Holders, Flushed
  <2>2. \A l \in Levels : \A n \in Holders(lv[l], s, k) : s[n][k] = u[n][k]
    BY <1>0 DEF Holders, Flushed
  <2>3. Lookup(lv, s, k) = Lookup(lw, u, k)
    BY <2>1, <2>2, LookupSame
  <2> QED BY <1>2, <2>3
<1> QED BY <1>1, <1>2

-----------------------------------------------------------------------------
(* Levels and compactions *)

\* The files of S have disjoint key ranges, increasing with their numbers (Disjoint, for tables s).
Apart(S, s) == \A m, n \in S : m < n => \A j \in DOMAIN s[m], k \in DOMAIN s[n] : j < k

\* The outputs of a compaction are sorted, and below what is still to be written.
Sorted ==
    /\ \A l \in Levels \ {0} : Apart(version[l], sst) /\ Apart(manifest.levels[l], sst)
    /\ pc = "c_out" =>
         /\ Apart(comp.out, sst)
         /\ \A n \in comp.out : \A j \in DOMAIN sst[n], k \in DOMAIN comp.rest : j < k

\* e is what a compaction of level l has to write for k.
Due(lv, s, l, k, e) == k \in MergedKeys(lv, s, l) /\ e = MergedEntry(lv, s, l, k)

\* What is written and what is left to write make up the merge of the two levels.
Merging ==
    pc = "c_out" =>
      /\ \A k \in DOMAIN comp.rest : Due(version, sst, comp.level, k, comp.rest[k])
      /\ \A n \in comp.out : \A k \in DOMAIN sst[n] :
           Due(version, sst, comp.level, k, sst[n][k])
      /\ \A k \in MergedKeys(version, sst, comp.level) :
           k \in DOMAIN comp.rest \/ \E n \in comp.out : k \in DOMAIN sst[n]

LevelInv == FileInv /\ Sorted /\ Merging

LEMMA ApartAgree ==
    ASSUME NEW S, NEW s, NEW t, \A n \in S : s[n] = t[n], Apart(S, s)
    PROVE  Apart(S, t)
BY DEF Apart

LEMMA ApartEmpty == \A s : Apart({}, s)
BY DEF Apart

\* In a sorted level at most one file has a given key.
LEMMA OneHolder ==
    ASSUME NEW S, S \subseteq FileNums, NEW s \in [FileNums -> Table], Apart(S, s), NEW k,
           NEW m \in Holders(S, s, k), NEW n \in Holders(S, s, k)
    PROVE  m = n
<1>1. /\ m \in FileNums /\ m \in S /\ k \in DOMAIN s[m]
      /\ n \in FileNums /\ n \in S /\ k \in DOMAIN s[n]
  BY DEF Holders
<1>2. k \in Int
  BY <1>1, TableIs, TreeAssumption
<1>3. m \in Int /\ n \in Int
  BY <1>1 DEF FileNums
<1>4. ~(k < k)
  BY <1>2
<1>5. ~(m < n) /\ ~(n < m)
  BY <1>1, <1>4 DEF Apart
<1> QED BY <1>3, <1>5

\* The merge only depends on the tables of the levels merged.
LEMMA MergedAgree ==
    ASSUME NEW lv \in [Levels -> SUBSET FileNums], NEW s, NEW t,
           \A n \in Live(lv) : s[n] = t[n], NEW l \in 0 .. kMaxLevels - 2
    PROVE  /\ MergedKeys(lv, s, l) = MergedKeys(lv, t, l)
           /\ \A k \in MergedKeys(lv, s, l) : MergedEntry(lv, s, l, k) = MergedEntry(lv, t, l, k)
<1>1. l \in Levels /\ l + 1 \in Levels
  BY Bounds
<1>2. \A n \in lv[l] \cup lv[l + 1] : s[n] = t[n]
  BY <1>1, LiveType
<1>3. \A k : /\ Holders(lv[l], s, k) = Holders(lv[l], t, k)
             /\ Holders(lv[l + 1], s, k) = Holders(lv[l + 1], t, k)
  BY <1>2 DEF Holders
<1>4. ASSUME NEW k, Holders(lv[l], s, k) \cup Holders(lv[l + 1], s, k) # {}
      PROVE  MergedEntry(lv, s, l, k) = MergedEntry(lv, t, l, k)
  <2> DEFINE U == Holders(lv[l], s, k)
             L == Holders(lv[l + 1], s, k)
  <2>1. /\ U \subseteq FileNums /\ L \subseteq FileNums
        /\ \A n \in U \cup L : s[n][k] = t[n][k]
    BY <1>1, <1>2 DEF Holders
  <2>2. /\ MergedEntry(lv, s, l, k) = IF U # {} THEN s[Answering(l, U)][k] ELSE s[Max(L)][k]
        /\ MergedEntry(lv, t, l, k) = IF U # {} THEN t[Answering(l, U)][k] ELSE t[Max(L)][k]
    BY <1>3 DEF MergedEntry
  <2>3. U \cup L # {}
    BY <1>4
  <2> HIDE DEF U, L
  <2>4. U # {} => Answering(l, U) \in U
    BY <2>1, AnsweringIs
  <2>5. L # {} => Max(L) \in L
    <3>1. L \subseteq 0 .. MaxFile /\ MaxFile \in Nat
      BY <2>1, Bounds DEF FileNums
    <3> QED BY <3>1, MaxIs
  <2> QED BY <2>1, <2>2, <2>3, <2>4, <2>5
<1>5. MergedKeys(lv, s, l) = MergedKeys(lv, t, l)
  BY <1>3, <1>4 DEF MergedKeys
<1>6. \A k \in MergedKeys(lv, s, l) : Holders(lv[l], s, k) \cup Holders(lv[l + 1], s, k) # {}
  BY DEF MergedKeys
<1> QED BY <1>4, <1>5, <1>6

\* The levels of version_ once the compaction is done.
LEMMA CompactedLevels ==
    ASSUME TypeOK
    PROVE  /\ Compacted \in [Levels -> SUBSET FileNums]
           /\ \A m \in Levels : Compacted[m] = IF m = comp.level + 1 THEN comp.out
                                               ELSE IF m = comp.level THEN {} ELSE version[m]
<1>1. /\ comp.level \in Levels /\ comp.level + 1 \in Levels /\ comp.level + 1 # comp.level
      /\ version \in [Levels -> SUBSET FileNums] /\ comp.out \subseteq FileNums
  BY Bounds DEF TypeOK, ControlTypes, MemoryTypes
<1> QED BY <1>1 DEF Compacted


\* A finished compaction answers every lookup as the levels it replaces do.
LEMMA LookupCompacted ==
    ASSUME LevelInv, pc = "c_out", comp.rest = EmptyTable, NEW k \in Keys
    PROVE  Lookup(Compacted, sst, k) = Lookup(version, sst, k)
<1> DEFINE l == comp.level
           U == Holders(version[l], sst, k)
           L == Holders(version[l + 1], sst, k)
           O == Holders(comp.out, sst, k)
           E == MergedEntry(version, sst, l, k)
<1>1. /\ l \in Nat /\ l \in Levels /\ l + 1 \in Levels
      /\ version \in [Levels -> SUBSET FileNums] /\ sst \in [FileNums -> Table]
      /\ comp.out \subseteq FileNums
      /\ Compacted \in [Levels -> SUBSET FileNums]
  BY Bounds, CompactedLevels
     DEF LevelInv, FileInv, TypeOK, ControlTypes, MemoryTypes, DiskTypes
<1>2. /\ \A m \in Levels : m # l /\ m # l + 1 =>
           Holders(Compacted[m], sst, k) = Holders(version[m], sst, k)
      /\ Holders(Compacted[l], sst, k) = {}
      /\ Holders(Compacted[l + 1], sst, k) = O
  BY <1>1, CompactedLevels DEF LevelInv, FileInv, Holders
<1>3. /\ \A n \in O : k \in MergedKeys(version, sst, l) /\ sst[n][k] = E
      /\ k \in MergedKeys(version, sst, l) => O # {}
  BY EmptyTableIs DEF LevelInv, Merging, Due, Holders
<1>4. k \in MergedKeys(version, sst, l)
        <=> U \cup L # {} /\ ~(l + 1 = LastLevel /\ E = Tombstone)
  BY DEF MergedKeys
<1>5. U \subseteq FileNums /\ L \subseteq FileNums /\ O \subseteq FileNums
  BY <1>1 DEF Holders
<1>6. U # {} => E = sst[Answering(l, U)][k]
  BY DEF MergedEntry
<1>7. U = {} /\ L # {} => E = sst[Answering(l + 1, L)][k]
  <2> SUFFICES ASSUME U = {}, L # {} PROVE E = sst[Answering(l + 1, L)][k]
    OBVIOUS
  <2>1. E = sst[Max(L)][k]
    BY DEF MergedEntry
  <2>2. Max(L) \in L
    <3>1. L \subseteq 0 .. MaxFile /\ MaxFile \in Nat
      BY <1>5, Bounds DEF FileNums
    <3> HIDE DEF L
    <3> QED BY <3>1, MaxIs
  <2>3. Answering(l + 1, L) \in L
    <3> HIDE DEF L
    <3> QED BY <1>5, AnsweringIs
  <2>4. Apart(version[l + 1], sst) /\ version[l + 1] \subseteq FileNums
    BY <1>1 DEF LevelInv, Sorted
  <2>5. Max(L) = Answering(l + 1, L)
    BY <1>1, <2>2, <2>3, <2>4, OneHolder
  <2> QED BY <2>1, <2>5
<1>8. O # {} => sst[Answering(l + 1, O)][k] = E
  <2> SUFFICES ASSUME O # {} PROVE sst[Answering(l + 1, O)][k] = E
    OBVIOUS
  <2>1. Answering(l + 1, O) \in O
    <3> HIDE DEF O
    <3> QED BY <1>5, AnsweringIs
  <2> QED BY <1>3, <2>1
<1> HIDE DEF U, L, O, E
<1>9. CASE Nowhere(version, sst, k)
  <2>1. U = {} /\ L = {}
    BY <1>1, <1>9 DEF Nowhere, U, L
  <2>2. O = {}
    BY <1>3, <1>4, <2>1
  <2>3. Nowhere(Compacted, sst, k)
    BY <1>2, <1>9, <2>2 DEF Nowhere
  <2> QED BY <1>9, <2>3, LookupNone
<1>10. ASSUME NEW f \in Levels, First(f, version, sst, k)
       PROVE  Lookup(Compacted, sst, k) = Lookup(version, sst, k)
  <2>0. f \in Nat /\ \A m \in Levels : m \in Nat
    BY DEF Levels
  <2>1. Lookup(version, sst, k) = sst[Answering(f, Holders(version[f], sst, k))][k]
    BY <1>10, LookupFirst
  <2>2. /\ Holders(version[f], sst, k) # {}
        /\ \A m \in Levels : m < f => Holders(version[m], sst, k) = {}
    BY <1>10 DEF First
  <2>3. CASE f < l
    <3>1. f # l /\ f # l + 1 /\ \A m \in Levels : m < f => m # l /\ m # l + 1
      BY <1>1, <2>0, <2>3
    <3>2. First(f, Compacted, sst, k)
      BY <1>2, <2>2, <3>1 DEF First
    <3> QED BY <1>2, <2>1, <3>1, <3>2, LookupFirst
  <2>4. CASE f > l + 1
    <3>1. f # l /\ f # l + 1 /\ l < f /\ l + 1 < f
      BY <1>1, <2>0, <2>4
    <3>2. U = {} /\ L = {}
      BY <1>1, <2>2, <3>1 DEF U, L
    <3>3. O = {}
      BY <1>3, <1>4, <3>2
    <3>4. First(f, Compacted, sst, k)
      BY <1>2, <2>2, <3>1, <3>3 DEF First
    <3> QED BY <1>2, <2>1, <3>1, <3>4, LookupFirst
  <2>5. CASE f = l \/ f = l + 1
    <3>1. Lookup(version, sst, k) = E /\ U \cup L # {}
      <4>1. CASE f = l
        BY <1>6, <2>1, <2>2, <4>1 DEF U
      <4>2. CASE f = l + 1
        <5>1. l < f
          BY <1>1, <4>2
        <5>2. U = {} /\ L # {}
          BY <1>1, <2>2, <4>2, <5>1 DEF U, L
        <5> QED BY <1>7, <2>1, <4>2, <5>2 DEF L
      <4> QED BY <2>5, <4>1, <4>2
    <3>2. \A m \in Levels : m < l => Holders(Compacted[m], sst, k) = {}
      <4>1. \A m \in Levels : m < l => m # l /\ m # l + 1 /\ m < f
        BY <1>1, <2>0, <2>5
      <4> QED BY <1>2, <2>2, <4>1
    <3>3. CASE O # {}
      <4>1. First(l + 1, Compacted, sst, k)
        <5>1. \A m \in Levels : m < l + 1 => m < l \/ m = l
          BY <1>1, <2>0
        <5> QED BY <1>1, <1>2, <3>2, <3>3, <5>1 DEF First
      <4> QED BY <1>2, <1>8, <3>1, <3>3, <4>1, LookupFirst
    <3>4. CASE O = {}
      <4>1. l + 1 = LastLevel /\ E = Tombstone
        BY <1>3, <1>4, <3>1, <3>4
      <4>2. \A m \in Levels : m < l \/ m = l \/ m = l + 1
        BY <1>1, <2>0, <4>1, Bounds DEF Levels, LastLevel
      <4>3. Nowhere(Compacted, sst, k)
        BY <1>2, <3>2, <3>4, <4>2 DEF Nowhere
      <4> QED BY <3>1, <4>1, <4>3, LookupNone
    <3> QED BY <3>3, <3>4
  <2>6. f < l \/ f > l + 1 \/ f = l \/ f = l + 1
    BY <1>1, <2>0
  <2> QED BY <2>3, <2>4, <2>5, <2>6
<1> QED BY <1>9, <1>10, FirstLevel


\* The number of the next table is not that of a table that is needed.
LEMMA NextIsNew ==
    ASSUME FileInv, Loaded
    PROVE  \A n \in Live(version) \cup Live(manifest.levels) \cup comp.out :
             n \in FileNums /\ n < nextFile /\ n # nextFile
<1>1. /\ Live(version) \subseteq FileNums /\ Live(manifest.levels) \subseteq FileNums
      /\ comp.out \subseteq FileNums /\ nextFile \in Nat /\ manifest.next \in Nat
  BY LiveType DEF FileInv, TypeOK, DiskTypes, MemoryTypes, ControlTypes
<1>2. \A n \in FileNums : n \in Nat
  BY DEF FileNums
<1> QED BY <1>1, <1>2 DEF FileInv, Numbered

\* The tables that the manifest and version_ name stay as they are.
Kept == \A n \in Live(version) \cup Live(manifest.levels) : sst'[n] = sst[n]

LEMMA KeptStep ==
    ASSUME FileInv, [SparingNext]_vars
    PROVE  Kept
<1> USE DEF disk, memory, control, history
<1>1. CASE UNCHANGED sst
  BY <1>1 DEF Kept
<1>2. CASE OpenLoad
  <2>1. Live(version) = {}
    BY <1>2, LiveNoFiles DEF OpenLoad, FileInv, PhaseInv, Loaded
  <2>2. \A n \in Live(manifest.levels) : sst'[n] = sst[n]
    BY <1>2, SparesStep DEF OpenLoad, Spares
  <2> QED BY <2>1, <2>2 DEF Kept
<1>3. CASE CompactRemove
  <2>1. \A n \in Live(version) \cup Live(manifest.levels) : n \in FileNums /\ n \notin comp.old
    BY <1>3, LiveType DEF CompactRemove, FileInv, Replaced, TypeOK, MemoryTypes
  <2> QED BY <1>3, <2>1 DEF CompactRemove, Kept
<1>4. CASE FlushTable \/ FlushTableFails \/ CompactOutputFails \/ \E c \in Keys : CompactOutput(c)
  <2>1. Loaded
    BY <1>4 DEF FlushTable, FlushTableFails, CompactOutputFails, CompactOutput,
                FileInv, PhaseInv, Loaded
  <2>2. \A n \in FileNums : n # nextFile => sst'[n] = sst[n]
    BY <1>4 DEF FlushTable, FlushTableFails, CompactOutputFails, CompactOutput,
                FileInv, TypeOK, DiskTypes
  <2> QED BY <2>1, <2>2, NextIsNew DEF Kept
<1>5. \/ UNCHANGED sst \/ OpenLoad \/ CompactRemove
      \/ FlushTable \/ FlushTableFails \/ CompactOutputFails \/ \E c \in Keys : CompactOutput(c)
  BY DEF SparingNext, Next, Begin, Work, Opening, Writing, Flushing, Compacting, Finishing, Failing, vars,
         OpenBegin, WriteBegin, FlushCall, BackgroundBegin, CloseBegin, Destroy, OpenReaders,
         ReplayRecord, ReplayEnd, ReplayReadFails, OpenWal, OpenPersist, AddRecord, ApplyBatch, FlushSave,
         RotateWal, CompactNone, CompactPick, CompactInstall, CloseFinish, AbandonFinish,
         OpenLoadFails, OpenFails, AddRecordFails, FlushSaveFails, RotateWalFails,
         CompactReadFails, CompactInstallFails, Crash
<1> QED BY <1>1, <1>2, <1>3, <1>4, <1>5


\* How a step can change the levels.
LEMMA LevelsMove ==
    ASSUME [SparingNext]_vars
    PROVE  \/ /\ version' \in {version, NoFiles, manifest.levels}
              /\ manifest'.levels \in {manifest.levels, version}
              /\ pc' # "c_out" \/ UNCHANGED vars
           \/ FlushTable \/ CompactPick \/ (\E c \in Keys : CompactOutput(c))
           \/ CompactInstall \/ CompactInstallFails
BY DEF SparingNext, Next, Begin, Work, Opening, Writing, Flushing, Compacting, Finishing, Failing, vars,
       OpenBegin, WriteBegin, FlushCall, BackgroundBegin, CloseBegin, Destroy, OpenLoad,
       OpenReaders, ReplayRecord, ReplayEnd, ReplayReadFails, OpenWal, OpenPersist, AddRecord, ApplyBatch,
       FlushSave, RotateWal, CompactNone, CompactRemove, CloseFinish, AbandonFinish,
       OpenLoadFails, OpenFails, AddRecordFails, FlushTableFails, FlushSaveFails,
       RotateWalFails, CompactReadFails, CompactOutputFails, Crash,
       Discard, Saved, Return, FlushOr, disk, memory, control, history

\* A level that keeps its files, or takes those of the manifest or of version_, stays sorted.
LEMMA SortedMove ==
    ASSUME LevelInv, Kept, pc' # "c_out",
           \A l \in Levels \ {0} :
             /\ version'[l] \in {version[l], manifest.levels[l], {}}
             /\ manifest'.levels[l] \in {manifest.levels[l], version[l]}
    PROVE  Sorted' /\ Merging'
<1>1. \A l \in Levels : \A n \in version[l] \cup manifest.levels[l] : sst[n] = sst'[n]
  BY LiveType DEF Kept, LevelInv, FileInv, TypeOK, MemoryTypes, DiskTypes
<1>2. \A l \in Levels \ {0} : Apart(version[l], sst') /\ Apart(manifest.levels[l], sst')
  <2> TAKE l \in Levels \ {0}
  <2>1. Apart(version[l], sst) /\ Apart(manifest.levels[l], sst)
    BY DEF LevelInv, Sorted
  <2> QED BY <1>1, <2>1, ApartAgree
<1>3. \A l \in Levels \ {0} : Apart(version'[l], sst') /\ Apart(manifest'.levels[l], sst')
  BY <1>2, ApartEmpty
<1> QED BY <1>3 DEF Sorted, Merging

LEMMA LevelStep == LevelInv /\ [SparingNext]_vars => LevelInv'
<1> SUFFICES ASSUME LevelInv, [SparingNext]_vars PROVE Sorted' /\ Merging'
  BY FileStep DEF LevelInv
<1> USE DEF disk, memory, control, history
<1>0. Kept
  BY KeptStep DEF LevelInv
<1>1. CASE /\ version' \in {version, NoFiles, manifest.levels}
           /\ manifest'.levels \in {manifest.levels, version}
           /\ pc' # "c_out"
  BY <1>0, <1>1, SortedMove DEF NoFiles
<1>2. CASE UNCHANGED vars
  BY <1>2 DEF vars, LevelInv, Sorted, Merging, Due
<1>3. CASE FlushTable
  <2>1. \A l \in Levels \ {0} : version'[l] = version[l]
    BY <1>3 DEF FlushTable, LevelInv, FileInv, TypeOK, MemoryTypes
  <2>2. pc' # "c_out" /\ UNCHANGED manifest
    BY <1>3 DEF FlushTable
  <2> QED BY <1>0, <2>1, <2>2, SortedMove
<1>4. CASE CompactPick
  <2>1. PICK l : comp' = [level |-> l, rest |-> Merge(version, sst, l), out |-> {}, old |-> {}]
    BY <1>4 DEF CompactPick
  <2>2. comp'.level = l /\ comp'.rest = Merge(version, sst, l) /\ comp'.out = {}
    BY <2>1
  <2>3. UNCHANGED <<version, manifest, sst>>
    BY <1>4 DEF CompactPick
  <2>4. Sorted'
    BY <2>2, <2>3, ApartEmpty DEF LevelInv, Sorted
  <2>5. Merging'
    BY <2>2, <2>3 DEF Merging, Due, Merge
  <2> QED BY <2>4, <2>5
<1>5. ASSUME NEW c \in Keys, CompactOutput(c) PROVE Sorted' /\ Merging'
  <2> DEFINE rest == comp.rest
  <2>1. /\ pc = "c_out" /\ nextFile \in FileNums /\ c \in DOMAIN rest
        /\ DOMAIN rest \subseteq Int /\ comp.out \subseteq FileNums
        /\ comp.level \in 0 .. kMaxLevels - 2
    BY <1>5, TableIs, TreeAssumption
       DEF CompactOutput, LevelInv, FileInv, TypeOK, ControlTypes, MemoryTypes, FileNums
  <2>2. /\ comp'.level = comp.level /\ comp'.out = comp.out \cup {nextFile}
        /\ comp'.rest = [k \in DOMAIN rest \ DOMAIN Chunk(c) |-> rest[k]]
        /\ UNCHANGED <<version, manifest>>
    BY <1>5 DEF CompactOutput, LevelInv, FileInv, TypeOK, ControlTypes
  <2>3. /\ DOMAIN Chunk(c) = {k \in DOMAIN rest : k <= c}
        /\ \A k \in DOMAIN Chunk(c) : Chunk(c)[k] = rest[k]
        /\ DOMAIN comp'.rest = {k \in DOMAIN rest : ~(k <= c)}
        /\ \A k \in DOMAIN comp'.rest : comp'.rest[k] = rest[k]
    BY <2>2 DEF Chunk
  <2>4. \A n \in Live(version) \cup Live(manifest.levels) \cup comp.out :
          n \in FileNums /\ n < nextFile /\ n # nextFile
    BY <2>1, NextIsNew DEF LevelInv, FileInv, PhaseInv, Loaded
  <2>5. sst'[nextFile] = Chunk(c) /\ \A n \in FileNums : n # nextFile => sst'[n] = sst[n]
    BY <1>5, <2>1 DEF CompactOutput, LevelInv, FileInv, TypeOK, DiskTypes
  <2>6. \A n \in comp.out : sst'[n] = sst[n] /\ n < nextFile /\ ~(nextFile < n)
    BY <2>1, <2>4, <2>5 DEF FileNums
  <2>7. /\ \A n \in comp.out : \A j \in DOMAIN sst'[n], k \in DOMAIN rest : j < k
        /\ Apart(comp.out, sst')
    <3>1. Apart(comp.out, sst)
      BY <2>1 DEF LevelInv, Sorted
    <3>2. Apart(comp.out, sst')
      BY <2>6, <3>1, ApartAgree
    <3> QED BY <2>1, <2>6, <3>2 DEF LevelInv, Sorted
  <2>8. Sorted'
    <3>1. Apart(comp.out \cup {nextFile}, sst')
      <4>1. ~(nextFile < nextFile)
        BY <2>1 DEF FileNums
      <4>2. \A k \in DOMAIN sst'[nextFile] : k \in DOMAIN rest
        BY <2>3, <2>5
      <4> QED BY <2>6, <2>7, <4>1, <4>2 DEF Apart
    <3>2. \A n \in comp'.out : \A j \in DOMAIN sst'[n], k \in DOMAIN comp'.rest : j < k
      <4>1. \A j \in DOMAIN sst'[nextFile], k \in DOMAIN comp'.rest : j < k
        <5> SUFFICES ASSUME NEW j \in DOMAIN sst'[nextFile], NEW k \in DOMAIN comp'.rest
                     PROVE  j < k
          OBVIOUS
        <5>1. j \in Int /\ c \in Int /\ k \in Int /\ j <= c /\ ~(k <= c)
          BY <2>1, <2>3, <2>5
        <5> QED BY <5>1
      <4> QED BY <2>2, <2>3, <2>7, <4>1
    <3>3. \A l \in Levels \ {0} : Apart(version'[l], sst') /\ Apart(manifest'.levels[l], sst')
      <4> TAKE l \in Levels \ {0}
      <4>1. Apart(version[l], sst) /\ Apart(manifest.levels[l], sst)
        BY DEF LevelInv, Sorted
      <4>2. \A n \in version[l] \cup manifest.levels[l] : sst[n] = sst'[n]
        BY <1>0, LiveType DEF Kept, LevelInv, FileInv, TypeOK, MemoryTypes, DiskTypes
      <4> QED BY <2>2, <4>1, <4>2, ApartAgree
    <3> QED BY <2>2, <3>1, <3>2, <3>3 DEF Sorted
  <2>9. Merging'
    <3> DEFINE MK == MergedKeys(version, sst, comp.level)
    <3>1. /\ MergedKeys(version', sst', comp'.level) = MK
          /\ \A k \in MK : MergedEntry(version', sst', comp'.level, k)
                             = MergedEntry(version, sst, comp.level, k)
      <4>1. version \in [Levels -> SUBSET FileNums] /\ \A n \in Live(version) : sst[n] = sst'[n]
        BY <1>0 DEF Kept, LevelInv, FileInv, TypeOK, MemoryTypes
      <4> QED BY <2>1, <2>2, <4>1, MergedAgree
    <3>2. \A k, e : Due(version, sst, comp.level, k, e) => Due(version', sst', comp'.level, k, e)
      BY <3>1 DEF Due
    <3>3. /\ \A k \in DOMAIN rest : Due(version, sst, comp.level, k, rest[k])
          /\ \A n \in comp.out : \A k \in DOMAIN sst[n] :
               Due(version, sst, comp.level, k, sst[n][k])
          /\ \A k \in MK : k \in DOMAIN rest \/ \E n \in comp.out : k \in DOMAIN sst[n]
      BY <2>1 DEF LevelInv, Merging
    <3> HIDE DEF MK
    <3>4. \A k \in DOMAIN comp'.rest :
            Due(version', sst', comp'.level, k, comp'.rest[k])
      BY <2>3, <3>2, <3>3
    <3>5. \A n \in comp'.out : \A k \in DOMAIN sst'[n] :
            Due(version', sst', comp'.level, k, sst'[n][k])
      BY <2>2, <2>3, <2>5, <2>6, <3>2, <3>3
    <3>6. \A k \in MK : k \in DOMAIN comp'.rest \/ \E n \in comp'.out : k \in DOMAIN sst'[n]
      BY <2>2, <2>3, <2>5, <2>6, <3>3
    <3> QED BY <3>1, <3>4, <3>5, <3>6 DEF Merging
  <2> QED BY <2>8, <2>9
<1>6. CASE CompactInstall \/ CompactInstallFails
  <2>1. /\ pc = "c_out" /\ pc' # "c_out" /\ version' = Compacted /\ UNCHANGED sst
        /\ manifest'.levels \in {manifest.levels, Compacted}
    BY <1>6 DEF CompactInstall, CompactInstallFails, Saved, Return
  <2>2. \A l \in Levels \ {0} : Apart(Compacted[l], sst) /\ Apart(manifest.levels[l], sst)
    BY <2>1, CompactedLevels, ApartEmpty DEF LevelInv, Sorted, FileInv
  <2>3. Sorted'
    BY <2>1, <2>2 DEF Sorted
  <2> QED BY <2>1, <2>3 DEF Merging
<1> QED BY <1>1, <1>2, <1>3, <1>4, <1>5, <1>6, LevelsMove

LEMMA LevelInvariant == SparingSpec => []LevelInv
<1>1. Init => FileInv
  BY FileInit
<1>2. Init => Sorted /\ Merging
  BY ApartEmpty DEF Init, Sorted, Merging, NoFiles
<1> QED BY <1>1, <1>2, LevelStep, PTL DEF SparingSpec, LevelInv

\* The levels from level 1 on keep their files sorted and disjoint, whatever fails.
THEOREM SortedLevels ==
    ASSUME PlainPaths
    PROVE  Spec => []LevelsDisjoint
<1>1. LevelInv => LevelsDisjoint
  BY DEF LevelInv, Sorted, Apart, LevelsDisjoint, Disjoint
<1> QED BY <1>1, LevelInvariant, PlainSpec, PTL

-----------------------------------------------------------------------------
(* The targets of the levels *)

\* Induction over the natural numbers, for sets.
LEMMA SetInduction ==
    ASSUME NEW S, 0 \in S, \A n \in Nat : n \in S => n + 1 \in S
    PROVE  Nat \subseteq S
<1> DEFINE M == Nat \ S
<1>1. ASSUME M # {} PROVE FALSE
  <2>1. PICK m \in M : \A y \in M : m <= y
    <3>1. M \subseteq Nat
      OBVIOUS
    <3> HIDE DEF M
    <3> QED BY <1>1, <3>1, MinExists
  <2>2. m \in Nat /\ m # 0 /\ m \notin S
    BY <2>1
  <2>3. m - 1 \in Nat /\ m - 1 \notin M
    BY <2>1, <2>2
  <2>4. (m - 1) + 1 \in S
    BY <2>3
  <2> QED BY <2>2, <2>4
<1> QED BY <1>1

\* The target of level i, where g has those of the levels before it.
NextTarget(g, i) == IF i <= 1 THEN Level1TargetBytes ELSE g[i - 1] * Multiplier

\* The targets of the levels up to n.
Targets(n) == {g \in [0 .. n -> Nat] : \A i \in 0 .. n : g[i] = NextTarget(g, i)}

LEMMA ProductType == \A x \in Nat : x * Multiplier \in Nat
BY EngineAssumption DEF Multiplier

LEMMA TargetsExist == \A n \in Nat : Targets(n) # {}
<1> DEFINE S == {n \in Nat : Targets(n) # {}}
<1>1. 0 \in S
  <2> DEFINE g == [i \in 0 .. 0 |-> Level1TargetBytes]
  <2>1. g \in [0 .. 0 -> Nat] /\ \A i \in 0 .. 0 : g[i] = NextTarget(g, i)
    BY EngineAssumption DEF NextTarget
  <2>2. g \in Targets(0)
    BY <2>1 DEF Targets
  <2> QED BY <2>2
<1>2. ASSUME NEW n \in Nat, n \in S PROVE n + 1 \in S
  <2>1. PICK g : g \in Targets(n)
    BY <1>2
  <2>2. g \in [0 .. n -> Nat] /\ \A i \in 0 .. n : g[i] = NextTarget(g, i)
    BY <2>1 DEF Targets
  <2> DEFINE h == [i \in 0 .. n + 1 |-> IF i <= n THEN g[i] ELSE NextTarget(g, n + 1)]
  <2>3. NextTarget(g, n + 1) \in Nat
    BY <2>2, ProductType, EngineAssumption DEF NextTarget
  <2>4. h \in [0 .. n + 1 -> Nat]
    BY <2>2, <2>3
  <2>5. ASSUME NEW i \in 0 .. n + 1 PROVE h[i] = NextTarget(h, i)
    <3>1. i <= 1 \/ (i - 1 \in 0 .. n /\ h[i - 1] = g[i - 1])
      OBVIOUS
    <3>2. NextTarget(h, i) = NextTarget(g, i)
      BY <3>1 DEF NextTarget
    <3>3. h[i] = NextTarget(g, i)
      BY <2>2
    <3> QED BY <3>2, <3>3
  <2>6. h \in Targets(n + 1)
    BY <2>4, <2>5 DEF Targets
  <2> QED BY <2>6
<1> HIDE DEF S
<1>3. Nat \subseteq S
  BY <1>1, <1>2, SetInduction
<1> QED BY <1>3 DEF S

LEMMA TargetsAgree ==
    ASSUME NEW m \in Nat, NEW n \in Nat, NEW g \in Targets(m), NEW h \in Targets(n)
    PROVE  \A i \in Nat : i <= m /\ i <= n => g[i] = h[i]
<1> DEFINE S == {i \in Nat : i <= m /\ i <= n => g[i] = h[i]}
<1>1. /\ \A i \in 0 .. m : g[i] = NextTarget(g, i)
      /\ \A i \in 0 .. n : h[i] = NextTarget(h, i)
  BY DEF Targets
<1>2. 0 \in S
  BY <1>1 DEF NextTarget
<1>3. ASSUME NEW i \in Nat, i \in S PROVE i + 1 \in S
  <2>1. i + 1 <= m /\ i + 1 <= n => g[i + 1] = NextTarget(g, i + 1) /\ h[i + 1] = NextTarget(h, i + 1)
    BY <1>1
  <2> QED BY <1>3, <2>1 DEF NextTarget
<1> HIDE DEF S
<1>4. Nat \subseteq S
  BY <1>2, <1>3, SetInduction
<1> QED BY <1>4 DEF S

\* NeedsCompactionLocked computes a target for every level, and none is negative.
LEMMA TargetType == \A l \in Nat : TargetBytes[l] \in Nat
<1> DEFINE pick(n) == CHOOSE g : g \in Targets(n)
           f == [n \in Nat |-> pick(n)[n]]
           Equation(t) == t = [l \in Nat |-> IF l <= 1 THEN Level1TargetBytes ELSE t[l - 1] * Multiplier]
<1>1. \A n \in Nat : pick(n) \in Targets(n)
  BY TargetsExist
<1> HIDE DEF pick
<1>2. \A n \in Nat : f[n] = NextTarget(f, n)
  <2> TAKE n \in Nat
  <2>1. f[n] = NextTarget(pick(n), n)
    BY <1>1 DEF Targets
  <2>2. CASE n <= 1
    BY <2>1, <2>2 DEF NextTarget
  <2>3. CASE ~(n <= 1)
    <3>1. n - 1 \in Nat /\ n - 1 <= n
      BY <2>3
    <3>2. pick(n)[n - 1] = pick(n - 1)[n - 1]
      BY <1>1, <3>1, TargetsAgree
    <3>3. pick(n)[n - 1] = f[n - 1]
      BY <3>1, <3>2
    <3> QED BY <2>1, <2>3, <3>3 DEF NextTarget
  <2> QED BY <2>2, <2>3
<1>3. \A n \in Nat : f[n] \in Nat
  BY <1>1 DEF Targets
<1>4. Equation(f)
  <2> HIDE DEF f
  <2>1. f = [n \in Nat |-> f[n]]
    BY DEF f
  <2>2. \A n \in Nat : f[n] = IF n <= 1 THEN Level1TargetBytes ELSE f[n - 1] * Multiplier
    BY <1>2 DEF NextTarget
  <2> QED BY <2>1, <2>2
<1>5. Equation(TargetBytes)
  <2> HIDE DEF f
  <2>1. \E t : Equation(t)
    BY <1>4
  <2>2. TargetBytes = CHOOSE t : Equation(t)
    BY DEF TargetBytes
  <2> HIDE DEF Equation
  <2> QED BY <2>1, <2>2
<1> DEFINE S == {n \in Nat : TargetBytes[n] \in Nat}
<1>6. \A n \in Nat : TargetBytes[n] = IF n <= 1 THEN Level1TargetBytes ELSE TargetBytes[n - 1] * Multiplier
  BY <1>5
<1>7. 0 \in S
  BY <1>6, EngineAssumption
<1>8. ASSUME NEW n \in Nat, n \in S PROVE n + 1 \in S
  BY <1>6, <1>8, ProductType, EngineAssumption
<1> HIDE DEF S
<1>9. Nat \subseteq S
  BY <1>7, <1>8, SetInduction
<1> QED BY <1>9 DEF S

-----------------------------------------------------------------------------
(* The compaction loop *)

\* A sum over nothing.
LEMMA EmptySum ==
    ASSUME NEW f, DOMAIN f = {}
    PROVE  SumFunction(f) = 0
<1> DEFINE pick(s) == CHOOSE x \in s : TRUE
           Equation(t) == t = [s \in SUBSET DOMAIN f |->
                                IF s = {} THEN 0 ELSE f[pick(s)] + t[s \ {pick(s)}]]
           none == [s \in SUBSET DOMAIN f |-> 0]
<1>1. SumFunction(f) = (CHOOSE t : Equation(t))[DOMAIN f]
  BY DEF SumFunction, SumFunctionOnSet, FoldFunctionOnSet, MapThenFoldSet
<1>2. Equation(none)
  OBVIOUS
<1>3. PICK t : t = (CHOOSE u : Equation(u)) /\ Equation(t)
  <2> HIDE DEF Equation, none
  <2> QED BY <1>2
<1>4. t[{}] = 0
  BY <1>3
<1> QED BY <1>1, <1>3, <1>4

\* The bytes of a level depend on its files only, and one without files has none.
LEMMA LevelBytesSame ==
    ASSUME NEW lv, NEW w, NEW s, NEW t, NEW l, lv[l] = w[l], \A n \in lv[l] : s[n] = t[n]
    PROVE  LevelBytes(lv, s, l) = LevelBytes(w, t, l)
<1>1. [n \in lv[l] |-> Cardinality(DOMAIN s[n])] = [n \in w[l] |-> Cardinality(DOMAIN t[n])]
  OBVIOUS
<1> QED BY <1>1 DEF LevelBytes

LEMMA EmptyLevelBytes ==
    ASSUME NEW lv, NEW s, NEW l, lv[l] = {}
    PROVE  LevelBytes(lv, s, l) = 0
BY EmptySum DEF LevelBytes

\* A level whose files and tables stay is as full as before.
LEMMA OverfullSame ==
    ASSUME NEW l, version'[l] = version[l], l = 0 => version'[0] = version[0],
           \A n \in version[l] : sst'[n] = sst[n]
    PROVE  Overfull(l)' <=> Overfull(l)
<1>1. LevelBytes(version', sst', l) = LevelBytes(version, sst, l)
  BY LevelBytesSame
<1> QED BY <1>1 DEF Overfull

(***************************************************************************)
(* What the loop over CompactLocked keeps: the levels before the one that  *)
(* is being compacted are not overfull, and once the outputs are installed *)
(* this level is not either.                                               *)
(***************************************************************************)
LoopInv ==
    /\ pc = "c_out" => \A l \in 0 .. comp.level - 1 : ~Overfull(l)
    /\ pc = "c_remove" => \A l \in 0 .. comp.level : ~Overfull(l)

LEMMA LoopStep ==
    ASSUME L0CompactionTrigger >= 1
    PROVE  FileInv /\ LoopInv /\ [SparingNext]_vars => LoopInv'
<1> SUFFICES ASSUME FileInv, LoopInv, [SparingNext]_vars PROVE LoopInv'
  OBVIOUS
<1> USE DEF disk, memory, control, history
<1>0. /\ version \in [Levels -> SUBSET FileNums] /\ comp.level \in 0 .. kMaxLevels - 2
      /\ \A l \in 0 .. comp.level + 1 : l \in Levels
      /\ \A l \in Levels : \A n \in version[l] : sst'[n] = sst[n]
  <2>1. Kept
    BY KeptStep
  <2>2. version \in [Levels -> SUBSET FileNums] /\ comp.level \in 0 .. kMaxLevels - 2
    BY DEF FileInv, TypeOK, MemoryTypes, ControlTypes
  <2> QED BY <2>1, <2>2, TreeAssumption DEF Kept, Live, Levels
<1>1. CASE pc' \notin {"c_out", "c_remove"}
  BY <1>1 DEF LoopInv
<1>2. CASE CompactPick
  <2>1. comp'.level = Min(OverfullLevels) /\ pc' = "c_out" /\ UNCHANGED <<version, sst>>
    BY <1>2 DEF CompactPick
  <2>2. Min(OverfullLevels) \in OverfullLevels /\ \A l \in OverfullLevels : Min(OverfullLevels) <= l
    BY <1>2, MinIs DEF CompactPick, OverfullLevels
  <2>3. ASSUME NEW l \in 0 .. Min(OverfullLevels) - 1 PROVE ~Overfull(l)'
    <3>1. l \in 0 .. kMaxLevels - 2 /\ l \notin OverfullLevels
      BY <2>2, TreeAssumption DEF OverfullLevels
    <3>2. ~Overfull(l)
      BY <3>1 DEF OverfullLevels
    <3> QED BY <2>1, <3>2, OverfullSame
  <2> QED BY <2>1, <2>3 DEF LoopInv
<1>3. ASSUME NEW c \in Keys, CompactOutput(c) PROVE LoopInv'
  <2>1. pc = "c_out" /\ pc' = "c_out" /\ UNCHANGED version /\ comp'.level = comp.level
    BY <1>3 DEF CompactOutput, FileInv, TypeOK, ControlTypes
  <2>2. ASSUME NEW l \in 0 .. comp.level - 1 PROVE ~Overfull(l)'
    <3>1. ~Overfull(l) /\ l \in Levels
      BY <1>0, <2>1 DEF LoopInv
    <3> QED BY <1>0, <2>1, <3>1, OverfullSame
  <2> QED BY <2>1, <2>2 DEF LoopInv
<1>4. CASE CompactInstall
  <2>1. /\ pc = "c_out" /\ pc' = "c_remove" /\ UNCHANGED sst /\ comp'.level = comp.level
        /\ version' = [version EXCEPT ![comp.level] = {}, ![comp.level + 1] = comp.out]
    BY <1>4 DEF CompactInstall, Compacted, FileInv, TypeOK, ControlTypes
  <2>2. ASSUME NEW l \in 0 .. comp.level - 1 PROVE ~Overfull(l)'
    <3>1. ~Overfull(l) /\ l \in Levels
      BY <1>0, <2>1 DEF LoopInv
    <3>2. version'[l] = version[l]
      BY <1>0, <2>1, <3>1
    <3> QED BY <1>0, <2>1, <3>1, <3>2, OverfullSame
  <2>3. ASSUME NEW l, l = comp.level PROVE ~Overfull(l)'
    <3>1. version'[l] = {}
      BY <1>0, <2>1, <2>3
    <3>2. LevelBytes(version', sst', l) = 0
      BY <3>1, EmptyLevelBytes
    <3>3. Cardinality({}) = 0 /\ TargetBytes[l] \in Nat
      BY <1>0, <2>3, TargetType, FS_EmptySet, TreeAssumption
    <3> QED BY <3>1, <3>2, <3>3, EngineAssumption DEF Overfull
  <2>4. \A l \in 0 .. comp.level : l = comp.level \/ l \in 0 .. comp.level - 1
    BY <1>0
  <2> QED BY <2>1, <2>2, <2>3, <2>4 DEF LoopInv
<1>5. CASE UNCHANGED vars
  BY <1>5 DEF vars, LoopInv, Overfull
<1> QED
  BY <1>1, <1>2, <1>3, <1>4, <1>5
  DEF SparingNext, Next, Begin, Work, Opening, Writing, Flushing, Compacting, Finishing, Failing, OpenBegin,
      WriteBegin, FlushCall, BackgroundBegin, CloseBegin, Destroy, OpenLoad, OpenReaders,
      ReplayRecord, ReplayEnd, OpenWal, OpenPersist, AddRecord, ApplyBatch, FlushTable, FlushSave,
      RotateWal, CompactNone, CompactRemove, CloseFinish, AbandonFinish, OpenLoadFails, OpenFails,
      ReplayReadFails, AddRecordFails, FlushTableFails, FlushSaveFails, RotateWalFails,
      CompactReadFails, CompactOutputFails, CompactInstallFails, Crash, Discard, Return, FlushOr

\* The loop comes back to the test for a level that needs compaction with a deeper one, or none.
LEMMA LoopDeepens ==
    ASSUME FileInv, LoopInv, CompactRemove, [SparingNext]_vars
    PROVE  LoopLevel < LoopLevel'
<1> USE DEF disk, memory, control, history
<1>1. /\ comp.level \in 0 .. kMaxLevels - 2 /\ LoopLevel = comp.level
      /\ pc = "c_remove" /\ pc' = "compact" /\ UNCHANGED version
  BY DEF CompactRemove, LoopLevel, FileInv, TypeOK, ControlTypes
<1>2. ASSUME NEW l \in 0 .. comp.level PROVE ~Overfull(l)'
  <2>1. ~Overfull(l)
    BY <1>1 DEF LoopInv
  <2>2. l \in Levels
    BY <1>1, TreeAssumption DEF Levels
  <2>3. \A n \in version[l] : sst'[n] = sst[n]
    BY <2>2, KeptStep DEF Kept, Live
  <2> QED BY <1>1, <2>1, <2>3, OverfullSame
<1>3. \A l \in OverfullLevels' : l \in Nat /\ comp.level < l
  BY <1>1, <1>2 DEF OverfullLevels
<1>4. CASE OverfullLevels' = {}
  BY <1>1, <1>4, TreeAssumption DEF LoopLevel, LastLevel
<1>5. CASE OverfullLevels' # {}
  <2>1. OverfullLevels' \subseteq Nat
    BY <1>3
  <2>2. Min(OverfullLevels') \in OverfullLevels'
    BY <1>5, <2>1, MinIs
  <2> QED BY <1>1, <1>3, <1>5, <2>2 DEF LoopLevel
<1> QED BY <1>4, <1>5

LEMMA AdvanceStep ==
    ASSUME FileInv, LoopInv, [SparingNext]_vars, pc # "idle", pc' # "idle", ~UNCHANGED vars
    PROVE  StageOf[pc] < StageOf[pc'] \/ (StageOf[pc] = StageOf[pc'] /\ MovesOn)
<1> USE DEF disk, memory, control, history
<1>1. CASE ReplayRecord
  <2>1. replayAt \in Nat /\ Len(wal) \in Nat
    BY DEF FileInv, TypeOK, DiskTypes, ControlTypes
  <2> QED BY <1>1, <2>1 DEF ReplayRecord, MovesOn
<1>2. CASE CompactPick
  <2>1. LoopLevel' = LoopLevel
    BY <1>2 DEF CompactPick, LoopLevel
  <2> QED BY <1>2, <2>1 DEF CompactPick, MovesOn, StageOf, PartOf
<1>3. ASSUME NEW c \in Keys, CompactOutput(c)
      PROVE  StageOf[pc] = StageOf[pc'] /\ MovesOn
  <2>1. pc = "c_out" /\ pc' = "c_out" /\ c \in DOMAIN comp.rest /\ comp.rest \in Table
    BY <1>3 DEF CompactOutput, FileInv, TypeOK, ControlTypes
  <2>2. /\ comp'.level = comp.level
        /\ DOMAIN comp'.rest = DOMAIN comp.rest \ DOMAIN Chunk(c)
    BY <1>3 DEF CompactOutput, FileInv, TypeOK, ControlTypes
  <2>3. c \in DOMAIN Chunk(c)
    BY <1>3, <2>1, TreeAssumption DEF Chunk
  <2>4. LoopLevel' = LoopLevel
    BY <2>1, <2>2 DEF LoopLevel
  <2> QED BY <2>1, <2>2, <2>3, <2>4 DEF MovesOn
<1>4. CASE CompactInstall
  <2>1. LoopLevel' = LoopLevel
    BY <1>4 DEF CompactInstall, LoopLevel, FileInv, TypeOK, ControlTypes
  <2> QED BY <1>4, <2>1 DEF CompactInstall, MovesOn, StageOf, PartOf
<1>5. CASE CompactRemove
  BY <1>5, LoopDeepens DEF CompactRemove, MovesOn, StageOf
<1>6. CASE Begin
  BY <1>6 DEF Begin, OpenBegin, WriteBegin, FlushCall, BackgroundBegin, CloseBegin, Destroy,
              FileInv, PhaseInv
<1>7. CASE OpenLoad \/ OpenReaders \/ ReplayEnd \/ OpenWal \/ OpenPersist
  BY <1>7 DEF OpenLoad, OpenReaders, ReplayEnd, OpenWal, OpenPersist, StageOf
<1>8. CASE OpenLoadFails \/ OpenFails \/ ReplayReadFails
  BY <1>8 DEF OpenLoadFails, OpenFails, ReplayReadFails, FlushOr, StageOf
<1>9. CASE Writing \/ AddRecordFails
  BY <1>9 DEF Writing, AddRecord, ApplyBatch, AddRecordFails, Return, StageOf
<1>10. CASE Flushing \/ FlushTableFails \/ FlushSaveFails \/ RotateWalFails
  BY <1>10 DEF Flushing, FlushTable, FlushSave, RotateWal, FlushTableFails, FlushSaveFails,
               RotateWalFails, Return, StageOf
<1>11. CASE CompactNone \/ CompactReadFails \/ CompactOutputFails \/ CompactInstallFails
  BY <1>11 DEF CompactNone, CompactReadFails, CompactOutputFails, CompactInstallFails, Return,
               StageOf
<1>12. CASE Finishing \/ Crash
  BY <1>12 DEF Finishing, CloseFinish, AbandonFinish, Crash, Discard
<1> QED
  BY <1>1, <1>2, <1>3, <1>4, <1>5, <1>6, <1>7, <1>8, <1>9, <1>10, <1>11, <1>12
  DEF SparingNext, Next, Work, Opening, Compacting, Failing, vars

(***************************************************************************)
(* Every step of an operation takes it on: no stage, level or record is    *)
(* gone through twice under one hold of the mutex. The trigger of level 0  *)
(* must be at least 1: with less an empty level 0 is overfull.             *)
(***************************************************************************)
THEOREM EveryStepAdvances ==
    ASSUME PlainPaths, L0CompactionTrigger >= 1
    PROVE  Spec => OperationsAdvance
<1>1. Init => LoopInv
  BY DEF Init, LoopInv
<1>2. FileInv /\ LoopInv /\ [SparingNext]_vars => LoopInv'
  BY LoopStep
<1>3. FileInv /\ LoopInv /\ [SparingNext]_vars =>
        [pc # "idle" /\ pc' # "idle" =>
           StageOf[pc] < StageOf[pc'] \/ (StageOf[pc] = StageOf[pc'] /\ MovesOn)]_vars
  BY AdvanceStep
<1> QED BY <1>1, <1>2, <1>3, FileInvariant, PlainSpec, PTL DEF SparingSpec, OperationsAdvance

=============================================================================
