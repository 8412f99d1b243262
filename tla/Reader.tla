------------------------------- MODULE Reader -------------------------------
(***************************************************************************)
(* Reading the database: DB::Get and DB::NewIterator over the memtable and *)
(* the open tables, some of which may fail to be read, and one Iterator,   *)
(* which walks a copy of the live entries while the engine goes on.        *)
(***************************************************************************)
EXTENDS ClomDB

CONSTANT End   \* the position behind the last entry, snapshot_.end()

ASSUME ReaderAssumption ==
    /\ End \notin Keys
    /\ Keys # {} => \E least \in Keys : \A k \in Keys : least <= k   \* as the empty key

VARIABLES
    snapshot,  \* snapshot_: the live entries
    at,        \* it_
    seen,      \* history: the entries visited since SeekToFirst or Seek
    scope,     \* history: the keys that walk is to visit, if they are there
    frozen,    \* history: what Get returned when the iterator was made
    whole      \* history: every table could be read when the iterator was made

cursor == <<snapshot, at, seen, scope, frozen, whole>>
rvars  == <<vars, cursor>>

(***************************************************************************)
(* The tables of S that answer for k: SSTableReader::Get returns false for *)
(* a table without the key, and also when the table cannot be read.        *)
(***************************************************************************)
Answers(S, k, bad) == Holders(S, sst, k) \ bad

\* The levels with a table that answers for k.
Answered(k, bad) == {l \in Levels : Answers(version[l], k, bad) # {}}

\* What Get returns for k when the tables in bad cannot be read.
GetEntry(k, bad) ==
    IF k \in DOMAIN mem THEN mem[k]
    ELSE IF Answered(k, bad) = {} THEN Tombstone
    ELSE LET l == Min(Answered(k, bad))
         IN  sst[Answering(l, Answers(version[l], k, bad))][k]

\* Broken variant: level 0 is merged from the newest file to the oldest.
ScanEntry_OldestLast(k, bad) ==
    IF k \in DOMAIN mem THEN mem[k]
    ELSE IF Answered(k, bad) = {} THEN Tombstone
    ELSE LET l == Min(Answered(k, bad))
         IN  sst[Min(Answers(version[l], k, bad))][k]

(***************************************************************************)
(* The entry of k that NewIterator's merge ends up with: the levels from   *)
(* the deepest to level 0, the files of each in the order of their         *)
(* numbers, then the memtable; a table that cannot be read is left out.    *)
(***************************************************************************)
ScanEntry(k, bad) ==
    IF k \in DOMAIN mem THEN mem[k]
    ELSE IF Answered(k, bad) = {} THEN Tombstone
    ELSE LET l == Min(Answered(k, bad))
         IN  sst[Max(Answers(version[l], k, bad))][k]

\* The entries of m that are not tombstones.
LiveEntries(m) == [k \in {j \in DOMAIN m : m[j] # Tombstone} |-> m[k]]

\* Broken variant: upper_bound instead of lower_bound.
LowerBound_Upper(m, k) ==
    LET S == {j \in DOMAIN m : j > k} IN IF S = {} THEN End ELSE Min(S)

\* The first position of the snapshot at or behind key k: std::map::lower_bound.
LowerBound(m, k) ==
    LET S == {j \in DOMAIN m : j >= k} IN IF S = {} THEN End ELSE Min(S)

FirstPosition(m) == IF m = EmptyTable THEN End ELSE Min(DOMAIN m)

\* The entries visited once the iterator is at position p.
Visit(old, m, p) == IF p = End THEN old ELSE Overlay([k \in {p} |-> m[k]], old)

ReaderInit ==
    /\ snapshot = EmptyTable /\ at = End /\ seen = EmptyTable
    /\ scope = Keys /\ frozen = [k \in Keys |-> Tombstone] /\ whole = TRUE

\* Broken variant: an iterator that is made anew keeps its position.
NewIterator_KeepsPosition(bad) ==
    /\ handle \in {"open", "closed"} /\ pc = "idle"
    /\ snapshot' = LiveEntries([k \in Keys |-> ScanEntry(k, bad)])
    /\ scope' = Keys
    /\ frozen' = [k \in Keys |-> GetEntry(k, {})] /\ whole' = (bad = {})
    /\ UNCHANGED <<vars, at, seen>>

\* NewIterator does not look at closed_.
NewIterator(bad) ==
    /\ handle \in {"open", "closed"} /\ pc = "idle"
    /\ snapshot' = LiveEntries([k \in Keys |-> ScanEntry(k, bad)])
    /\ at' = FirstPosition(snapshot') /\ seen' = Visit(EmptyTable, snapshot', at')
    /\ scope' = Keys
    /\ frozen' = [k \in Keys |-> GetEntry(k, {})] /\ whole' = (bad = {})
    /\ UNCHANGED vars

SeekToFirst ==
    /\ at' = FirstPosition(snapshot) /\ seen' = Visit(EmptyTable, snapshot, at') /\ scope' = Keys
    /\ UNCHANGED <<vars, snapshot, frozen, whole>>

Seek(k) ==
    /\ at' = LowerBound(snapshot, k) /\ seen' = Visit(EmptyTable, snapshot, at')
    /\ scope' = {j \in Keys : j >= k}
    /\ UNCHANGED <<vars, snapshot, frozen, whole>>

\* Iterator::Next does nothing at the end.
Advance ==
    /\ at # End
    /\ at' = LowerBound(snapshot, at + 1)
    /\ seen' = Visit(seen, snapshot, at')
    /\ UNCHANGED <<vars, snapshot, scope, frozen, whole>>

Walk == SeekToFirst \/ (\E k \in Keys : Seek(k)) \/ Advance

\* The engine goes on whatever the iterator does, and the iterator does not touch the engine.
ReaderNext ==
    \/ Next /\ UNCHANGED cursor
    \/ \E bad \in SUBSET Live(version) : NewIterator(bad)
    \/ Walk

ReaderSpec == Init /\ ReaderInit /\ [][ReaderNext]_rvars

-----------------------------------------------------------------------------
(* Properties *)

\* The type invariant: what the members of Iterator can hold.
ReaderTypeOK ==
    /\ snapshot \in Table /\ at \in DOMAIN snapshot \cup {End}
    /\ seen \in Table /\ scope \subseteq Keys
    /\ frozen \in [Keys -> Entries] /\ whole \in BOOLEAN

(***************************************************************************)
(* Get and NewIterator agree in every state of the engine in which a       *)
(* client can call them, although Get stops at the first table that        *)
(* answers, newest first, and NewIterator overwrites from the oldest on.   *)
(***************************************************************************)
ScanAgreesWithGet ==
    pc = "idle" => \A k \in Keys : ScanEntry(k, {}) = GetEntry(k, {})

\* The entries of m with a key in S.
Within(m, S) == [k \in DOMAIN m \cap S |-> m[k]]

(***************************************************************************)
(* A walk to the end, from SeekToFirst or from Seek, has visited exactly   *)
(* the entries in its range that Get returned when the iterator was made:  *)
(* none is passed over, none that was deleted or overwritten comes up, in  *)
(* whichever tables and levels they are.                                   *)
(***************************************************************************)
ScanIsComplete ==
    at = End /\ whole => seen = Within(LiveEntries(frozen), scope)

(***************************************************************************)
(* sstable.h: a table that has the key says so; wal.h: every valid record  *)
(* is replayed. So an error while a table or the log is read never makes   *)
(* Get return what was overwritten, or nothing.                            *)
(***************************************************************************)
ReadErrorsSurface ==
    handle = "open" /\ pc = "idle" /\ lost \subseteq {"unread"} =>
      \A k \in Keys, bad \in {{}} \cup {{n} : n \in Live(version)} : GetEntry(k, bad) \in expect[k]

=============================================================================
