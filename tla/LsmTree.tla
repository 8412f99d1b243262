------------------------------ MODULE LsmTree ------------------------------
(***************************************************************************)
(* The data of ClomDB's log-structured merge tree: tables (a memtable, an  *)
(* SSTable, a write batch), levels of SSTable files, how a key is looked   *)
(* up in them, and how two levels are merged by a compaction.              *)
(*                                                                         *)
(* A key is an integer: the code only compares keys, by a total order. The *)
(* bytes of a value are a model value. A level is a vector of files whose  *)
(* order is that of their numbers (a flush appends the next number, a      *)
(* compaction its outputs in order, the manifest keeps the order), so a    *)
(* level is the set of its file numbers.                                   *)
(***************************************************************************)
EXTENDS Integers, FiniteSets, FiniteSetsExt

CONSTANTS
    Keys,        \* the keys
    Values,      \* the values a key can be given
    Tombstone,   \* a delete marker; also what a key that is not found reads as
    kMaxLevels,  \* number of levels; the last one is kMaxLevels - 1
    MaxFile      \* bound: the largest SSTable file number

ASSUME TreeAssumption ==
    /\ Keys \subseteq Int
    /\ Tombstone \notin Values
    /\ kMaxLevels \in Nat /\ kMaxLevels >= 2
    /\ MaxFile \in Nat

Entries   == Values \cup {Tombstone}
Table     == UNION {[D -> Entries] : D \in SUBSET Keys}
Levels    == 0 .. kMaxLevels - 1
LastLevel == kMaxLevels - 1
FileNums  == 1 .. MaxFile

\* No entries. As the content of a file number: there is no such file, or no complete table in it.
EmptyTable == [k \in {} |-> Tombstone]

NoFiles == [l \in Levels |-> {}]

(***************************************************************************)
(* Inserting the entries of table new into the std::map old: an entry for  *)
(* a key that is already there is overwritten.                             *)
(***************************************************************************)
Overlay(new, old) ==
    [k \in DOMAIN new \cup DOMAIN old |-> IF k \in DOMAIN new THEN new[k] ELSE old[k]]

(***************************************************************************)
(* The files of S whose table has an entry for k, live or deleted. The     *)
(* Bloom filter and the [min_key, max_key] range that the code tests first *)
(* never exclude a key of the table.                                       *)
(***************************************************************************)
Holders(S, sst, k) == {n \in S : k \in DOMAIN sst[n]}

\* The files referenced by the levels lv.
Live(lv) == UNION {lv[l] : l \in Levels}

(***************************************************************************)
(* Which holder of a key in level l answers. Level 0 is searched from the  *)
(* highest file number down; a deeper level in the order of its files,     *)
(* whose key ranges should not overlap.                                    *)
(***************************************************************************)
Answering(l, H) == IF l = 0 THEN Max(H) ELSE Min(H)

(***************************************************************************)
(* What the levels lv say of key k: the entry of the first file, in search *)
(* order, that has one.                                                    *)
(***************************************************************************)
Lookup(lv, sst, k) ==
    LET Having == {l \in Levels : Holders(lv[l], sst, k) # {}}
        l      == Min(Having)
    IN  IF Having = {} THEN Tombstone
        ELSE sst[Answering(l, Holders(lv[l], sst, k))][k]

\* Broken variant: the oldest file of level 0 wins.
MergedEntry_OldestWins(lv, sst, l, k) ==
    LET upper == Holders(lv[l], sst, k)
    IN  IF upper # {} THEN sst[Min(upper)][k] ELSE sst[Max(Holders(lv[l + 1], sst, k))][k]

(***************************************************************************)
(* The entry for k in the merge of level l into level l + 1: the files of  *)
(* level l + 1 are inserted first, in order, then those of level l so that *)
(* the file Get would consult first is inserted last.                      *)
(***************************************************************************)
MergedEntry(lv, sst, l, k) ==
    LET upper == Holders(lv[l], sst, k)
        lower == Holders(lv[l + 1], sst, k)
    IN  IF upper # {} THEN sst[Answering(l, upper)][k] ELSE sst[Max(lower)][k]

\* Broken variant: tombstones are dropped at every level.
MergedKeys_NoTombstones(lv, sst, l) ==
    {k \in Keys : /\ Holders(lv[l], sst, k) \cup Holders(lv[l + 1], sst, k) # {}
                  /\ MergedEntry(lv, sst, l, k) # Tombstone}

(***************************************************************************)
(* The entries a compaction of level l writes out: the merge, without its  *)
(* tombstones when level l + 1 is the last one.                            *)
(***************************************************************************)
MergedKeys(lv, sst, l) ==
    {k \in Keys : /\ Holders(lv[l], sst, k) \cup Holders(lv[l + 1], sst, k) # {}
                  /\ ~(l + 1 = LastLevel /\ MergedEntry(lv, sst, l, k) = Tombstone)}

Merge(lv, sst, l) ==
    [k \in MergedKeys(lv, sst, l) |-> MergedEntry(lv, sst, l, k)]

\* The bytes of a level; a file is as large as it has entries.
LevelBytes(lv, sst, l) ==
    SumFunction([n \in lv[l] |-> Cardinality(DOMAIN sst[n])])

=============================================================================
