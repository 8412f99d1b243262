----------------------------- MODULE TableFile -----------------------------
(***************************************************************************)
(* One table file, byte by byte: what SSTableWriter::Write puts into it,   *)
(* what SSTableReader::Open loads, and what Get and ReadAll find.          *)
(***************************************************************************)
EXTENDS Coding, Bloom

CONSTANTS
    Keys, Values,      \* byte strings
    HashFunctions,     \* what BloomHash may be on Keys
    BitsPerKey,        \* Options::bloom_bits_per_key
    kSSTableMagic,
    NotFound, Closed   \* model values

VARIABLES
    hash,    \* BloomHash
    entries, \* what the table was written from
    file,    \* the bytes on disk
    reader   \* the index and the filter in memory, or Closed

vars == <<hash, entries, file, reader>>

kPut    == 1
kDelete == 2

Entry == [type : {kPut}, key : Keys, value : Values]
           \union [type : {kDelete}, key : Keys, value : {<< >>}]

\* Slice::compare and operator<, which is also the order of the memtable's std::map.
Less(a, b) ==
    \/ \E i \in DOMAIN a \intersect DOMAIN b :
         a[i] < b[i] /\ \A j \in 1 .. i - 1 : a[j] = b[j]
    \/ Len(a) < Len(b) /\ IsPrefix(a, b)

\* Key-sorted, deduplicated.
Sorted(es) == \A i, j \in DOMAIN es : i < j => Less(es[i].key, es[j].key)

Tables == {es \in UNION {[1 .. n -> Entry] : n \in 1 .. Cardinality(Keys)} : Sorted(es)}

-----------------------------------------------------------------------------
(* SSTableWriter *)

EncodeEntry(e) ==
    <<e.type>> \o LengthPrefixed(e.key)
               \o IF e.type = kPut THEN LengthPrefixed(e.value) ELSE << >>

\* Where entry i is in the data section.
OffsetOf(es, i) == Len(FlattenSeq([j \in 1 .. i - 1 |-> EncodeEntry(es[j])]))

\* Broken variant: the offset is the one behind the entry.
EncodeIndex_After(es) ==
    FlattenSeq([i \in DOMAIN es |-> LengthPrefixed(es[i].key) \o Fixed(OffsetOf(es, i + 1), Fixed64)])

EncodeIndex(es) ==
    FlattenSeq([i \in DOMAIN es |-> LengthPrefixed(es[i].key) \o Fixed(OffsetOf(es, i), Fixed64)])

\* A byte of the filter as a number, and back.
FromBits(bs) == Number(2, [j \in 1 .. ByteBits |-> IF j - 1 \in bs THEN 1 ELSE 0])
ToBits(b)    == {j \in 0 .. ByteBits - 1 : (b \div Power(2, j)) % 2 = 1}

KeysOf(es) == {es[i].key : i \in DOMAIN es}

FilterBytes(es) == BytesFor(Cardinality(KeysOf(es)), BitsPerKey)

\* The filter's bytes, and the number of probes as the last one.
EncodeFilter(es) ==
    LET f == Build(hash, KeysOf(es), BitsPerKey)
    IN  [i \in 1 .. FilterBytes(es) |-> FromBits(f.bytes[i - 1])] \o <<f.k>>

\* The whole file.
EncodeTable(es) ==
    LET data   == FlattenSeq([i \in DOMAIN es |-> EncodeEntry(es[i])])
        index  == EncodeIndex(es)
        filter == EncodeFilter(es)
        footer == <<Len(data), Len(index), Len(data) + Len(index), Len(filter), kSSTableMagic>>
    IN  data \o index \o filter \o FlattenSeq([i \in 1 .. 5 |-> Fixed(footer[i], Fixed64)])

\* Keys and values fit behind a 32-bit length, and the numbers of an index and of a footer
\* in 64 bits.
ASSUME TableAssumption ==
    /\ \A d \in Keys \union Values : d \in Seq(Byte) /\ Len(d) < Word
    /\ HashFunctions \subseteq [Keys -> Hash]
    /\ ByteBits = GroupBits + 1 /\ BitsPerKey \in Nat /\ ProbesFor(BitsPerKey) \in Byte
    /\ LET Number64 == 0 .. Power(ByteRadix, Fixed64) - 1
       IN  /\ kSSTableMagic \in Number64
           /\ \A es \in Tables : /\ OffsetOf(es, Len(es) + 1) + Len(EncodeIndex(es)) \in Number64
                                 /\ FilterBytes(es) + 1 \in Number64
    /\ Closed \notin [index : Seq([key : Seq(Byte), offset : Nat]), filter : Seq(Byte)]

-----------------------------------------------------------------------------
(* SSTableReader *)

\* The n bytes at an offset, as fseek and fread find them. The code does not seek for no
\* bytes, and std::string throws for more than memory holds: both differ from this only for
\* a footer that SSTableWriter never wrote.
ReadAt(f, off, n) ==
    IF off + n > Len(f) THEN Malformed ELSE [ok |-> TRUE, value |-> SubSeq(f, off + 1, off + n)]

\* Broken variant: an entry that the index ends with is taken for one that is cut off.
GetIndexEntry_Strict(s) ==
    LET k == GetLengthPrefixed(s)
    IN  IF ~k.ok THEN Malformed
        ELSE IF Len(k.rest) <= Fixed64 THEN Malformed
        ELSE LET off == GetFixed(k.rest, Fixed64)
             IN  [off EXCEPT !.value = [key |-> k.value, offset |-> @]]

GetIndexEntry(s) ==
    LET k == GetLengthPrefixed(s)
    IN  IF ~k.ok THEN Malformed
        ELSE IF Len(k.rest) < Fixed64 THEN Malformed
        ELSE LET off == GetFixed(k.rest, Fixed64)
             IN  [off EXCEPT !.value = [key |-> k.value, offset |-> @]]

\* Broken variant: any footer will do.
Load_AnyMagic(f) ==
    LET footer(i) == GetFixed(Rest(f, Len(f) - (6 - i) * Fixed64), Fixed64).value
        index     == ReadAt(f, footer(1), footer(2))
        filter    == ReadAt(f, footer(3), footer(4))
    IN  IF Len(f) < 5 * Fixed64 THEN Closed
        ELSE IF ~index.ok THEN Closed
        ELSE IF ~Items(GetIndexEntry, index.value).ok \/ ~filter.ok THEN Closed
        ELSE [index |-> Items(GetIndexEntry, index.value).items, filter |-> filter.value]

\* SSTableReader::Open; Closed where it returns an error.
Load(f) ==
    LET footer(i) == GetFixed(Rest(f, Len(f) - (6 - i) * Fixed64), Fixed64).value
        index     == ReadAt(f, footer(1), footer(2))
        filter    == ReadAt(f, footer(3), footer(4))
    IN  IF Len(f) < 5 * Fixed64 THEN Closed
        ELSE IF footer(5) # kSSTableMagic THEN Closed
        ELSE IF ~index.ok THEN Closed
        ELSE IF ~Items(GetIndexEntry, index.value).ok \/ ~filter.ok THEN Closed
        ELSE [index |-> Items(GetIndexEntry, index.value).items, filter |-> filter.value]

\* The entry at the beginning of s. A value follows where the type is one of these.
GetEntry(s, valued) ==
    LET k == GetLengthPrefixed(Tail(s))
    IN  IF s = << >> THEN Malformed
        ELSE IF ~k.ok THEN Malformed
        ELSE IF Head(s) \notin valued
             THEN [k EXCEPT !.value = [type |-> Head(s), key |-> @, value |-> << >>]]
        ELSE LET v == GetLengthPrefixed(k.rest)
             IN  IF ~v.ok THEN Malformed
                 ELSE [v EXCEPT !.value = [type |-> Head(s), key |-> k.value, value |-> @]]

\* The loaded filter as MayContain sees it.
Passes(filter, key) ==
    LET n == Len(filter) - 1
    IN  \/ filter = << >>
        \/ MayContain([bytes |-> [i \in 0 .. n - 1 |-> ToBits(filter[i + 1])], k |-> filter[n + 1]],
                      n, hash[key])

\* The places from std::lower_bound on: those whose key is not less.
LowerBound(index, key) == {i \in DOMAIN index : ~Less(index[i].key, key)}

\* SSTableReader::Get: a value or a tombstone, or NotFound where it returns false.
\* It takes every entry that is not a kDelete for one with a value.
Get(key) ==
    LET from == LowerBound(reader.index, key)
        at   == reader.index[Min(from)]
        e    == GetEntry(Rest(file, at.offset), Byte \ {kDelete})
    IN  IF ~Passes(reader.filter, key) THEN NotFound
        ELSE IF from = {} THEN NotFound
        ELSE IF at.key # key \/ ~e.ok THEN NotFound
        ELSE [deleted |-> e.value.type = kDelete, value |-> e.value.value]

\* SSTableReader::ReadAll: as many entries as the index has, from the first byte on.
ReadAll ==
    LET got == Items(LAMBDA s : GetEntry(s, {kPut}), file).items
        n   == Len(reader.index)
    IN  IF Len(got) < n THEN Malformed ELSE [ok |-> TRUE, value |-> SubSeq(got, 1, n)]

-----------------------------------------------------------------------------
Init ==
    /\ hash \in HashFunctions
    /\ entries = << >> /\ file = << >> /\ reader = Closed

\* SSTableWriter::Write, which may fail or be cut off after any number of bytes.
Write(es) ==
    /\ entries = << >>   \* a file number is used once
    /\ es # << >>
    /\ entries' = es
    /\ \E n \in 0 .. Len(EncodeTable(es)) : file' = SubSeq(EncodeTable(es), 1, n)
    /\ UNCHANGED <<hash, reader>>

Open ==
    /\ reader = Closed
    /\ reader' = Load(file)
    /\ UNCHANGED <<hash, entries, file>>

Next == Open \/ \E es \in Tables : Write(es)

Spec == Init /\ [][Next]_vars

-----------------------------------------------------------------------------
(* Properties *)

\* The type invariant: the file is bytes, and every offset of a loaded index lies in the
\* data section.
TypeOK ==
    /\ hash \in HashFunctions
    /\ entries = << >> \/ entries \in Tables
    /\ file \in Seq(Byte)
    /\ reader # Closed => /\ \A i \in DOMAIN reader.index :
                               reader.index[i].offset < OffsetOf(entries, Len(entries) + 1)
                          /\ reader.filter \in Seq(Byte)

\* What Get has to return for a key of the entries, and for another.
Stored(key) ==
    LET at == {i \in DOMAIN entries : entries[i].key = key}
    IN  IF at = {} THEN NotFound
        ELSE LET e == entries[Min(at)] IN [deleted |-> e.type = kDelete, value |-> e.value]

\* An open table answers for every key as the entries it was written from do, whatever
\* the hash function makes of the filter, and hands compaction exactly those entries in
\* order (SSTableReader::Get and ReadAll against SSTableWriter::Write).
ReadsBack ==
    reader # Closed => /\ \A key \in Keys : Get(key) = Stored(key)
                       /\ ReadAll.ok
                       /\ ReadAll.value = entries

\* A table that was written to the end is opened: none of its entries, the last of the
\* index and the filter in front of the footer included, is taken for damage
\* (SSTableReader::Open against SSTableWriter::Write).
WholeIsOpened == entries # << >> /\ file = EncodeTable(entries) => Load(file) # Closed

\* A table whose writing was cut off at any byte is refused by Open, so that nothing
\* is served from it (the footer that SSTableReader::Open looks for at the end).
CutOffIsRefused == reader # Closed => file = EncodeTable(entries)

============================================================================
