----------------------------- MODULE TableProofs -----------------------------
(***************************************************************************)
(* A table that was written whole is opened, answers for every key as the  *)
(* entries it was written from do, and hands out exactly those entries.    *)
(***************************************************************************)
EXTENDS TableFile, CodingProofs, FiniteSetTheorems

-----------------------------------------------------------------------------
(* The Bloom filter, for every hash function and every set of keys *)

\* The size of a filter is positive (BloomFilter::Build, the lower limit of 64 bits).
LEMMA SomeBytes ==
    ASSUME NEW n \in Nat, NEW bits_per_key \in Nat
    PROVE  BytesFor(n, bits_per_key) \in Nat \ {0}
<1> DEFINE m == Larger(MinBits, n * bits_per_key)
<1>1. n * bits_per_key \in Nat
  OBVIOUS
<1>2. m \in Nat /\ m >= 1
  BY <1>1, BloomAssumption DEF Larger
<1> HIDE DEF m
<1>3. m + (ByteBits - 1) >= ByteBits /\ m + (ByteBits - 1) \in Nat
  BY <1>2, BloomAssumption
<1>4. (m + (ByteBits - 1)) \div ByteBits \in Nat \ {0}
  BY <1>3, BloomAssumption
<1> QED
  BY <1>4 DEF BytesFor, m

\* The place of a bit in its byte, and the byte's among n bytes.
LEMMA BitOfByte ==
    ASSUME NEW n \in Nat \ {0}, NEW p \in 0 .. n * ByteBits - 1
    PROVE  /\ p \div ByteBits \in 0 .. n - 1
           /\ p % ByteBits \in 0 .. ByteBits - 1
           /\ (p \div ByteBits) * ByteBits + (p % ByteBits) = p
<1> DEFINE q == p \div ByteBits
           r == p % ByteBits
<1>1. p \in Nat /\ p < n * ByteBits
  BY BloomAssumption
<1>2. /\ q \in Nat /\ r \in 0 .. ByteBits - 1
      /\ p = ByteBits * q + r
  BY <1>1, BloomAssumption
<1> HIDE DEF q, r
<1>3. q * ByteBits < n * ByteBits
  BY <1>1, <1>2, BloomAssumption
<1>4. q < n
  <2>1. SUFFICES ASSUME n <= q PROVE FALSE
    BY <1>2
  <2>2. n * ByteBits <= q * ByteBits
    BY <1>2, <2>1, BloomAssumption
  <2> QED
    BY <1>2, <1>3, <2>2, BloomAssumption
<1> QED
  BY <1>2, <1>4, BloomAssumption DEF q, r

\* Every probe of a filter of n bytes is at one of its bits.
LEMMA ProbeInBounds ==
    ASSUME NEW h \in Hash, NEW j \in Nat, NEW n \in Nat \ {0}
    PROVE  BitPos(h, j, n * ByteBits) \in 0 .. n * ByteBits - 1
<1>1. h \in Int /\ HashSize \in Nat \ {0} /\ n * ByteBits \in Nat \ {0}
  BY BloomAssumption DEF Hash, HashSize
<1>2. Delta(h) \in Int
  <2>1. h \div LowPart \in Int /\ h % LowPart \in Int
    BY <1>1, BloomAssumption
  <2> QED
    BY <2>1, BloomAssumption DEF Delta
<1>3. h + j * Delta(h) \in Int
  BY <1>1, <1>2
<1>4. (h + j * Delta(h)) % HashSize \in Nat
  BY <1>1, <1>3
<1> QED
  BY <1>1, <1>4 DEF BitPos

\* The filter built from a set of keys (BloomFilter::Build) never denies one of
\* them (BloomFilter::MayContain), whatever the hash function, the number of keys and
\* the bits per key; and no probe of a lookup, of a key in the set or not, reads
\* outside the filter. SSTableReader::Get relies on both: it trusts a denial.
THEOREM NoFalseNegative ==
    ASSUME NEW keys, IsFiniteSet(keys), NEW universe, keys \subseteq universe,
           NEW hashing \in [universe -> Hash], NEW bits_per_key \in Nat
    PROVE  LET f == Build(hashing, keys, bits_per_key)
               n == BytesFor(Cardinality(keys), bits_per_key)
           IN  /\ \A x \in keys : MayContain(f, n, hashing[x])
               /\ \A x \in universe, j \in 0 .. f.k - 1 :
                    BitPos(hashing[x], j, n * ByteBits) \div ByteBits \in DOMAIN f.bytes
<1> DEFINE n == BytesFor(Cardinality(keys), bits_per_key)
           k == ProbesFor(bits_per_key)
           positions == {BitPos(hashing[x], j, n * ByteBits) : x \in keys, j \in 0 .. k - 1}
           byte(i) == {b \in 0 .. ByteBits - 1 : i * ByteBits + b \in positions}
           f == Build(hashing, keys, bits_per_key)
<1>1. n \in Nat \ {0}
  BY SomeBytes, FS_CardinalityType
<1>2. f = [bytes |-> [i \in 0 .. n - 1 |-> byte(i)], k |-> k]
  BY DEF Build
<1> HIDE DEF n, k, f
<1>3. ASSUME NEW x \in universe, NEW j \in 0 .. k - 1
      PROVE  LET p == BitPos(hashing[x], j, n * ByteBits)
             IN  /\ p \in 0 .. n * ByteBits - 1
                 /\ p \div ByteBits \in 0 .. n - 1
                 /\ p % ByteBits \in 0 .. ByteBits - 1
                 /\ (p \div ByteBits) * ByteBits + (p % ByteBits) = p
  <2>1. hashing[x] \in Hash /\ j \in Nat
    OBVIOUS
  <2>2. BitPos(hashing[x], j, n * ByteBits) \in 0 .. n * ByteBits - 1
    BY <1>1, <2>1, ProbeInBounds
  <2> QED
    BY <1>1, <2>2, BitOfByte
<1>4. ASSUME NEW x \in keys, NEW j \in 0 .. k - 1
      PROVE  LET p == BitPos(hashing[x], j, n * ByteBits)
             IN  p % ByteBits \in f.bytes[p \div ByteBits]
  <2> DEFINE p == BitPos(hashing[x], j, n * ByteBits)
  <2>1. p \in positions
    OBVIOUS
  <2>2. p \div ByteBits \in 0 .. n - 1 /\ p % ByteBits \in 0 .. ByteBits - 1
        /\ (p \div ByteBits) * ByteBits + (p % ByteBits) = p
    BY <1>3
  <2>3. f.bytes[p \div ByteBits] = byte(p \div ByteBits)
    BY <1>2, <2>2
  <2> HIDE DEF p, positions
  <2>4. p % ByteBits \in byte(p \div ByteBits)
    BY <2>1, <2>2
  <2> QED
    BY <2>3, <2>4 DEF p
<1>5. f.k = k /\ DOMAIN f.bytes = 0 .. n - 1
  BY <1>2
<1>6. \A x \in keys : MayContain(f, n, hashing[x])
  BY <1>4, <1>5 DEF MayContain
<1>7. \A x \in universe, j \in 0 .. f.k - 1 :
        BitPos(hashing[x], j, n * ByteBits) \div ByteBits \in DOMAIN f.bytes
  BY <1>3, <1>5
<1> QED
  BY <1>6, <1>7 DEF f, n

-----------------------------------------------------------------------------
(* One entry of the data section, and one of the index *)

LEMMA EntryIs ==
    ASSUME NEW e \in Entry
    PROVE  /\ e = [type |-> e.type, key |-> e.key, value |-> e.value]
           /\ e.key \in Keys /\ e.key \in Seq(Byte) /\ Len(e.key) < Word
           /\ e.value \in Seq(Byte) /\ Len(e.value) < Word
           /\ e.type = kPut \/ (e.type = kDelete /\ e.value = << >>)
<1>1. 0 < Word /\ << >> \in Seq(Byte) /\ Len(<< >>) = 0
  BY Widths
<1>2. \A d \in Keys \union Values : d \in Seq(Byte) /\ Len(d) < Word
  BY TableAssumption
<1>3. CASE e \in [type : {kPut}, key : Keys, value : Values]
  BY <1>2, <1>3
<1>4. CASE e \in [type : {kDelete}, key : Keys, value : {<< >>}]
  <2>1. e.type = kDelete /\ e.key \in Keys /\ e.value = << >>
        /\ e = [type |-> e.type, key |-> e.key, value |-> e.value]
    BY <1>4
  <2> QED BY <1>1, <1>2, <2>1
<1> QED BY <1>3, <1>4 DEF Entry

LEMMA KindIs == kPut \in Byte /\ kDelete \in Byte /\ kPut # kDelete
BY Widths DEF Byte, kPut, kDelete

LEMMA EntryReadsBack ==
    ASSUME NEW e \in Entry, NEW t \in Seq(Byte), NEW valued, kPut \in valued, kDelete \notin valued
    PROVE  /\ EncodeEntry(e) \in Seq(Byte) /\ Len(EncodeEntry(e)) >= 1
           /\ GetEntry(EncodeEntry(e) \o t, valued) = [ok |-> TRUE, value |-> e, rest |-> t]
<1> DEFINE a == LengthPrefixed(e.key)
           b == IF e.type = kPut THEN LengthPrefixed(e.value) ELSE << >>
           c == <<e.type>>
           s == EncodeEntry(e) \o t
           k == GetLengthPrefixed(Tail(s))
           v == GetLengthPrefixed(k.rest)
<1>1. a \in Seq(Byte) /\ b \in Seq(Byte) /\ c \in Seq(Byte) /\ Len(c) = 1 /\ e.type \in Byte
  <2>1. a \in Seq(Byte)
    BY EntryIs, LengthPrefixedType
  <2>2. LengthPrefixed(e.value) \in Seq(Byte)
    BY EntryIs, LengthPrefixedType
  <2>3. e.type \in Byte
    BY EntryIs, KindIs
  <2> QED BY <2>1, <2>2, <2>3
<1>2. EncodeEntry(e) = (c \o a) \o b
  BY DEF EncodeEntry
<1>3. GetEntry(s, valued)
        = IF s = << >> THEN Malformed
          ELSE IF ~k.ok THEN Malformed
          ELSE IF Head(s) \notin valued
               THEN [k EXCEPT !.value = [type |-> Head(s), key |-> k.value, value |-> << >>]]
          ELSE IF ~v.ok THEN Malformed
               ELSE [v EXCEPT !.value = [type |-> Head(s), key |-> k.value, value |-> v.value]]
  BY DEF GetEntry
<1>4. b \o t \in Seq(Byte)
  <2> HIDE DEF b
  <2> QED BY <1>1, Joined
<1>5. /\ GetLengthPrefixed(a \o (b \o t)) = [ok |-> TRUE, value |-> e.key, rest |-> b \o t]
      /\ e.type = kPut => GetLengthPrefixed(b \o t) = [ok |-> TRUE, value |-> e.value, rest |-> t]
      /\ e.type # kPut => b \o t = t
  <2>1. GetLengthPrefixed(a \o (b \o t)) = [ok |-> TRUE, value |-> e.key, rest |-> b \o t]
    <3> HIDE DEF b
    <3> QED BY <1>4, EntryIs, LengthPrefixedReadsBack
  <2>2. GetLengthPrefixed(LengthPrefixed(e.value) \o t) = [ok |-> TRUE, value |-> e.value, rest |-> t]
    BY EntryIs, LengthPrefixedReadsBack
  <2>3. << >> \o t = t
    BY ConcatEmptySeq
  <2> QED BY <2>1, <2>2, <2>3
<1>6. /\ c \o a \in Seq(Byte) /\ (c \o a) \o b \in Seq(Byte) /\ Len((c \o a) \o b) >= 1
      /\ a \o (b \o t) \in Seq(Byte) /\ s = c \o (a \o (b \o t))
  <2> HIDE DEF a, b, c
  <2>1. c \o a \in Seq(Byte) /\ Len(c \o a) = Len(c) + Len(a) /\ Len(a) \in Nat /\ Len(b) \in Nat
    BY <1>1, Joined
  <2>2. /\ (c \o a) \o b \in Seq(Byte) /\ Len((c \o a) \o b) = Len(c \o a) + Len(b)
        /\ Associate(c \o a, b, t)
    BY <1>1, <2>1, Joined
  <2>3. a \o (b \o t) \in Seq(Byte) /\ Associate(c, a, b \o t)
    BY <1>1, <1>4, Joined
  <2>4. s = c \o (a \o (b \o t))
    BY <1>2, <2>2, <2>3 DEF Associate
  <2>5. Len((c \o a) \o b) >= 1
    BY <1>1, <2>1, <2>2
  <2> QED BY <2>1, <2>2, <2>3, <2>4, <2>5
<1>7. Head(s) = e.type /\ Tail(s) = a \o (b \o t) /\ s # << >>
  <2> DEFINE r == a \o (b \o t)
  <2>1. r \in Seq(Byte) /\ s = <<e.type>> \o r
    BY <1>6
  <2> HIDE DEF r, s
  <2>2. Head(s) = e.type /\ Tail(s) = r /\ Len(s) = 1 + Len(r) /\ Len(r) \in Nat
    BY <1>1, <2>1, HeadAndTail, LenProperties
  <2>3. Len(s) # 0
    BY <2>2
  <2>4. s # << >>
    BY <2>3
  <2> QED BY <2>2, <2>4 DEF r
<1> HIDE DEF a, b, s
<1>8. k = [ok |-> TRUE, value |-> e.key, rest |-> b \o t]
  BY <1>5, <1>7
<1> HIDE DEF k
<1>9. CASE e.type = kPut
  <2>1. v = [ok |-> TRUE, value |-> e.value, rest |-> t]
    BY <1>5, <1>8, <1>9
  <2> HIDE DEF v
  <2>2. GetEntry(s, valued) = [v EXCEPT !.value = [type |-> e.type, key |-> k.value, value |-> v.value]]
    BY <1>3, <1>7, <1>8, <1>9, <2>1
  <2>3. GetEntry(s, valued)
          = [ok |-> TRUE, value |-> [type |-> e.type, key |-> e.key, value |-> e.value], rest |-> t]
    BY <1>8, <2>1, <2>2
  <2>4. GetEntry(s, valued) = [ok |-> TRUE, value |-> e, rest |-> t]
    BY <2>3, EntryIs
  <2> QED BY <1>2, <1>6, <2>4 DEF s
<1>10. CASE e.type # kPut
  <2>1. e.type = kDelete /\ e.value = << >>
    BY <1>10, EntryIs
  <2>2. GetEntry(s, valued) = [k EXCEPT !.value = [type |-> e.type, key |-> k.value, value |-> << >>]]
    BY <1>3, <1>7, <1>8, <2>1
  <2>3. GetEntry(s, valued)
          = [ok |-> TRUE, value |-> [type |-> e.type, key |-> e.key, value |-> e.value], rest |-> t]
    BY <1>5, <1>8, <1>10, <2>1, <2>2
  <2>4. GetEntry(s, valued) = [ok |-> TRUE, value |-> e, rest |-> t]
    BY <2>3, EntryIs
  <2> QED BY <1>2, <1>6, <2>4 DEF s
<1> QED BY <1>9, <1>10

\* What is taken for an entry has bytes for a key and leaves bytes.
AnyEntry == [type : Byte, key : Seq(Byte), value : Seq(Byte)]

LEMMA GetEntryIs ==
    ASSUME NEW s \in Seq(Byte), NEW valued, GetEntry(s, valued).ok
    PROVE  GetEntry(s, valued).value \in AnyEntry /\ GetEntry(s, valued).rest \in Seq(Byte)
<1> DEFINE g == GetEntry(s, valued)
           k == GetLengthPrefixed(Tail(s))
           v == GetLengthPrefixed(k.rest)
           bare == [k EXCEPT !.value = [type |-> Head(s), key |-> k.value, value |-> << >>]]
           full == [v EXCEPT !.value = [type |-> Head(s), key |-> k.value, value |-> v.value]]
<1>1. g = IF s = << >> THEN Malformed
          ELSE IF ~k.ok THEN Malformed
          ELSE IF Head(s) \notin valued THEN bare
          ELSE IF ~v.ok THEN Malformed ELSE full
  BY DEF GetEntry
<1>2. Malformed.ok = FALSE /\ g.ok
  BY DEF Malformed
<1>3. s # << >> => Tail(s) \in Seq(Byte) /\ Head(s) \in Byte
  OBVIOUS
<1>4. s # << >> /\ k.ok => k.value \in Seq(Byte) /\ k.rest \in Seq(Byte)
  BY <1>3, GetLengthPrefixedIs
<1>5. s # << >> /\ k.ok /\ v.ok => v.value \in Seq(Byte) /\ v.rest \in Seq(Byte)
  BY <1>4, GetLengthPrefixedIs
<1>6. k = Malformed \/ DOMAIN k = {"ok", "value", "rest"}
  BY DEF GetLengthPrefixed, Parsed
<1>7. v = Malformed \/ DOMAIN v = {"ok", "value", "rest"}
  BY DEF GetLengthPrefixed, Parsed
<1> HIDE DEF k, v, g
<1>8. k.ok => bare.value = [type |-> Head(s), key |-> k.value, value |-> << >>] /\ bare.rest = k.rest
  BY <1>2, <1>6
<1>9. v.ok => full.value = [type |-> Head(s), key |-> k.value, value |-> v.value] /\ full.rest = v.rest
  BY <1>2, <1>7
<1> HIDE DEF bare, full
<1>10. s # << >> /\ ((k.ok /\ g = bare) \/ (k.ok /\ v.ok /\ g = full))
  BY <1>1, <1>2
<1>11. CASE k.ok /\ g = bare
  <2>1. << >> \in Seq(Byte) /\ k.value \in Seq(Byte) /\ k.rest \in Seq(Byte) /\ Head(s) \in Byte
    BY <1>3, <1>4, <1>10, <1>11
  <2>2. [type |-> Head(s), key |-> k.value, value |-> << >>] \in AnyEntry
    BY <2>1 DEF AnyEntry
  <2>3. g.value \in AnyEntry /\ g.rest \in Seq(Byte)
    BY <1>8, <1>11, <2>1, <2>2
  <2> QED BY <2>3 DEF g
<1>12. CASE k.ok /\ v.ok /\ g = full
  BY <1>3, <1>4, <1>5, <1>9, <1>10, <1>12 DEF AnyEntry, g
<1> QED BY <1>10, <1>11, <1>12

Number64 == 0 .. Power(ByteRadix, Fixed64) - 1

LEMMA SmallerFits ==
    ASSUME NEW a \in Nat, NEW b \in Number64, a <= b
    PROVE  a \in Number64
<1>1. Power(ByteRadix, Fixed64) \in Nat
  BY Widths, PowerIs
<1> QED BY <1>1 DEF Number64

AnyIndexEntry == [key : Seq(Byte), offset : Nat]

EncodeIndexEntry(key, offset) == LengthPrefixed(key) \o Fixed(offset, Fixed64)

LEMMA IndexEntryReadsBack ==
    ASSUME NEW key \in Seq(Byte), Len(key) < Word, NEW offset \in Number64, NEW t \in Seq(Byte)
    PROVE  LET s == EncodeIndexEntry(key, offset)
           IN  /\ s \in Seq(Byte) /\ Len(s) >= 1
               /\ GetIndexEntry(s \o t)
                    = [ok |-> TRUE, value |-> [key |-> key, offset |-> offset], rest |-> t]
<1> DEFINE a == LengthPrefixed(key)
           b == Fixed(offset, Fixed64)
           s == (a \o b) \o t
           k == GetLengthPrefixed(s)
           off == GetFixed(k.rest, Fixed64)
<1>0. Fixed64 \in Nat /\ Fixed64 >= 1 /\ offset \in Nat
  BY Widths DEF Number64
<1>1. a \in Seq(Byte) /\ b \in Seq(Byte) /\ Len(b) = Fixed64
  BY <1>0, LengthPrefixedType, FixedType
<1>2. GetFixed(b \o t, Fixed64) = [ok |-> TRUE, value |-> offset, rest |-> t]
  BY <1>0, FixedReadsBack DEF Number64
<1>3. b \o t \in Seq(Byte) /\ Len(b \o t) = Fixed64 + Len(t) /\ Len(t) \in Nat
  <2> HIDE DEF b
  <2> QED BY <1>1, Joined
<1>4. GetLengthPrefixed(a \o (b \o t)) = [ok |-> TRUE, value |-> key, rest |-> b \o t]
  <2> HIDE DEF b
  <2> QED BY <1>3, LengthPrefixedReadsBack
<1>5. GetIndexEntry(s) = IF ~k.ok THEN Malformed
                         ELSE IF Len(k.rest) < Fixed64 THEN Malformed
                         ELSE [off EXCEPT !.value = [key |-> k.value, offset |-> off.value]]
  BY DEF GetIndexEntry
<1> HIDE DEF a, b
<1>6. s = a \o (b \o t) /\ a \o b \in Seq(Byte) /\ Len(a \o b) = Len(a) + Fixed64 /\ Len(a) \in Nat
  <2>1. Associate(a, b, t) /\ a \o b \in Seq(Byte) /\ Len(a \o b) = Len(a) + Len(b) /\ Len(a) \in Nat
    BY <1>1, Joined
  <2> QED BY <1>1, <2>1 DEF Associate
<1> HIDE DEF s
<1>7. k = [ok |-> TRUE, value |-> key, rest |-> b \o t]
  BY <1>4, <1>6
<1> HIDE DEF k
<1>8. off = [ok |-> TRUE, value |-> offset, rest |-> t]
  BY <1>2, <1>7
<1>9. ~(Len(k.rest) < Fixed64)
  BY <1>0, <1>3, <1>7
<1> HIDE DEF off
<1>10. GetIndexEntry(s) = [off EXCEPT !.value = [key |-> k.value, offset |-> off.value]]
  BY <1>5, <1>7, <1>9
<1>11. GetIndexEntry(s) = [ok |-> TRUE, value |-> [key |-> key, offset |-> offset], rest |-> t]
  BY <1>7, <1>8, <1>10
<1>12. Len(a \o b) >= 1
  BY <1>0, <1>6
<1> QED BY <1>6, <1>11, <1>12 DEF EncodeIndexEntry, a, b, s

LEMMA GetIndexEntryIs ==
    ASSUME NEW s \in Seq(Byte), GetIndexEntry(s).ok
    PROVE  GetIndexEntry(s).value \in AnyIndexEntry /\ GetIndexEntry(s).rest \in Seq(Byte)
<1> DEFINE g == GetIndexEntry(s)
           k == GetLengthPrefixed(s)
           off == GetFixed(k.rest, Fixed64)
           full == [off EXCEPT !.value = [key |-> k.value, offset |-> off.value]]
<1>1. g = IF ~k.ok THEN Malformed ELSE IF Len(k.rest) < Fixed64 THEN Malformed ELSE full
  BY DEF GetIndexEntry
<1>2. Malformed.ok = FALSE /\ g.ok
  BY DEF Malformed
<1>3. k.ok => k.value \in Seq(Byte) /\ k.rest \in Seq(Byte)
  BY GetLengthPrefixedIs
<1>4. off = Malformed \/ DOMAIN off = {"ok", "value", "rest"}
  BY DEF GetFixed, Parsed
<1> HIDE DEF k, g
<1>5. k.ok /\ ~(Len(k.rest) < Fixed64) /\ g = full
  <2> HIDE DEF full
  <2> QED BY <1>1, <1>2
<1>6. off.ok /\ off.value \in Nat /\ off.rest \in Seq(Byte)
  <2> DEFINE r == k.rest
  <2>1. r \in Seq(Byte) /\ Fixed64 \in Nat /\ Len(r) \in Nat
    BY <1>3, <1>5, Widths, LenProperties
  <2>2. Len(r) >= Fixed64
    BY <1>5, <2>1
  <2> HIDE DEF r
  <2>3. GetFixed(r, Fixed64).ok /\ GetFixed(r, Fixed64).value \in Nat /\ GetFixed(r, Fixed64).rest \in Seq(Byte)
    BY <2>1, <2>2, GetFixedIs
  <2> QED BY <2>3 DEF r
<1> HIDE DEF off
<1>7. full.value = [key |-> k.value, offset |-> off.value] /\ full.rest = off.rest
  BY <1>2, <1>4, <1>6
<1> HIDE DEF full
<1> QED BY <1>3, <1>5, <1>6, <1>7 DEF AnyIndexEntry, g

-----------------------------------------------------------------------------
(* The loops of Open and ReadAll *)

IndexRounds(f, s, n) ==
    f = [i \in 0 .. n |-> IF i = 0 THEN Begin(s) ELSE After(f[i - 1], GetIndexEntry(f[i - 1].rest))]

EntryRounds(f, s, n) ==
    f = [i \in 0 .. n |-> IF i = 0 THEN Begin(s) ELSE After(f[i - 1], GetEntry(f[i - 1].rest, {kPut}))]

LEMMA IndexItemsAre ==
    ASSUME NEW s \in Seq(Byte)
    PROVE  \E f : IndexRounds(f, s, Len(s)) /\ Items(GetIndexEntry, s) = f[Len(s)]
<1> DEFINE V == AnyIndexEntry
           get == [x \in Seq(Byte) |-> GetIndexEntry(x)]
           N == Len(s)
<1>1. \A x \in Seq(Byte) : x # << >> /\ get[x].ok => get[x].value \in V /\ get[x].rest \in Seq(Byte)
  <2> TAKE x \in Seq(Byte)
  <2> HAVE x # << >> /\ get[x].ok
  <2> QED BY GetIndexEntryIs
<1>2. \A x \in Seq(Byte) : get[x] = GetIndexEntry(x)
  OBVIOUS
<1>3. N \in Nat
  BY LenProperties
<1> HIDE DEF V, get, N
<1>4. PICK f : Rounds(f, s, N, get) /\ \A i \in 0 .. N : f[i] \in State(V)
  BY <1>1, <1>3, RoundsExist
<1>5. IndexRounds(f, s, N)
  <2>1. \A i \in 0 .. N : i # 0 => get[f[i - 1].rest] = GetIndexEntry(f[i - 1].rest)
    <3> TAKE i \in 0 .. N
    <3> HAVE i # 0
    <3>1. i - 1 \in 0 .. N
      BY <1>3
    <3>2. f[i - 1].rest \in Seq(Byte)
      BY <1>4, <3>1 DEF State
    <3> QED BY <1>2, <3>2
  <2>2. f = [i \in 0 .. N |-> IF i = 0 THEN Begin(s) ELSE After(f[i - 1], GetIndexEntry(f[i - 1].rest))]
    BY <1>4, <2>1 DEF Rounds
  <2> QED BY <2>2 DEF IndexRounds
<1> DEFINE got == CHOOSE g : IndexRounds(g, s, N)
<1>6. IndexRounds(got, s, N)
  BY <1>5
<1>7. Items(GetIndexEntry, s) = got[N]
  BY DEF Items, IndexRounds, Begin, After, N
<1> HIDE DEF got
<1> QED BY <1>6, <1>7 DEF N

LEMMA ReadAllItemsAre ==
    ASSUME NEW s \in Seq(Byte)
    PROVE  \E f : EntryRounds(f, s, Len(s)) /\ Items(LAMBDA x : GetEntry(x, {kPut}), s) = f[Len(s)]
<1> DEFINE V == AnyEntry
           get == [x \in Seq(Byte) |-> GetEntry(x, {kPut})]
           N == Len(s)
<1>1. \A x \in Seq(Byte) : x # << >> /\ get[x].ok => get[x].value \in V /\ get[x].rest \in Seq(Byte)
  <2> TAKE x \in Seq(Byte)
  <2> HAVE x # << >> /\ get[x].ok
  <2> QED BY GetEntryIs
<1>2. \A x \in Seq(Byte) : get[x] = GetEntry(x, {kPut})
  OBVIOUS
<1>3. N \in Nat
  BY LenProperties
<1> HIDE DEF V, get, N
<1>4. PICK f : Rounds(f, s, N, get) /\ \A i \in 0 .. N : f[i] \in State(V)
  BY <1>1, <1>3, RoundsExist
<1>5. EntryRounds(f, s, N)
  <2>1. \A i \in 0 .. N : i # 0 => get[f[i - 1].rest] = GetEntry(f[i - 1].rest, {kPut})
    <3> TAKE i \in 0 .. N
    <3> HAVE i # 0
    <3>1. i - 1 \in 0 .. N
      BY <1>3
    <3>2. f[i - 1].rest \in Seq(Byte)
      BY <1>4, <3>1 DEF State
    <3> QED BY <1>2, <3>2
  <2>2. f = [i \in 0 .. N |-> IF i = 0 THEN Begin(s) ELSE After(f[i - 1], GetEntry(f[i - 1].rest, {kPut}))]
    BY <1>4, <2>1 DEF Rounds
  <2> QED BY <2>2 DEF EntryRounds
<1> DEFINE got == CHOOSE g : EntryRounds(g, s, N)
<1>6. EntryRounds(got, s, N)
  BY <1>5
<1>7. Items(LAMBDA x : GetEntry(x, {kPut}), s) = got[N]
  BY DEF Items, EntryRounds, Begin, After, N
<1> HIDE DEF got
<1> QED BY <1>6, <1>7 DEF N

-----------------------------------------------------------------------------
(* The sections of a table *)

Data(es) == FlattenSeq([i \in DOMAIN es |-> EncodeEntry(es[i])])

LEMMA TableIs ==
    ASSUME NEW es \in Tables
    PROVE  /\ Len(es) \in Nat /\ Len(es) >= 1 /\ DOMAIN es = 1 .. Len(es)
           /\ es \in Seq(Entry) /\ Sorted(es) /\ es # << >>
           /\ \A i \in 1 .. Len(es) : es[i] \in Entry
<1>1. Sorted(es) /\ \E n \in 1 .. Cardinality(Keys) : es \in [1 .. n -> Entry]
  BY DEF Tables
<1>2. PICK n \in 1 .. Cardinality(Keys) : es \in [1 .. n -> Entry]
  BY <1>1
<1>3. n \in Nat /\ n >= 1
  OBVIOUS
<1>4. es \in Seq(Entry) /\ Len(es) = n
  BY <1>2, <1>3
<1>5. es # << >>
  BY <1>3, <1>4
<1> QED BY <1>1, <1>2, <1>3, <1>4, <1>5

\* Every entry stands in the data section at its offset.
LEMMA DataIs ==
    ASSUME NEW es \in Tables
    PROVE  /\ Data(es) \in Seq(Byte) /\ Len(Data(es)) \in Nat
           /\ OffsetOf(es, Len(es) + 1) = Len(Data(es))
           /\ \A i \in 1 .. Len(es) :
                /\ OffsetOf(es, i) \in Nat /\ OffsetOf(es, i) < Len(Data(es))
                /\ \A t \in Seq(Byte) : \E y \in Seq(Byte) :
                     Rest(Data(es) \o t, OffsetOf(es, i)) = EncodeEntry(es[i]) \o y
<1> DEFINE n == Len(es)
           ss == [i \in 1 .. n |-> EncodeEntry(es[i])]
           front(i) == InFront(ss, i)
           d == Data(es)
<1>1. n \in Nat /\ DOMAIN es = 1 .. n /\ \A i \in 1 .. n : es[i] \in Entry
  BY TableIs
<1>2. d = FlattenSeq(ss)
  BY <1>1 DEF Data
<1>3. \A i \in 1 .. n + 1 : OffsetOf(es, i) = Len(front(i))
  <2> TAKE i \in 1 .. n + 1
  <2>1. \A j \in 1 .. i - 1 : ss[j] = EncodeEntry(es[j])
    BY <1>1
  <2>2. [j \in 1 .. i - 1 |-> EncodeEntry(es[j])] = [j \in 1 .. i - 1 |-> ss[j]]
    BY <2>1
  <2> QED BY <2>2 DEF OffsetOf, InFront
<1>4. ASSUME NEW i \in 1 .. n PROVE ss[i] = EncodeEntry(es[i]) /\ ss[i] \in Seq(Byte) /\ Len(ss[i]) >= 1
  <2>1. << >> \in Seq(Byte) /\ es[i] \in Entry /\ kPut \in {kPut} /\ kDelete \notin {kPut}
    BY <1>1, KindIs
  <2>2. EncodeEntry(es[i]) \in Seq(Byte) /\ Len(EncodeEntry(es[i])) >= 1
    BY <2>1, EntryReadsBack
  <2> QED BY <2>2
<1>5. ss \in [1 .. n -> Seq(Byte)]
  BY <1>4
<1> HIDE DEF ss, d
<1>6. PICK h : SuffixesOf(h, Byte, ss, n)
  BY <1>1, <1>5, SuffixesExist
<1>7. d = h[1] /\ d \in Seq(Byte) /\ Len(d) \in Nat
  BY <1>1, <1>2, <1>5, <1>6, FlattenIs, LenProperties
<1>8. \A i \in 1 .. n + 1 : front(i) \in Seq(Byte) /\ d = front(i) \o h[i] /\ h[i] \in Seq(Byte)
  <2>1. \A i \in 1 .. n + 1 : front(i) \in Seq(Byte) /\ h[1] = front(i) \o h[i]
    <3>1. Splits(h, Byte, ss, n)
      BY <1>1, <1>5, <1>6, FlattenSplit
    <3> QED BY <3>1 DEF Splits
  <2>2. \A i \in 1 .. n + 1 : h[i] \in Seq(Byte)
    BY <1>6 DEF SuffixesOf
  <2> HIDE DEF front
  <2> QED BY <1>7, <2>1, <2>2
<1> HIDE DEF front
<1>9. OffsetOf(es, n + 1) = Len(d)
  <2>1. n + 1 \in 1 .. n + 1 /\ h[n + 1] = << >>
    BY <1>1, <1>6 DEF SuffixesOf
  <2>2. d = front(n + 1) \o << >> /\ front(n + 1) \in Seq(Byte)
    BY <1>8, <2>1
  <2>3. d = front(n + 1)
    BY <2>2, ConcatEmptySeq
  <2> QED BY <1>3, <2>1, <2>3
<1>10. ASSUME NEW i \in 1 .. n
       PROVE  /\ OffsetOf(es, i) \in Nat /\ OffsetOf(es, i) < Len(d)
              /\ \A t \in Seq(Byte) : \E y \in Seq(Byte) :
                   Rest(d \o t, OffsetOf(es, i)) = EncodeEntry(es[i]) \o y
  <2> DEFINE x == front(i)
             e == ss[i]
             z == h[i + 1]
             hi == h[i]
  <2>1. i \in 1 .. n + 1 /\ i + 1 \in 1 .. n + 1
    BY <1>1
  <2>2. x \in Seq(Byte) /\ e \in Seq(Byte) /\ z \in Seq(Byte) /\ Len(e) >= 1 /\ d = x \o hi
        /\ OffsetOf(es, i) = Len(x) /\ e = EncodeEntry(es[i]) /\ hi \in Seq(Byte)
    BY <1>3, <1>4, <1>8, <2>1
  <2>3. hi = e \o z
    BY <1>6 DEF SuffixesOf
  <2> HIDE DEF x, e, z, hi
  <2>4. Len(hi) = Len(e) + Len(z) /\ Len(d) = Len(x) + Len(hi) /\ Len(x) \in Nat /\ Len(e) \in Nat /\ Len(z) \in Nat
    BY <2>2, <2>3, Joined
  <2>5. ASSUME NEW t \in Seq(Byte)
        PROVE  \E y \in Seq(Byte) : Rest(d \o t, OffsetOf(es, i)) = EncodeEntry(es[i]) \o y
    <3>1. hi \o t \in Seq(Byte) /\ z \o t \in Seq(Byte) /\ Associate(x, hi, t) /\ Associate(e, z, t)
      BY <2>2, Joined
    <3>2. d \o t = x \o (hi \o t) /\ hi \o t = e \o (z \o t)
      BY <2>2, <2>3, <3>1 DEF Associate
    <3>3. Rest(x \o (hi \o t), Len(x)) = hi \o t
      BY <2>2, <3>1, TakeOff
    <3> QED BY <2>2, <3>1, <3>2, <3>3
  <2>6. Len(x) < Len(d)
    BY <2>2, <2>4
  <2> QED BY <2>2, <2>4, <2>5, <2>6
<1> QED BY <1>7, <1>9, <1>10 DEF d

IndexOf(es) == [i \in DOMAIN es |-> [key |-> es[i].key, offset |-> OffsetOf(es, i)]]

\* The sections are bytes, and their sizes fit into a footer.
LEMMA IndexIs ==
    ASSUME NEW es \in Tables
    PROVE  /\ EncodeIndex(es) \in Seq(Byte) /\ Len(EncodeIndex(es)) \in Nat
           /\ Len(Data(es)) \in Number64 /\ Len(EncodeIndex(es)) \in Number64
           /\ Len(Data(es)) + Len(EncodeIndex(es)) \in Number64
           /\ IndexOf(es) \in Seq(AnyIndexEntry) /\ Len(IndexOf(es)) = Len(es)
           /\ \A i \in 1 .. Len(es) :
                IndexOf(es)[i] = [key |-> es[i].key, offset |-> OffsetOf(es, i)]
<1> DEFINE n == Len(es)
           ss == [i \in 1 .. n |-> EncodeIndexEntry(es[i].key, OffsetOf(es, i))]
           x == EncodeIndex(es)
<1>1. n \in Nat /\ DOMAIN es = 1 .. n /\ \A i \in 1 .. n : es[i] \in Entry
  BY TableIs
<1>2. ASSUME NEW i \in 1 .. n
      PROVE  /\ es[i].key \in Seq(Byte) /\ OffsetOf(es, i) \in Nat
             /\ EncodeIndexEntry(es[i].key, OffsetOf(es, i)) \in Seq(Byte)
  <2>1. es[i].key \in Seq(Byte) /\ Len(es[i].key) < Word /\ OffsetOf(es, i) \in Nat /\ Fixed64 \in Nat
    BY <1>1, EntryIs, DataIs, Widths
  <2>2. LengthPrefixed(es[i].key) \in Seq(Byte) /\ Fixed(OffsetOf(es, i), Fixed64) \in Seq(Byte)
    BY <2>1, LengthPrefixedType, FixedType
  <2> QED BY <2>1, <2>2, Joined DEF EncodeIndexEntry
<1>3. x = FlattenSeq(ss)
  BY <1>1 DEF EncodeIndex, EncodeIndexEntry
<1>4. ss \in [1 .. n -> Seq(Byte)]
  BY <1>2
<1>5. x \in Seq(Byte) /\ Len(x) \in Nat
  <2> HIDE DEF ss
  <2> QED BY <1>1, <1>3, <1>4, PartsOf
<1>6. Len(Data(es)) \in Nat /\ Len(Data(es)) + Len(x) \in Number64
  BY DataIs, TableAssumption DEF Number64
<1>7. IndexOf(es) \in Seq(AnyIndexEntry) /\ Len(IndexOf(es)) = n
  <2>1. \A i \in 1 .. n : [key |-> es[i].key, offset |-> OffsetOf(es, i)] \in AnyIndexEntry
    BY <1>2 DEF AnyIndexEntry
  <2>2. IndexOf(es) \in [1 .. n -> AnyIndexEntry]
    BY <1>1, <2>1 DEF IndexOf
  <2> QED BY <1>1, <2>2
<1>8. \A i \in 1 .. n : IndexOf(es)[i] = [key |-> es[i].key, offset |-> OffsetOf(es, i)]
  BY <1>1 DEF IndexOf
<1> HIDE DEF x
<1>9. Len(Data(es)) \in Number64 /\ Len(x) \in Number64
  <2>1. Len(Data(es)) <= Len(Data(es)) + Len(x) /\ Len(x) <= Len(Data(es)) + Len(x)
    BY <1>5, <1>6
  <2> QED BY <1>5, <1>6, <2>1, SmallerFits
<1> QED BY <1>5, <1>6, <1>7, <1>8, <1>9 DEF x

LEMMA IndexReadsBack ==
    ASSUME NEW es \in Tables
    PROVE  Items(GetIndexEntry, EncodeIndex(es)) = [items |-> IndexOf(es), ok |-> TRUE, rest |-> << >>]
<1> DEFINE n == Len(es)
           ss == [i \in 1 .. n |-> EncodeIndexEntry(es[i].key, OffsetOf(es, i))]
           s == EncodeIndex(es)
           xs == IndexOf(es)
<1>1. n \in Nat /\ DOMAIN es = 1 .. n /\ \A i \in 1 .. n : es[i] \in Entry
  BY TableIs
<1>2. s = FlattenSeq(ss)
  BY <1>1 DEF EncodeIndex, EncodeIndexEntry
<1>3. << >> \in Seq(Byte)
  OBVIOUS
<1>4. \A i \in 1 .. n : es[i].key \in Seq(Byte) /\ Len(es[i].key) < Word /\ OffsetOf(es, i) \in Number64
  <2> TAKE i \in 1 .. n
  <2>1. es[i].key \in Seq(Byte) /\ Len(es[i].key) < Word
    BY <1>1, EntryIs
  <2>2. OffsetOf(es, i) \in Nat /\ OffsetOf(es, i) < Len(Data(es)) /\ Len(Data(es)) \in Number64
    BY DataIs, IndexIs
  <2>3. OffsetOf(es, i) <= Len(Data(es))
    BY <2>2, DataIs
  <2> QED BY <2>1, <2>2, <2>3, SmallerFits
<1>5. ASSUME NEW i \in 1 .. n
      PROVE  /\ ss[i] = EncodeIndexEntry(es[i].key, OffsetOf(es, i))
             /\ ss[i] \in Seq(Byte) /\ 1 <= Len(ss[i])
  <2>1. EncodeIndexEntry(es[i].key, OffsetOf(es, i)) \in Seq(Byte)
        /\ Len(EncodeIndexEntry(es[i].key, OffsetOf(es, i))) >= 1
    BY <1>3, <1>4, IndexEntryReadsBack
  <2>2. Len(EncodeIndexEntry(es[i].key, OffsetOf(es, i))) \in Nat
    BY <2>1, LenProperties
  <2> QED BY <2>1, <2>2
<1>6. ss \in [1 .. n -> Seq(Byte)]
  BY <1>5
<1>7. s \in Seq(Byte) /\ Len(s) \in Nat
  BY IndexIs
<1>8. xs \in Seq(AnyIndexEntry) /\ Len(xs) = n
      /\ \A i \in 1 .. n : xs[i] = [key |-> es[i].key, offset |-> OffsetOf(es, i)]
  BY IndexIs
<1> HIDE DEF ss, s, xs
<1>9. PICK f : IndexRounds(f, s, Len(s)) /\ Items(GetIndexEntry, s) = f[Len(s)]
  BY <1>7, IndexItemsAre
<1> DEFINE N == Len(s)
           G == [i \in Nat |-> GetIndexEntry(f[i - 1].rest)]
<1>10. \A i \in 0 .. N : f[i] = IF i = 0 THEN Begin(s) ELSE After(f[i - 1], GetIndexEntry(f[i - 1].rest))
  BY <1>9 DEF IndexRounds
<1>11. f[0] = Begin(s) /\ \A i \in 1 .. N : f[i] = After(f[i - 1], G[i])
  BY <1>7, <1>10
<1>12. s = FlattenSeq(ss) \o << >>
  BY <1>2, <1>7, ConcatEmptySeq
<1>13. Gives(xs, ss, f, G)
  <2> SUFFICES ASSUME NEW i \in 1 .. n, NEW y \in Seq(Byte), f[i - 1].rest = ss[i] \o y
               PROVE  G[i] = [ok |-> TRUE, value |-> xs[i], rest |-> y]
    BY <1>8 DEF Gives
  <2>0. i \in Nat
    BY <1>1
  <2>1. G[i] = GetIndexEntry(f[i - 1].rest)
    BY <2>0
  <2> HIDE DEF G
  <2>2. G[i] = GetIndexEntry(EncodeIndexEntry(es[i].key, OffsetOf(es, i)) \o y)
    BY <1>5, <2>1
  <2>3. G[i] = [ok |-> TRUE, value |-> [key |-> es[i].key, offset |-> OffsetOf(es, i)], rest |-> y]
    BY <1>4, <2>2, IndexEntryReadsBack
  <2> QED BY <1>8, <2>3
<1> HIDE DEF G
<1>14. Loop(xs, ss, << >>, s, f, G)
  BY <1>3, <1>5, <1>6, <1>8, <1>11, <1>12, <1>13 DEF Loop
<1>15. f[Len(xs)] = [items |-> xs, ok |-> TRUE, rest |-> << >>] /\ f[N] = f[Len(xs)]
  BY <1>8, <1>14, LoopFinds
<1> QED BY <1>9, <1>15 DEF s, xs

\* A byte of the filter: a set of bits is read back from the number that stands for it.
LEMMA BitsReadBack ==
    ASSUME NEW bs, bs \subseteq 0 .. ByteBits - 1
    PROVE  FromBits(bs) \in Byte /\ ToBits(FromBits(bs)) = bs
<1> DEFINE ds == [j \in 1 .. ByteBits |-> IF j - 1 \in bs THEN 1 ELSE 0]
           v == FromBits(bs)
<1>1. ByteBits \in Nat /\ 2 \in Nat \ {0} /\ Len(ds) = ByteBits
      /\ \A j \in 1 .. ByteBits : ds[j] \in 0 .. 2 - 1
  BY BloomAssumption
<1>2. v = Number(2, ds)
  BY DEF FromBits
<1>3. \A j \in 1 .. ByteBits : ds[j] = 1 <=> j - 1 \in bs
  OBVIOUS
<1> HIDE DEF ds, v
<1>4. v \in 0 .. Power(2, ByteBits) - 1
  BY <1>1, <1>2, NumberBound
<1>5. Power(2, ByteBits) = ByteRadix
  <2>1. ByteBits = GroupBits + 1 /\ GroupBits \in Nat
    BY TableAssumption, Widths
  <2>2. Power(2, GroupBits + 1) = 2 * Power(2, GroupBits)
    BY <2>1, PowerIs
  <2> QED BY <2>1, <2>2 DEF ByteRadix, Radix
<1>6. \A j \in 1 .. ByteBits : (v \div Power(2, j - 1)) % 2 = ds[j]
  BY <1>1, <1>2, NumberDigits
<1>7. \A j \in 0 .. ByteBits - 1 : (v \div Power(2, j)) % 2 = 1 <=> j \in bs
  <2> TAKE j \in 0 .. ByteBits - 1
  <2>1. j + 1 \in 1 .. ByteBits /\ (j + 1) - 1 = j
    BY <1>1
  <2> QED BY <1>3, <1>6, <2>1
<1>8. ToBits(v) = bs
  BY <1>7 DEF ToBits
<1> QED BY <1>4, <1>5, <1>8 DEF Byte, v

LEMMA KeysFinite ==
    ASSUME NEW es \in Tables
    PROVE  IsFiniteSet(KeysOf(es)) /\ KeysOf(es) \subseteq Keys
<1> DEFINE D == 1 .. Len(es)
           key == [i \in D |-> es[i].key]
           range == {key[i] : i \in D}
<1>1. Len(es) \in Nat /\ DOMAIN es = D /\ \A i \in D : es[i].key \in Keys
  BY TableIs, EntryIs
<1>2. IsFiniteSet(D)
  BY <1>1, FS_Interval
<1>3. KeysOf(es) = range
  BY <1>1 DEF KeysOf
<1>4. key \in [D -> range] /\ \A y \in range : \E i \in D : key[i] = y
  OBVIOUS
<1>5. range \subseteq Keys
  BY <1>1
<1> HIDE DEF D, key, range
<1>6. key \in Surjection(D, range)
  BY <1>4 DEF Surjection
<1>7. IsFiniteSet(range)
  BY <1>2, <1>6, FS_Surjection
<1> QED BY <1>3, <1>5, <1>7

\* The filter is bytes, and the number of probes is behind its bits.
LEMMA FilterIs ==
    ASSUME NEW es \in Tables, hash \in HashFunctions
    PROVE  LET f == EncodeFilter(es)
               n == FilterBytes(es)
           IN  /\ n \in Nat \ {0} /\ f \in Seq(Byte) /\ Len(f) = n + 1 /\ Len(f) \in Number64
               /\ f[n + 1] = ProbesFor(BitsPerKey)
               /\ \A i \in 0 .. n - 1 : ToBits(f[i + 1]) = Build(hash, KeysOf(es), BitsPerKey).bytes[i]
<1> DEFINE n == FilterBytes(es)
           k == ProbesFor(BitsPerKey)
           b == Build(hash, KeysOf(es), BitsPerKey)
           bits == [i \in 1 .. n |-> FromBits(b.bytes[i - 1])]
           f == EncodeFilter(es)
<1>1. IsFiniteSet(KeysOf(es)) /\ Cardinality(KeysOf(es)) \in Nat
  BY KeysFinite, FS_CardinalityType
<1>2. BitsPerKey \in Nat /\ k \in Byte
  BY TableAssumption
<1>3. n \in Nat \ {0}
  BY <1>1, <1>2, SomeBytes DEF FilterBytes
<1>4. /\ b.k = k
      /\ \A i \in 0 .. n - 1 : b.bytes[i] \subseteq 0 .. ByteBits - 1
  BY DEF Build, FilterBytes
<1>5. f = bits \o <<k>>
  BY <1>4 DEF EncodeFilter
<1> HIDE DEF n, b, k, f
<1>6. ASSUME NEW i \in 0 .. n - 1
      PROVE  /\ i + 1 \in 1 .. n /\ bits[i + 1] = FromBits(b.bytes[i])
             /\ bits[i + 1] \in Byte /\ ToBits(bits[i + 1]) = b.bytes[i]
  <2>1. i + 1 \in 1 .. n /\ (i + 1) - 1 = i
    BY <1>3
  <2>2. bits[i + 1] = FromBits(b.bytes[i])
    BY <2>1
  <2> HIDE DEF bits
  <2> QED BY <1>4, <2>1, <2>2, BitsReadBack
<1>7. bits \in Seq(Byte) /\ Len(bits) = n
  <2>1. ASSUME NEW j \in 1 .. n PROVE bits[j] \in Byte
    <3>1. j - 1 \in 0 .. n - 1 /\ (j - 1) + 1 = j
      BY <1>3
    <3> HIDE DEF bits
    <3> QED BY <1>6, <3>1
  <2>2. bits \in [1 .. n -> Byte]
    BY <2>1
  <2> HIDE DEF bits
  <2> QED BY <1>3, <2>2
<1> HIDE DEF bits
<1>8. <<k>> \in Seq(Byte) /\ Len(<<k>>) = 1 /\ <<k>>[1] = k
  BY <1>2
<1> DEFINE kk == <<k>>
<1> HIDE DEF kk
<1>9. /\ bits \o kk \in Seq(Byte) /\ Len(bits \o kk) = n + 1
      /\ \A i \in 1 .. n + 1 : (bits \o kk)[i] = IF i <= n THEN bits[i] ELSE kk[i - n]
  <2>1. kk \in Seq(Byte) /\ Len(kk) = 1
    BY <1>8 DEF kk
  <2>2. /\ bits \o kk \in Seq(Byte) /\ Len(bits \o kk) = Len(bits) + Len(kk)
        /\ \A i \in 1 .. Len(bits) + Len(kk) : (bits \o kk)[i] = IF i <= Len(bits) THEN bits[i] ELSE kk[i - Len(bits)]
    BY <1>7, <2>1, ConcatProperties
  <2> QED BY <1>7, <2>1, <2>2
<1>10. f = bits \o kk
  BY <1>5 DEF kk
<1>11. f[n + 1] = k
  <2>1. n + 1 \in 1 .. n + 1 /\ ~(n + 1 <= n) /\ (n + 1) - n = 1
    BY <1>3
  <2> QED BY <1>8, <1>9, <1>10, <2>1 DEF kk
<1>12. ASSUME NEW i \in 0 .. n - 1 PROVE ToBits(f[i + 1]) = b.bytes[i]
  <2>1. i + 1 \in 1 .. n + 1 /\ i + 1 <= n
    BY <1>3
  <2>2. f[i + 1] = bits[i + 1]
    BY <1>9, <1>10, <2>1
  <2> QED BY <1>6, <2>2
<1>13. n + 1 \in Number64
  BY TableAssumption DEF Number64, n
<1> QED BY <1>3, <1>9, <1>10, <1>11, <1>12, <1>13 DEF f, n, b, k

-----------------------------------------------------------------------------
(* Opening a table *)

\* The footer at the end of f holds these numbers.
Footer(f, ns) ==
    /\ ~(Len(f) < 5 * Fixed64)
    /\ \A i \in 1 .. 5 : GetFixed(Rest(f, Len(f) - (6 - i) * Fixed64), Fixed64).value = ns[i]

LEMMA FooterReadsBack ==
    ASSUME NEW ns, \A i \in 1 .. 5 : ns[i] \in Number64, NEW b \in Seq(Byte)
    PROVE  LET ft == FlattenSeq([i \in 1 .. 5 |-> Fixed(ns[i], Fixed64)])
           IN  ft \in Seq(Byte) /\ Footer(b \o ft, ns)
<1> DEFINE ss == [i \in 1 .. 5 |-> Fixed(ns[i], Fixed64)]
           ft == FlattenSeq(ss)
           f == b \o ft
<1>1. Fixed64 \in Nat
  BY Widths
<1>2. ASSUME NEW i \in 1 .. 5
      PROVE  ss[i] = Fixed(ns[i], Fixed64) /\ ss[i] \in Seq(Byte) /\ Len(ss[i]) = Fixed64
  <2>1. ns[i] \in Nat
    BY DEF Number64
  <2> QED BY <1>1, <2>1, FixedType
<1>3. ss \in [1 .. 5 -> Seq(Byte)]
  BY <1>2
<1> HIDE DEF ss
<1>4. PICK h : SuffixesOf(h, Byte, ss, 5)
  <2>1. 5 \in Nat
    OBVIOUS
  <2> QED BY <1>3, <2>1, SuffixesExist
<1>5. ft = h[1] /\ ft \in Seq(Byte) /\ Splits(h, Byte, ss, 5)
  <2>1. 5 \in Nat
    OBVIOUS
  <2> QED BY <1>3, <1>4, <2>1, FlattenIs, FlattenSplit
<1>6. /\ \A i \in 1 .. 6 : h[i] \in Seq(Byte) /\ Len(h[i]) \in Nat
      /\ h[6] = << >> /\ \A i \in 1 .. 5 : i + 1 \in 1 .. 6 /\ h[i] = ss[i] \o h[i + 1]
  <2>1. 5 + 1 = 6 /\ \A i \in 1 .. 5 : i + 1 \in 1 .. 6
    OBVIOUS
  <2>2. h \in [1 .. 6 -> Seq(Byte)] /\ h[6] = << >> /\ \A i \in 1 .. 5 : h[i] = ss[i] \o h[i + 1]
    BY <1>4, <2>1 DEF SuffixesOf
  <2>3. \A i \in 1 .. 6 : h[i] \in Seq(Byte)
    BY <2>2
  <2>4. \A i \in 1 .. 6 : Len(h[i]) \in Nat
    BY <2>3, LenProperties
  <2> QED BY <2>1, <2>2, <2>3, <2>4
<1>7. \A i \in 1 .. 5 : Len(h[i]) = Fixed64 + Len(h[i + 1])
  <2> TAKE i \in 1 .. 5
  <2> DEFINE x == ss[i]
             y == h[i + 1]
  <2>1. x \in Seq(Byte) /\ y \in Seq(Byte) /\ Len(x) = Fixed64 /\ h[i] = x \o y
    BY <1>2, <1>6
  <2> HIDE DEF x, y
  <2>2. Len(x \o y) = Len(x) + Len(y)
    BY <2>1, Joined
  <2> QED BY <2>1, <2>2 DEF y
<1>8. \A i \in 1 .. 5 : Len(h[i]) = (6 - i) * Fixed64
  <2> DEFINE l == [i \in 1 .. 6 |-> Len(h[i])]
  <2>1. l[6] = 0 /\ \A i \in 1 .. 6 : l[i] \in Nat
    BY <1>6
  <2>2. \A i \in 1 .. 5 : l[i] = Fixed64 + l[i + 1]
    <3> TAKE i \in 1 .. 5
    <3>1. i \in 1 .. 6 /\ i + 1 \in 1 .. 6
      OBVIOUS
    <3>2. l[i] = Len(h[i]) /\ l[i + 1] = Len(h[i + 1])
      BY <3>1
    <3> HIDE DEF l
    <3> QED BY <1>7, <3>2
  <2>3. \A i \in 1 .. 5 : l[i] = Len(h[i])
    OBVIOUS
  <2> HIDE DEF l
  <2>4. l[5] = Fixed64 /\ l[4] = 2 * Fixed64 /\ l[3] = 3 * Fixed64 /\ l[2] = 4 * Fixed64 /\ l[1] = 5 * Fixed64
    <3>1. 5 + 1 = 6 /\ 4 + 1 = 5 /\ 3 + 1 = 4 /\ 2 + 1 = 3 /\ 1 + 1 = 2
      OBVIOUS
    <3>2. /\ l[5] = Fixed64 + l[6] /\ l[4] = Fixed64 + l[5] /\ l[3] = Fixed64 + l[4]
          /\ l[2] = Fixed64 + l[3] /\ l[1] = Fixed64 + l[2]
      BY <2>2, <3>1
    <3> QED BY <1>1, <2>1, <3>2
  <2>5. \A i \in 1 .. 5 : l[i] = (6 - i) * Fixed64
    <3> TAKE i \in 1 .. 5
    <3>1. i = 1 \/ i = 2 \/ i = 3 \/ i = 4 \/ i = 5
      OBVIOUS
    <3> QED BY <1>1, <2>4, <3>1
  <2> QED BY <2>3, <2>5
<1> HIDE DEF ft
<1>9. f \in Seq(Byte) /\ Len(f) = Len(b) + Len(ft) /\ Len(b) \in Nat
  BY <1>5, Joined
<1>10. ~(Len(f) < 5 * Fixed64)
  <2>1. Len(ft) = 5 * Fixed64
    BY <1>1, <1>5, <1>8
  <2> QED BY <1>1, <1>9, <2>1
<1>11. ASSUME NEW i \in 1 .. 5
       PROVE  GetFixed(Rest(f, Len(f) - (6 - i) * Fixed64), Fixed64).value = ns[i]
  <2> DEFINE x == InFront(ss, i)
             y == h[i]
             z == h[i + 1]
  <2>1. x \in Seq(Byte) /\ y \in Seq(Byte) /\ z \in Seq(Byte) /\ ft = x \o y /\ Len(y) = (6 - i) * Fixed64
        /\ y = Fixed(ns[i], Fixed64) \o z
    <3>1. i \in 1 .. 5 + 1 /\ i \in 1 .. 6
      OBVIOUS
    <3>2. x \in Seq(Byte) /\ h[1] = x \o y
      BY <1>5, <3>1 DEF Splits
    <3>3. y \in Seq(Byte) /\ z \in Seq(Byte) /\ y = ss[i] \o z
      BY <1>6, <3>1
    <3> QED BY <1>2, <1>5, <1>8, <3>2, <3>3
  <2> HIDE DEF x, y
  <2>2. f = b \o (x \o y) /\ Associate(b, x, y) /\ b \o x \in Seq(Byte)
    BY <2>1, Joined
  <2> DEFINE g == b \o x
  <2>3. f = g \o y /\ g \in Seq(Byte)
    BY <2>2 DEF Associate
  <2> HIDE DEF g, f
  <2>4. Rest(g \o y, Len(g)) = y /\ Len(g \o y) = Len(g) + Len(y) /\ Len(g) \in Nat /\ Len(y) \in Nat
    <3>1. g \in Seq(Byte) /\ y \in Seq(Byte)
      BY <2>1, <2>3
    <3> QED BY <3>1, TakeOff, LenProperties
  <2>5. Len(f) - (6 - i) * Fixed64 = Len(g)
    <3> DEFINE w == (6 - i) * Fixed64
    <3>1. Len(y) = w
      BY <2>1
    <3> HIDE DEF w
    <3>2. Len(f) - w = Len(g)
      BY <2>3, <2>4, <3>1
    <3> QED BY <3>2 DEF w
  <2>6. Rest(f, Len(f) - (6 - i) * Fixed64) = Fixed(ns[i], Fixed64) \o z
    BY <2>1, <2>3, <2>4, <2>5
  <2> HIDE DEF z
  <2>7. GetFixed(Fixed(ns[i], Fixed64) \o z, Fixed64) = [ok |-> TRUE, value |-> ns[i], rest |-> z]
    BY <1>1, <2>1, FixedReadsBack DEF Number64
  <2> DEFINE at == Rest(f, Len(f) - (6 - i) * Fixed64)
  <2>8. at = Fixed(ns[i], Fixed64) \o z
    BY <2>6
  <2> HIDE DEF at
  <2>9. GetFixed(at, Fixed64).value = ns[i]
    BY <2>7, <2>8
  <2> QED BY <2>9 DEF at
<1>12. Footer(f, ns)
  BY <1>10, <1>11 DEF Footer
<1> QED BY <1>5, <1>12 DEF f, ft, ss

\* A table that is there to the last byte is loaded, with its index and its filter.
Opened(es) == [index |-> IndexOf(es), filter |-> EncodeFilter(es)]

LEMMA TableLoads ==
    ASSUME NEW es \in Tables, hash \in HashFunctions
    PROVE  /\ EncodeTable(es) \in Seq(Byte) /\ Load(EncodeTable(es)) = Opened(es)
           /\ \E t \in Seq(Byte) : EncodeTable(es) = Data(es) \o t
<1> DEFINE d == Data(es)
           x == EncodeIndex(es)
           fl == EncodeFilter(es)
           ns == <<Len(d), Len(x), Len(d) + Len(x), Len(fl), kSSTableMagic>>
           ft == FlattenSeq([i \in 1 .. 5 |-> Fixed(ns[i], Fixed64)])
           f == EncodeTable(es)
<1>1. f = ((d \o x) \o fl) \o ft
  BY DEF EncodeTable, Data
<1>2. d \in Seq(Byte) /\ x \in Seq(Byte) /\ fl \in Seq(Byte)
  BY DataIs, IndexIs, FilterIs
<1>3. Items(GetIndexEntry, x) = [items |-> IndexOf(es), ok |-> TRUE, rest |-> << >>]
  BY IndexReadsBack
<1>4. /\ Len(d) \in Number64 /\ Len(x) \in Number64 /\ Len(d) + Len(x) \in Number64
      /\ Len(fl) \in Number64 /\ kSSTableMagic \in Number64
  BY IndexIs, FilterIs, TableAssumption DEF Number64
<1> HIDE DEF d, x, fl, f
<1>5. /\ ns[1] = Len(d) /\ ns[2] = Len(x) /\ ns[3] = Len(d) + Len(x) /\ ns[4] = Len(fl)
      /\ ns[5] = kSSTableMagic
  OBVIOUS
<1>6. \A i \in 1 .. 5 : ns[i] \in Number64
  <2> HIDE DEF ns
  <2> TAKE i \in 1 .. 5
  <2>1. i = 1 \/ i = 2 \/ i = 3 \/ i = 4 \/ i = 5
    OBVIOUS
  <2> QED BY <1>4, <1>5, <2>1
<1> HIDE DEF ns
<1>7. d \o x \in Seq(Byte) /\ Len(d \o x) = Len(d) + Len(x) /\ Len(d) \in Nat /\ Len(x) \in Nat
  BY <1>2, Joined
<1>8. (d \o x) \o fl \in Seq(Byte)
  BY <1>2, <1>7, Joined
<1>9. ft \in Seq(Byte) /\ Footer(f, ns)
  BY <1>1, <1>6, <1>8, FooterReadsBack
<1> HIDE DEF ft
<1>10. /\ fl \o ft \in Seq(Byte) /\ Len(fl \o ft) = Len(fl) + Len(ft) /\ Len(fl) \in Nat /\ Len(ft) \in Nat
       /\ Associate(d \o x, fl, ft)
  BY <1>2, <1>7, <1>9, Joined
<1>11. /\ x \o (fl \o ft) \in Seq(Byte) /\ Len(x \o (fl \o ft)) = Len(x) + Len(fl \o ft)
       /\ Associate(d, x, fl \o ft)
  BY <1>2, <1>10, Joined
<1>12. f = (d \o x) \o (fl \o ft) /\ f = d \o (x \o (fl \o ft))
  BY <1>1, <1>10, <1>11 DEF Associate
<1>13. f \in Seq(Byte) /\ Len(f) = Len(d) + (Len(x) + (Len(fl) + Len(ft)))
  BY <1>2, <1>10, <1>11, <1>12, Joined
<1>14. ReadAt(f, Len(d), Len(x)) = [ok |-> TRUE, value |-> x]
  <2>1. SubSeq(f, Len(d) + 1, Len(d) + Len(x)) = x
    <3> DEFINE c == fl \o ft
    <3>1. c \in Seq(Byte) /\ f = d \o (x \o c)
      BY <1>10, <1>12
    <3> HIDE DEF c
    <3> QED BY <1>2, <3>1, MiddleOf
  <2>2. ~(Len(d) + Len(x) > Len(f))
    BY <1>7, <1>10, <1>13
  <2> QED BY <2>1, <2>2 DEF ReadAt
<1>15. ReadAt(f, Len(d) + Len(x), Len(fl)) = [ok |-> TRUE, value |-> fl]
  <2>1. SubSeq(f, (Len(d) + Len(x)) + 1, (Len(d) + Len(x)) + Len(fl)) = fl
    <3> DEFINE a == d \o x
    <3>1. a \in Seq(Byte) /\ f = a \o (fl \o ft) /\ Len(a) = Len(d) + Len(x)
      BY <1>7, <1>12
    <3> HIDE DEF a
    <3>2. SubSeq(a \o (fl \o ft), Len(a) + 1, Len(a) + Len(fl)) = fl
      BY <1>2, <1>9, <3>1, MiddleOf
    <3> QED BY <3>1, <3>2
  <2>2. ~((Len(d) + Len(x)) + Len(fl) > Len(f))
    BY <1>7, <1>10, <1>13
  <2> QED BY <2>1, <2>2 DEF ReadAt
<1> DEFINE footer(i) == GetFixed(Rest(f, Len(f) - (6 - i) * Fixed64), Fixed64).value
           index     == ReadAt(f, footer(1), footer(2))
           filter    == ReadAt(f, footer(3), footer(4))
<1>16. Load(f) = IF Len(f) < 5 * Fixed64 THEN Closed
                 ELSE IF footer(5) # kSSTableMagic THEN Closed
                 ELSE IF ~index.ok THEN Closed
                 ELSE IF ~Items(GetIndexEntry, index.value).ok \/ ~filter.ok THEN Closed
                 ELSE [index |-> Items(GetIndexEntry, index.value).items, filter |-> filter.value]
  BY DEF Load
<1>17. footer(1) = Len(d) /\ footer(2) = Len(x) /\ footer(3) = Len(d) + Len(x) /\ footer(4) = Len(fl)
       /\ footer(5) = kSSTableMagic
  <2>1. 1 \in 1 .. 5 /\ 2 \in 1 .. 5 /\ 3 \in 1 .. 5 /\ 4 \in 1 .. 5 /\ 5 \in 1 .. 5
    OBVIOUS
  <2>2. \A i \in 1 .. 5 : footer(i) = ns[i]
    BY <1>9 DEF Footer
  <2> HIDE DEF footer
  <2> QED BY <1>5, <2>1, <2>2
<1> HIDE DEF footer
<1>18. index = [ok |-> TRUE, value |-> x] /\ filter = [ok |-> TRUE, value |-> fl]
  BY <1>14, <1>15, <1>17
<1> HIDE DEF index, filter
<1>19. ~(Len(f) < 5 * Fixed64)
  BY <1>9 DEF Footer
<1>20. Load(f) = [index |-> Items(GetIndexEntry, x).items, filter |-> fl]
  <2>1. index.ok /\ filter.ok /\ index.value = x /\ filter.value = fl /\ Items(GetIndexEntry, x).ok
    BY <1>3, <1>18
  <2> QED BY <1>16, <1>17, <1>19, <2>1
<1>21. Load(f) = [index |-> IndexOf(es), filter |-> fl]
  BY <1>3, <1>20
<1> QED BY <1>11, <1>12, <1>13, <1>21 DEF Opened, d, f, fl

-----------------------------------------------------------------------------
(* Reading a table that is open *)

\* The filter, as it is loaded, does not deny a key of the table.
LEMMA FilterPasses ==
    ASSUME NEW es \in Tables, hash \in HashFunctions, NEW key \in KeysOf(es)
    PROVE  Passes(EncodeFilter(es), key)
<1> DEFINE f == EncodeFilter(es)
           n == Len(f) - 1
           m == FilterBytes(es)
           keys == KeysOf(es)
           b == Build(hash, keys, BitsPerKey)
           loaded == [bytes |-> [i \in 0 .. n - 1 |-> ToBits(f[i + 1])], k |-> f[n + 1]]
<1>1. IsFiniteSet(keys) /\ keys \subseteq Keys
  BY KeysFinite
<1>2. hash \in [Keys -> Hash] /\ BitsPerKey \in Nat
  BY TableAssumption
<1>3. /\ m \in Nat \ {0} /\ Len(f) = m + 1 /\ f[m + 1] = ProbesFor(BitsPerKey)
      /\ \A i \in 0 .. m - 1 : ToBits(f[i + 1]) = b.bytes[i]
  BY FilterIs
<1>4. m = BytesFor(Cardinality(keys), BitsPerKey)
  BY DEF FilterBytes
<1>5. b = [bytes |-> [i \in 0 .. m - 1 |-> b.bytes[i]], k |-> ProbesFor(BitsPerKey)]
  <2> DEFINE positions == {BitPos(hash[x], p, m * ByteBits) : x \in keys, p \in 0 .. ProbesFor(BitsPerKey) - 1}
             byte(i) == {c \in 0 .. ByteBits - 1 : i * ByteBits + c \in positions}
             bytes == [i \in 0 .. m - 1 |-> byte(i)]
  <2>1. b = [bytes |-> bytes, k |-> ProbesFor(BitsPerKey)]
    BY DEF Build, FilterBytes
  <2>2. bytes = [i \in 0 .. m - 1 |-> bytes[i]]
    OBVIOUS
  <2> HIDE DEF bytes, b, m
  <2>3. b.bytes = bytes
    BY <2>1
  <2> QED BY <2>1, <2>2, <2>3
<1>6. Passes(f, key) <=> f = << >> \/ MayContain(loaded, n, hash[key])
  BY DEF Passes
<1> HIDE DEF f, m, b, keys
<1>7. n = m
  BY <1>3
<1>8. loaded = b
  <2>1. [i \in 0 .. m - 1 |-> ToBits(f[i + 1])] = [i \in 0 .. m - 1 |-> b.bytes[i]]
    BY <1>3
  <2> HIDE DEF n
  <2>2. loaded = [bytes |-> [i \in 0 .. m - 1 |-> b.bytes[i]], k |-> ProbesFor(BitsPerKey)]
    BY <1>3, <1>7, <2>1
  <2> HIDE DEF loaded
  <2> QED BY <1>5, <2>2
<1> HIDE DEF loaded, n
<1>9. \A x \in keys : MayContain(Build(hash, keys, BitsPerKey), BytesFor(Cardinality(keys), BitsPerKey), hash[x])
  BY <1>1, <1>2, NoFalseNegative
<1>10. MayContain(b, m, hash[key])
  BY <1>4, <1>9 DEF b, keys
<1> QED BY <1>6, <1>7, <1>8, <1>10 DEF f

LEMMA NotLessItself ==
    ASSUME NEW a \in Seq(Byte)
    PROVE  ~Less(a, a)
<1>1. Len(a) \in Nat /\ DOMAIN a = 1 .. Len(a) /\ \A i \in 1 .. Len(a) : a[i] \in Byte
  BY LenProperties, ElementOfSeq
<1>2. ~(Len(a) < Len(a))
  BY <1>1
<1>3. \A i \in DOMAIN a : ~(a[i] < a[i])
  <2>1. \A x \in Byte : ~(x < x)
    BY Widths DEF Byte
  <2> QED BY <1>1, <2>1
<1> QED BY <1>2, <1>3 DEF Less

\* std::lower_bound finds the place of a key that is there, and no other place has it.
LEMMA BoundIs ==
    ASSUME NEW es \in Tables, NEW j \in 1 .. Len(es)
    PROVE  /\ LowerBound(IndexOf(es), es[j].key) # {} /\ Min(LowerBound(IndexOf(es), es[j].key)) = j
           /\ \A i \in 1 .. Len(es) : es[i].key = es[j].key => i = j
<1> DEFINE n == Len(es)
           key == es[j].key
           from == LowerBound(IndexOf(es), key)
<1>1. n \in Nat /\ DOMAIN es = 1 .. n /\ Sorted(es) /\ key \in Seq(Byte)
  BY TableIs, EntryIs
<1>2. ~Less(key, key)
  BY <1>1, NotLessItself
<1>3. from = {i \in 1 .. n : ~Less(es[i].key, key)}
  <2>1. DOMAIN IndexOf(es) = 1 .. n /\ \A i \in 1 .. n : IndexOf(es)[i].key = es[i].key
    BY <1>1 DEF IndexOf
  <2> QED BY <2>1 DEF LowerBound
<1>4. \A i \in 1 .. n : i < j => Less(es[i].key, key)
  BY <1>1 DEF Sorted
<1>5. j \in from /\ from \subseteq Nat /\ \A i \in from : j <= i
  BY <1>1, <1>2, <1>3, <1>4
<1> HIDE DEF from
<1>6. Min(from) \in from /\ \A i \in from : Min(from) <= i
  BY <1>5, LeastIs
<1>7. Min(from) = j
  <2>1. Min(from) \in Nat /\ Min(from) <= j /\ j <= Min(from)
    BY <1>5, <1>6
  <2> QED BY <2>1
<1>8. \A i \in 1 .. n : es[i].key = key => i = j
  <2> TAKE i \in 1 .. n
  <2> HAVE es[i].key = key
  <2>1. ~(i < j)
    BY <1>2, <1>4
  <2>2. ~(j < i)
    BY <1>1, <1>2 DEF Sorted
  <2> QED BY <1>1, <2>1, <2>2
<1> QED BY <1>5, <1>7, <1>8 DEF from

\* A table that is open on all of its bytes.
WholeTable ==
    /\ entries \in Tables /\ hash \in HashFunctions
    /\ file = EncodeTable(entries) /\ reader = Opened(entries)

LEMMA GetIsStored ==
    ASSUME WholeTable, NEW key \in Keys
    PROVE  Get(key) = Stored(key)
<1> DEFINE n == Len(entries)
           from == LowerBound(reader.index, key)
           at == reader.index[Min(from)]
           e == GetEntry(Rest(file, at.offset), Byte \ {kDelete})
           where == {i \in DOMAIN entries : entries[i].key = key}
<1>0. /\ entries \in Tables /\ hash \in HashFunctions /\ file = EncodeTable(entries)
      /\ reader.index = IndexOf(entries) /\ reader.filter = EncodeFilter(entries)
  BY DEF WholeTable, Opened
<1>1. n \in Nat /\ DOMAIN entries = 1 .. n /\ \A i \in 1 .. n : entries[i] \in Entry
  BY <1>0, TableIs
<1>2. Get(key) = IF ~Passes(reader.filter, key) THEN NotFound
                 ELSE IF from = {} THEN NotFound
                 ELSE IF at.key # key \/ ~e.ok THEN NotFound
                 ELSE [deleted |-> e.value.type = kDelete, value |-> e.value.value]
  BY DEF Get
<1>3. Stored(key) = IF where = {} THEN NotFound
                    ELSE [deleted |-> entries[Min(where)].type = kDelete, value |-> entries[Min(where)].value]
  BY DEF Stored
<1>4. CASE where = {}
  <2>1. Stored(key) = NotFound
    BY <1>3, <1>4
  <2>2. ASSUME from # {} PROVE at.key # key
    <3>1. from \subseteq 1 .. n
      BY <1>0, <1>1 DEF LowerBound, IndexOf
    <3>2. Min(from) \in from
      <4>1. from \subseteq Nat
        BY <3>1
      <4> HIDE DEF from
      <4> QED BY <2>2, <4>1, LeastIs
    <3> DEFINE i == Min(from)
    <3>3. i \in 1 .. n
      BY <3>1, <3>2
    <3> HIDE DEF i
    <3>4. reader.index[i].key = entries[i].key
      <4>1. IndexOf(entries)[i] = [key |-> entries[i].key, offset |-> OffsetOf(entries, i)]
        BY <1>0, <3>3, IndexIs
      <4> QED BY <1>0, <4>1
    <3>5. entries[i].key # key
      BY <1>1, <1>4, <3>3
    <3> QED BY <3>4, <3>5 DEF i
  <2> HIDE DEF from, at, e, where
  <2> QED BY <1>2, <2>1, <2>2
<1>5. CASE where # {}
  <2>1. PICK j \in 1 .. n : entries[j].key = key
    BY <1>1, <1>5
  <2>2. from # {} /\ Min(from) = j /\ \A i \in 1 .. n : entries[i].key = key => i = j
    BY <1>0, <2>1, BoundIs
  <2>3. Min(where) = j
    <3>1. where = {j}
      BY <1>1, <2>1, <2>2
    <3>2. where \subseteq Nat
      BY <1>1
    <3> HIDE DEF where
    <3>3. Min(where) \in where
      BY <1>5, <3>2, LeastIs
    <3> QED BY <3>1, <3>3
  <2>4. at.key = key /\ at.offset = OffsetOf(entries, j)
    <3>1. IndexOf(entries)[j] = [key |-> entries[j].key, offset |-> OffsetOf(entries, j)]
      BY <1>0, IndexIs
    <3> HIDE DEF from
    <3> QED BY <1>0, <2>1, <2>2, <3>1
  <2>5. e.ok /\ e.value = entries[j]
    <3>1. PICK t \in Seq(Byte) : file = Data(entries) \o t
      BY <1>0, TableLoads
    <3>2. PICK y \in Seq(Byte) :
            Rest(Data(entries) \o t, OffsetOf(entries, j)) = EncodeEntry(entries[j]) \o y
      BY <1>0, DataIs
    <3>3. kPut \in Byte \ {kDelete} /\ kDelete \notin Byte \ {kDelete} /\ entries[j] \in Entry
      BY <1>1, KindIs
    <3> DEFINE valued == Byte \ {kDelete}
    <3> HIDE DEF valued, at
    <3>4. GetEntry(EncodeEntry(entries[j]) \o y, valued) = [ok |-> TRUE, value |-> entries[j], rest |-> y]
      BY <3>3, EntryReadsBack DEF valued
    <3>5. e = GetEntry(EncodeEntry(entries[j]) \o y, valued)
      BY <2>4, <3>1, <3>2 DEF valued
    <3> QED BY <3>4, <3>5
  <2>6. Passes(reader.filter, key)
    <3>1. key \in KeysOf(entries)
      BY <1>1, <2>1 DEF KeysOf
    <3> QED BY <1>0, <3>1, FilterPasses
  <2> HIDE DEF from, at, e, where
  <2>7. Get(key) = [deleted |-> e.value.type = kDelete, value |-> e.value.value]
    BY <1>2, <2>2, <2>4, <2>5, <2>6
  <2> QED BY <1>3, <1>5, <2>3, <2>5, <2>7
<1> QED BY <1>4, <1>5

LEMMA ReadAllIs ==
    ASSUME WholeTable
    PROVE  ReadAll.ok /\ ReadAll.value = entries
<1> DEFINE es == entries
           n == Len(es)
           ss == [i \in 1 .. n |-> EncodeEntry(es[i])]
<1>0. /\ es \in Tables /\ hash \in HashFunctions /\ file = EncodeTable(es)
      /\ reader.index = IndexOf(es)
  BY DEF WholeTable, Opened
<1>1. n \in Nat /\ DOMAIN es = 1 .. n /\ \A i \in 1 .. n : es[i] \in Entry
  BY <1>0, TableIs
<1>2. PICK t \in Seq(Byte) : file = Data(es) \o t
  BY <1>0, TableLoads
<1>3. file = FlattenSeq(ss) \o t /\ file \in Seq(Byte)
  BY <1>0, <1>1, <1>2, TableLoads DEF Data
<1>4. ASSUME NEW i \in 1 .. n
      PROVE  ss[i] = EncodeEntry(es[i]) /\ ss[i] \in Seq(Byte) /\ 1 <= Len(ss[i])
  <2>1. << >> \in Seq(Byte) /\ es[i] \in Entry /\ kPut \in {kPut} /\ kDelete \notin {kPut}
    BY <1>1, KindIs
  <2>2. EncodeEntry(es[i]) \in Seq(Byte) /\ Len(EncodeEntry(es[i])) >= 1
    BY <2>1, EntryReadsBack
  <2>3. Len(EncodeEntry(es[i])) \in Nat
    BY <2>2, LenProperties
  <2> QED BY <2>2, <2>3
<1>5. ss \in [1 .. n -> Seq(Byte)]
  BY <1>4
<1> HIDE DEF ss
<1> DEFINE N == Len(file)
<1>6. N \in Nat
  BY <1>3, LenProperties
<1>7. PICK f : EntryRounds(f, file, N) /\ Items(LAMBDA x : GetEntry(x, {kPut}), file) = f[N]
  BY <1>3, ReadAllItemsAre
<1> DEFINE G == [i \in Nat |-> GetEntry(f[i - 1].rest, {kPut})]
<1>8. \A i \in 0 .. N : f[i] = IF i = 0 THEN Begin(file) ELSE After(f[i - 1], GetEntry(f[i - 1].rest, {kPut}))
  BY <1>7 DEF EntryRounds
<1>9. \A i \in 1 .. N : i \in 0 .. N /\ i # 0 /\ G[i] = GetEntry(f[i - 1].rest, {kPut})
  BY <1>6
<1>10. f[0] = Begin(file) /\ \A i \in 1 .. N : f[i] = After(f[i - 1], G[i])
  <2>1. 0 \in 0 .. N
    BY <1>6
  <2> HIDE DEF G
  <2> QED BY <1>8, <1>9, <2>1
<1>11. Gives(es, ss, f, G)
  <2> SUFFICES ASSUME NEW i \in 1 .. n, NEW y \in Seq(Byte), f[i - 1].rest = ss[i] \o y
               PROVE  G[i] = [ok |-> TRUE, value |-> es[i], rest |-> y]
    BY DEF Gives
  <2>0. i \in Nat
    BY <1>1
  <2>1. G[i] = GetEntry(f[i - 1].rest, {kPut})
    BY <2>0
  <2> HIDE DEF G
  <2>2. G[i] = GetEntry(EncodeEntry(es[i]) \o y, {kPut})
    BY <1>4, <2>1
  <2>3. kPut \in {kPut} /\ kDelete \notin {kPut} /\ es[i] \in Entry
    BY <1>1, KindIs
  <2>4. GetEntry(EncodeEntry(es[i]) \o y, {kPut}) = [ok |-> TRUE, value |-> es[i], rest |-> y]
    BY <2>3, EntryReadsBack
  <2> QED BY <2>2, <2>4
<1> HIDE DEF G
<1>12. es \in Seq(AnyEntry)
  <2>1. \A e \in Entry : e \in AnyEntry
    <3> TAKE e \in Entry
    <3>1. e = [type |-> e.type, key |-> e.key, value |-> e.value]
          /\ e.type \in Byte /\ e.key \in Seq(Byte) /\ e.value \in Seq(Byte)
      BY EntryIs, KindIs
    <3> QED BY <3>1 DEF AnyEntry
  <2>2. es \in [1 .. n -> AnyEntry]
    <3>1. es \in [1 .. n -> Entry]
      BY <1>0, <1>1 DEF Tables
    <3> QED BY <2>1, <3>1
  <2> QED BY <1>1, <2>2
<1>13. Finds(AnyEntry, N, f, G)
  <2> SUFFICES ASSUME NEW i \in 1 .. N, f[i - 1].rest \in Seq(Byte), G[i].ok
               PROVE  G[i].value \in AnyEntry /\ G[i].rest \in Seq(Byte)
    BY DEF Finds
  <2> QED BY <1>9, GetEntryIs
<1>14. Loop(es, ss, t, file, f, G)
  BY <1>3, <1>4, <1>5, <1>10, <1>11 DEF Loop
<1>15. Found(f[N], AnyEntry, es)
  BY <1>12, <1>13, <1>14, LoopKeeps
<1> DEFINE got == Items(LAMBDA x : GetEntry(x, {kPut}), file).items
<1>16. got \in Seq(AnyEntry) /\ n <= Len(got) /\ \A i \in 1 .. n : got[i] = es[i]
  <2>1. got = f[N].items
    BY <1>7
  <2> HIDE DEF got
  <2> QED BY <1>15, <2>1 DEF Found, State
<1>17. Len(reader.index) = n
  BY <1>0, IndexIs
<1>18. ReadAll = IF Len(got) < Len(reader.index) THEN Malformed
                 ELSE [ok |-> TRUE, value |-> SubSeq(got, 1, Len(reader.index))]
  BY DEF ReadAll
<1> HIDE DEF got
<1>19. SubSeq(got, 1, n) = es
  <2>1. Len(got) \in Nat /\ \A i \in 1 .. n : got[i] \in AnyEntry
    BY <1>1, <1>16, LenProperties, ElementOfSeq
  <2>2. /\ SubSeq(got, 1, n) \in Seq(AnyEntry) /\ Len(SubSeq(got, 1, n)) = n
        /\ \A i \in 1 .. n : SubSeq(got, 1, n)[i] = got[i]
    BY <1>1, <1>16, <2>1, SubSeqProperties
  <2> DEFINE u == SubSeq(got, 1, n)
  <2>3. u \in Seq(AnyEntry) /\ Len(u) = n /\ \A i \in 1 .. n : u[i] = es[i]
    BY <1>16, <2>2
  <2> HIDE DEF u
  <2>4. u = es
    BY <1>12, <2>3, SeqEqual
  <2> QED BY <2>4 DEF u
<1>20. ~(Len(got) < n)
  BY <1>1, <1>16, LenProperties
<1> QED BY <1>17, <1>18, <1>19, <1>20

-----------------------------------------------------------------------------
(* A table file from its writing on *)

\* The inductive invariant: a reader that is open was loaded from the bytes that are there.
TableInv ==
    /\ hash \in HashFunctions
    /\ \/ entries = << >> /\ file = << >>
       \/ entries \in Tables
    /\ file \in Seq(Byte)
    /\ reader # Closed => reader = Load(file)

LEMMA EmptyIsRefused == Load(<< >>) = Closed
<1>1. Len(<< >>) = 0 /\ Fixed64 \in Nat /\ Fixed64 >= 1
  BY Widths
<1>2. Len(<< >>) < 5 * Fixed64
  BY <1>1
<1> QED BY <1>2 DEF Load

LEMMA TableInvHolds == Spec => []TableInv
<1>1. Init => TableInv
  <2>1. << >> \in Seq(Byte)
    OBVIOUS
  <2> QED BY <2>1 DEF Init, TableInv
<1>2. TableInv /\ [Next]_vars => TableInv'
  <2> SUFFICES ASSUME TableInv, [Next]_vars PROVE TableInv'
    OBVIOUS
  <2>1. CASE Open
    BY <2>1 DEF Open, TableInv
  <2>2. ASSUME NEW es \in Tables, Write(es) PROVE TableInv'
    <3>1. /\ entries = << >> /\ entries' = es /\ hash' = hash /\ reader' = reader
          /\ \E n \in 0 .. Len(EncodeTable(es)) : file' = SubSeq(EncodeTable(es), 1, n)
      BY <2>2 DEF Write
    <3>2. file = << >>
      BY <3>1, TableIs DEF TableInv
    <3>3. reader = Closed
      BY <3>2, EmptyIsRefused DEF TableInv
    <3>4. EncodeTable(es) \in Seq(Byte)
      BY TableLoads DEF TableInv
    <3>5. file' \in Seq(Byte)
      <4> DEFINE s == EncodeTable(es)
      <4>1. s \in Seq(Byte) /\ \E n \in 0 .. Len(s) : file' = SubSeq(s, 1, n)
        BY <3>1, <3>4
      <4> HIDE DEF s
      <4> QED BY <4>1, BeginningIs
    <3> QED BY <3>1, <3>3, <3>5 DEF TableInv
  <2>3. CASE UNCHANGED vars
    BY <2>3 DEF vars, TableInv
  <2> QED BY <2>1, <2>2, <2>3 DEF Next
<1> QED BY <1>1, <1>2, PTL DEF Spec

(***************************************************************************)
(* A table that SSTableWriter::Write has written to the end is opened by   *)
(* SSTableReader::Open: for every set of entries, hash function and width  *)
(* of the format.                                                          *)
(***************************************************************************)
THEOREM WholeTablesAreOpened == Spec => []WholeIsOpened
<1>1. TableInv => WholeIsOpened
  <2> SUFFICES ASSUME TableInv, entries # << >>, file = EncodeTable(entries) PROVE Load(file) # Closed
    BY DEF WholeIsOpened
  <2>1. entries \in Tables /\ hash \in HashFunctions
    BY DEF TableInv
  <2>2. Load(file) = [index |-> IndexOf(entries), filter |-> EncodeFilter(entries)]
    BY <2>1, TableLoads DEF Opened
  <2>3. IndexOf(entries) \in Seq([key : Seq(Byte), offset : Nat]) /\ EncodeFilter(entries) \in Seq(Byte)
    BY <2>1, IndexIs, FilterIs DEF AnyIndexEntry
  <2>4. Load(file) \in [index : Seq([key : Seq(Byte), offset : Nat]), filter : Seq(Byte)]
    BY <2>2, <2>3
  <2> QED BY <2>4, TableAssumption
<1> QED BY <1>1, TableInvHolds, PTL

(***************************************************************************)
(* While no file that was cut off is taken for a whole one, an open table  *)
(* answers for every key as the entries it was written from do, and        *)
(* ReadAll hands out exactly those entries (SSTableReader::Get, ReadAll).  *)
(* A cut can be hidden from Open only by data that look like a footer, and *)
(* whether there are any depends on the keys and values.                   *)
(***************************************************************************)
THEOREM OpenTablesReadBack == Spec => [](CutOffIsRefused => TypeOK /\ ReadsBack)
<1>1. TableInv => (CutOffIsRefused => TypeOK /\ ReadsBack)
  <2> SUFFICES ASSUME TableInv, CutOffIsRefused PROVE TypeOK /\ ReadsBack
    OBVIOUS
  <2>1. CASE reader = Closed
    BY <2>1 DEF TableInv, TypeOK, ReadsBack
  <2>2. CASE reader # Closed
    <3>1. file = EncodeTable(entries) /\ reader = Load(file) /\ hash \in HashFunctions
      BY <2>2 DEF CutOffIsRefused, TableInv
    <3>2. entries \in Tables
      BY <2>2, <3>1, EmptyIsRefused DEF TableInv
    <3>3. reader = Opened(entries)
      BY <3>1, <3>2, TableLoads
    <3>4. WholeTable
      BY <3>1, <3>2, <3>3 DEF WholeTable
    <3>5. ReadsBack
      BY <3>4, GetIsStored, ReadAllIs DEF ReadsBack
    <3>6. reader.index = IndexOf(entries) /\ reader.filter \in Seq(Byte)
      BY <3>1, <3>2, <3>3, FilterIs DEF Opened
    <3>7. \A i \in DOMAIN reader.index : reader.index[i].offset < OffsetOf(entries, Len(entries) + 1)
      <4> SUFFICES ASSUME NEW i \in DOMAIN IndexOf(entries)
                   PROVE  IndexOf(entries)[i].offset < OffsetOf(entries, Len(entries) + 1)
        BY <3>6
      <4>1. i \in 1 .. Len(entries)
        BY <3>2, TableIs DEF IndexOf
      <4>2. IndexOf(entries)[i] = [key |-> entries[i].key, offset |-> OffsetOf(entries, i)]
        BY <3>2, <4>1, IndexIs
      <4>3. OffsetOf(entries, i) < Len(Data(entries)) /\ OffsetOf(entries, Len(entries) + 1) = Len(Data(entries))
        BY <3>2, <4>1, DataIs
      <4> QED BY <4>2, <4>3
    <3> QED BY <3>2, <3>5, <3>6, <3>7 DEF TableInv, TypeOK
  <2> QED BY <2>1, <2>2
<1> QED BY <1>1, TableInvHolds, PTL

=============================================================================
