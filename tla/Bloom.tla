------------------------------- MODULE Bloom -------------------------------
(***************************************************************************)
(* bloom.h: the Bloom filter of a table. What BloomHash computes does not  *)
(* matter to correctness: hash is any function of the keys. A byte of the  *)
(* filter is the set of its bits that are 1.                               *)
(***************************************************************************)
EXTENDS Integers, FiniteSets

CONSTANTS
    LowPart,    \* a hash is rotated to the right by its low 17 bits: 2^17
    HighPart,   \* ... of 32: 2^15
    ByteBits,   \* the bits of a byte, 8
    MinBits,    \* the fewest bits of a filter, 64
    MaxProbes   \* the most probes per key, 30

ASSUME BloomAssumption ==
    /\ LowPart \in Nat \ {0} /\ HighPart \in Nat \ {0}
    /\ ByteBits \in Nat \ {0} /\ MinBits \in Nat \ {0} /\ MaxProbes \in Nat \ {0}

HashSize == LowPart * HighPart
Hash     == 0 .. HashSize - 1

Larger(a, b)  == IF a < b THEN b ELSE a
Smaller(a, b) == IF a < b THEN a ELSE b

\* The second hash: the first, rotated to the right.
Delta(h) == (h \div LowPart) + (h % LowPart) * HighPart

\* The j-th bit that is set or looked at, in a filter of so many bits.
BitPos(h, j, bits) == ((h + j * Delta(h)) % HashSize) % bits

\* The number of probes: 0.69 of the bits per key, at least 1.
ProbesFor(bits_per_key) == Smaller(MaxProbes, Larger(1, (bits_per_key * 69) \div 100))

\* The bytes of the filter of n keys.
BytesFor(n, bits_per_key) ==
    (Larger(MinBits, n * bits_per_key) + (ByteBits - 1)) \div ByteBits

\* Broken variant: the positions are those of a filter whose size is not rounded up.
Build_NotRounded(hash, keys, bits_per_key) ==
    LET n == BytesFor(Cardinality(keys), bits_per_key)
        k == ProbesFor(bits_per_key)
        bits == Larger(MinBits, Cardinality(keys) * bits_per_key)
        positions == {BitPos(hash[x], j, bits) : x \in keys, j \in 0 .. k - 1}
    IN  [bytes |-> [i \in 0 .. n - 1 |-> {b \in 0 .. ByteBits - 1 : i * ByteBits + b \in positions}],
         k |-> k]

\* BloomFilter::Build.
Build(hash, keys, bits_per_key) ==
    LET n == BytesFor(Cardinality(keys), bits_per_key)
        k == ProbesFor(bits_per_key)
        positions == {BitPos(hash[x], j, n * ByteBits) : x \in keys, j \in 0 .. k - 1}
    IN  [bytes |-> [i \in 0 .. n - 1 |-> {b \in 0 .. ByteBits - 1 : i * ByteBits + b \in positions}],
         k |-> k]

\* BloomFilter::MayContain, on a filter of n bytes and the number of probes.
MayContain(filter, n, h) ==
    \/ n = 0
    \/ filter.k > MaxProbes
    \/ \A j \in 0 .. filter.k - 1 :
         LET p == BitPos(h, j, n * ByteBits) IN p % ByteBits \in filter.bytes[p \div ByteBits]

=============================================================================
