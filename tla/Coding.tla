------------------------------- MODULE Coding -------------------------------
(***************************************************************************)
(* coding.h: integers and byte strings as bytes, and the checksum. Bytes,  *)
(* varint groups, integers and the CRC have scaled-down widths (in the     *)
(* code: 7-bit groups in 8-bit bytes, varints of at most 5 bytes for 32    *)
(* bits, fixed integers of 4 and 8 bytes, a 32-bit CRC).                   *)
(*                                                                         *)
(* A Get operator reads from the beginning of some bytes. It says whether  *)
(* they are well formed there, the value, and the bytes that follow.       *)
(***************************************************************************)
EXTENDS Integers, Sequences, SequencesExt, FiniteSetsExt

CONSTANTS
    GroupBits,    \* bits of a varint group; a byte has one more
    VarintBytes,  \* the most bytes a varint32 has
    Fixed32,      \* the bytes of a fixed32
    Fixed64,      \* the bytes of a fixed64
    CrcPoly,      \* the reversed polynomial
    MaskShift,    \* how far Mask rotates
    MaskDelta     \* what Mask adds

\* b to the power n, for a shift by n digits.
Power(b, n) == LET p[i \in Nat] == IF i = 0 THEN 1 ELSE b * p[i - 1] IN p[n]

Radix     == Power(2, GroupBits)
ByteRadix == 2 * Radix
Byte      == 0 .. ByteRadix - 1
Word      == Power(ByteRadix, Fixed32)   \* a uint32_t, and a CRC, is below it
WordBits  == Fixed32 * (GroupBits + 1)

ASSUME CodingAssumption ==
    /\ {GroupBits, VarintBytes, Fixed32, Fixed64, CrcPoly} \subseteq Nat \ {0}
    /\ Word <= Power(Radix, VarintBytes)
    /\ MaskShift \in 1 .. WordBits - 1 /\ MaskDelta \in Nat

\* The number whose digits in the given radix are ds, the least significant first.
Number(radix, ds) ==
    LET n == Len(ds)
        from[i \in 1 .. n + 1] == IF i > n THEN 0 ELSE ds[i] + radix * from[i + 1]
    IN  from[1]

\* Without its first n bytes.
Rest(s, n) == SubSeq(s, n + 1, Len(s))

Malformed == [ok |-> FALSE]

Parsed(s, n, v) == [ok |-> TRUE, value |-> v, rest |-> Rest(s, n)]

\* PutFixed32 and PutFixed64: n bytes, little-endian; what does not fit is cut off.
Fixed(v, n) == [i \in 1 .. n |-> (v \div Power(ByteRadix, i - 1)) % ByteRadix]

\* DecodeFixed32 and DecodeFixed64, where their callers have compared the length.
GetFixed(s, n) ==
    IF Len(s) < n THEN Malformed ELSE Parsed(s, n, Number(ByteRadix, SubSeq(s, 1, n)))

\* Broken variant: a value that needs one more group by one does not get it.
Varint_LessOrEqual(v) ==
    LET n == Min({m \in 1 .. VarintBytes : v <= Power(Radix, m)})
    IN  [i \in 1 .. n |-> ((v \div Power(Radix, i - 1)) % Radix) + (IF i < n THEN Radix ELSE 0)]

\* PutVarint32: groups of bits, the least significant first; all but the last are marked.
Varint(v) ==
    LET n == Min({m \in 1 .. VarintBytes : v < Power(Radix, m)})
    IN  [i \in 1 .. n |-> ((v \div Power(Radix, i - 1)) % Radix) + (IF i < n THEN Radix ELSE 0)]

\* GetVarint32Ptr.
GetVarint(s) ==
    LET last == {i \in DOMAIN s : i <= VarintBytes /\ s[i] < Radix}
    IN  IF last = {} THEN Malformed
        ELSE Parsed(s, Min(last),
                    Number(Radix, [i \in 1 .. Min(last) |-> s[i] % Radix]) % Word)

\* PutLengthPrefixedSlice: the length is cut to the width of a varint32.
LengthPrefixed(d) == Varint(Len(d) % Word) \o d

\* GetLengthPrefixedSlice.
GetLengthPrefixed(s) ==
    LET v == GetVarint(s)
    IN  IF ~v.ok THEN Malformed
        ELSE IF v.value > Len(v.rest) THEN Malformed
        ELSE Parsed(v.rest, v.value, SubSeq(v.rest, 1, v.value))

\* What Get finds one after another in s, up to the end or to the first that is malformed.
\* It takes at least a byte each time, so that Len(s) rounds are enough.
Items(Get(_), s) ==
    LET got[i \in 0 .. Len(s)] ==
          IF i = 0 THEN [items |-> << >>, ok |-> TRUE, rest |-> s]
          ELSE LET before == got[i - 1]
                   g      == Get(before.rest)
               IN  IF ~before.ok \/ before.rest = << >> THEN before
                   ELSE IF ~g.ok THEN [before EXCEPT !.ok = FALSE]
                   ELSE [items |-> Append(before.items, g.value), ok |-> TRUE, rest |-> g.rest]
    IN  got[Len(s)]

-----------------------------------------------------------------------------
(* CRC32C *)

\* The exclusive or of two words.
Xor(a, b) ==
    Number(2, [i \in 1 .. WordBits |->
                 ((a \div Power(2, i - 1)) + (b \div Power(2, i - 1))) % 2])

\* One bit of the division by the polynomial.
CrcBit(c) == IF c % 2 = 1 THEN Xor(CrcPoly, c \div 2) ELSE c \div 2

CrcTable ==
    [n \in Byte |-> LET c[i \in 0 .. GroupBits + 1] == IF i = 0 THEN n ELSE CrcBit(c[i - 1])
                   IN  c[GroupBits + 1]]

\* Broken variant: the part of the register that the byte does not reach is lost.
CrcByte_NoShift(c, b) == CrcTable[Xor(c, b) % ByteRadix]

CrcByte(c, b) == Xor(CrcTable[Xor(c, b) % ByteRadix], c \div ByteRadix)

\* CRC32C::Value; the register is inverted before and after.
CrcStep == [c \in 0 .. Word - 1 |-> [b \in Byte |-> CrcByte(c, b)]]
Crc(s)  ==
    LET register[i \in 0 .. Len(s)] ==
          IF i = 0 THEN Word - 1 ELSE CrcStep[register[i - 1]][s[i]]
    IN  Word - 1 - register[Len(s)]

\* Mask rotates the CRC to the right and adds a constant; Unmask undoes both.
Mask(c) ==
    (((c \div Power(2, MaskShift)) + (c % Power(2, MaskShift)) * (Word \div Power(2, MaskShift))) + MaskDelta) % Word

Unmask(m) ==
    LET rot == (m - MaskDelta) % Word
        up  == Word \div Power(2, MaskShift)
    IN  (rot \div up) + (rot % up) * Power(2, MaskShift)

=============================================================================
