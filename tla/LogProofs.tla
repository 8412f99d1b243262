------------------------------ MODULE LogProofs ------------------------------
(***************************************************************************)
(* The replay of the log hands out every batch that was appended whole,    *)
(* with all of its operations in order, whatever was cut short behind it.  *)
(***************************************************************************)
EXTENDS LogFile, CodingProofs

-----------------------------------------------------------------------------
(* One operation of a batch *)

LEMMA OpIs ==
    ASSUME NEW o \in Op
    PROVE  /\ o = [key |-> o.key, value |-> o.value]
           /\ o.key \in Seq(Byte) /\ Len(o.key) < Word
           /\ o.value # Gone => o.value \in Seq(Byte) /\ Len(o.value) < Word
BY LogAssumption DEF Op

LEMMA KindIs == kPut \in Byte /\ kDelete \in Byte /\ kPut # kDelete
BY Widths DEF Byte, kPut, kDelete

LEMMA OpReadsBack ==
    ASSUME NEW o \in Op, NEW t \in Seq(Byte)
    PROVE  /\ EncodeOp(o) \in Seq(Byte) /\ Len(EncodeOp(o)) >= 1
           /\ GetOp(EncodeOp(o) \o t) = [ok |-> TRUE, value |-> o, rest |-> t]
<1> DEFINE a == LengthPrefixed(o.key)
           b == LengthPrefixed(o.value)
           s == EncodeOp(o) \o t
           k == GetLengthPrefixed(Tail(s))
           v == GetLengthPrefixed(k.rest)
<1>1. a \in Seq(Byte)
  BY OpIs, LengthPrefixedType
<1>2. GetOp(s) = IF Head(s) \notin {kPut, kDelete} THEN Malformed
                 ELSE IF ~k.ok THEN Malformed
                 ELSE IF Head(s) = kDelete THEN [k EXCEPT !.value = [key |-> k.value, value |-> Gone]]
                 ELSE IF ~v.ok THEN Malformed
                      ELSE [v EXCEPT !.value = [key |-> k.value, value |-> v.value]]
  BY DEF GetOp
<1>3. CASE o.value = Gone
  <2>1. EncodeOp(o) = <<kDelete>> \o a
    BY <1>3 DEF EncodeOp
  <2>2. GetLengthPrefixed(a \o t) = [ok |-> TRUE, value |-> o.key, rest |-> t]
    BY OpIs, LengthPrefixedReadsBack
  <2> HIDE DEF a
  <2>3. /\ <<kDelete>> \in Seq(Byte) /\ <<kDelete>> \o a \in Seq(Byte)
        /\ Len(<<kDelete>> \o a) = 1 + Len(a) /\ Len(a) \in Nat
    BY <1>1, KindIs, HeadAndTail, LenProperties
  <2>4. a \o t \in Seq(Byte) /\ Associate(<<kDelete>>, a, t)
    BY <1>1, <2>3, Joined
  <2>5. s = <<kDelete>> \o (a \o t)
    BY <2>1, <2>4 DEF Associate
  <2>6. Head(s) = kDelete /\ Tail(s) = a \o t
    BY <2>4, <2>5, KindIs, HeadAndTail
  <2> HIDE DEF s
  <2>7. k = [ok |-> TRUE, value |-> o.key, rest |-> t]
    BY <2>2, <2>6
  <2> HIDE DEF k, v
  <2>8. GetOp(s) = [k EXCEPT !.value = [key |-> k.value, value |-> Gone]]
    BY <1>2, <2>6, <2>7
  <2>9. GetOp(s) = [ok |-> TRUE, value |-> [key |-> o.key, value |-> Gone], rest |-> t]
    BY <2>7, <2>8
  <2>10. GetOp(s) = [ok |-> TRUE, value |-> o, rest |-> t]
    BY <1>3, <2>9, OpIs
  <2> QED BY <2>1, <2>3, <2>10 DEF s
<1>4. CASE o.value # Gone
  <2>1. EncodeOp(o) = (<<kPut>> \o a) \o b
    BY <1>4 DEF EncodeOp
  <2>2. b \in Seq(Byte)
    BY <1>4, OpIs, LengthPrefixedType
  <2>3. b \o t \in Seq(Byte)
    BY <2>2, Joined
  <2>4. /\ GetLengthPrefixed(a \o (b \o t)) = [ok |-> TRUE, value |-> o.key, rest |-> b \o t]
        /\ GetLengthPrefixed(b \o t) = [ok |-> TRUE, value |-> o.value, rest |-> t]
    BY <1>4, <2>3, OpIs, LengthPrefixedReadsBack
  <2> HIDE DEF a, b
  <2>5. /\ <<kPut>> \in Seq(Byte) /\ <<kPut>> \o a \in Seq(Byte)
        /\ Len(<<kPut>> \o a) = 1 + Len(a) /\ Len(a) \in Nat
    BY <1>1, KindIs, HeadAndTail, LenProperties
  <2>6. /\ (<<kPut>> \o a) \o b \in Seq(Byte)
        /\ Len((<<kPut>> \o a) \o b) = Len(<<kPut>> \o a) + Len(b) /\ Len(b) \in Nat
        /\ Associate(<<kPut>> \o a, b, t)
    BY <2>2, <2>5, Joined
  <2>7. a \o (b \o t) \in Seq(Byte) /\ Associate(<<kPut>>, a, b \o t)
    BY <1>1, <2>3, <2>5, Joined
  <2>8. s = <<kPut>> \o (a \o (b \o t))
    BY <2>1, <2>6, <2>7 DEF Associate
  <2>9. Head(s) = kPut /\ Tail(s) = a \o (b \o t)
    BY <2>7, <2>8, KindIs, HeadAndTail
  <2> HIDE DEF s
  <2>10. k = [ok |-> TRUE, value |-> o.key, rest |-> b \o t]
    BY <2>4, <2>9
  <2> HIDE DEF k
  <2>11. v = [ok |-> TRUE, value |-> o.value, rest |-> t]
    BY <2>4, <2>10
  <2> HIDE DEF v
  <2>12. GetOp(s) = [v EXCEPT !.value = [key |-> k.value, value |-> v.value]]
    BY <1>2, <2>9, <2>10, <2>11, KindIs
  <2>13. GetOp(s) = [ok |-> TRUE, value |-> [key |-> o.key, value |-> o.value], rest |-> t]
    BY <2>10, <2>11, <2>12
  <2>14. GetOp(s) = [ok |-> TRUE, value |-> o, rest |-> t]
    BY <2>13, OpIs
  <2>15. Len((<<kPut>> \o a) \o b) >= 1
    BY <2>5, <2>6
  <2> QED BY <2>1, <2>6, <2>14, <2>15 DEF s
<1> QED BY <1>3, <1>4

-----------------------------------------------------------------------------
(* One record of the log *)

LEMMA FrameReadsBack ==
    ASSUME NEW d \in Seq(Byte), Len(d) < Word, NEW t \in Seq(Byte)
    PROVE  /\ Frame(d) \in Seq(Byte) /\ Len(Frame(d)) >= 1
           /\ GetRecord(Frame(d) \o t) = [ok |-> TRUE, value |-> d, rest |-> t]
<1> DEFINE n == Len(d)
           l == Fixed(n, Fixed32)
           framed == l \o d
           sum == Crc(framed)
           c == Fixed(Mask(sum), Fixed32)
           s == Frame(d) \o t
<1>1. n \in Nat /\ n \in 0 .. Power(ByteRadix, Fixed32) - 1 /\ n % Word = n /\ Fixed32 \in Nat \ {0}
  <2>1. n \in Nat /\ Word \in Nat \ {0} /\ n < Word /\ Fixed32 \in Nat \ {0}
    BY LenProperties, Widths
  <2>2. n % Word = n /\ n \in 0 .. Word - 1
    BY <2>1, DivSmall
  <2> QED BY <2>1, <2>2 DEF Word
<1>2. l \in Seq(Byte) /\ Len(l) = Fixed32
  BY <1>1, FixedType
<1>3. framed \in Seq(Byte) /\ Len(framed) = Fixed32 + n
  <2> HIDE DEF l
  <2> QED BY <1>2, Joined
<1>4. Frame(d) = c \o framed
  BY <1>1 DEF Frame
<1>5. d \o t \in Seq(Byte) /\ SubSeq(d \o t, 1, n) = d /\ Rest(d \o t, n) = t
      /\ Len(d \o t) = n + Len(t) /\ Len(t) \in Nat
  BY TakeOff, LenProperties
<1>6. GetFixed(l \o (d \o t), Fixed32) = [ok |-> TRUE, value |-> n, rest |-> d \o t]
  BY <1>1, <1>5, FixedReadsBack
<1>7. framed \o t = l \o (d \o t)
  <2> HIDE DEF l
  <2>1. Associate(l, d, t)
    BY <1>2, Joined
  <2> QED BY <2>1 DEF Associate
<1>8. framed \o t \in Seq(Byte) /\ Len(framed \o t) = (Fixed32 + n) + Len(t)
  <2> HIDE DEF framed
  <2> QED BY <1>3, Joined
<1>9. Fixed(n, Fixed32) \o d = framed
  OBVIOUS
<1> HIDE DEF framed, l
<1>10. sum \in 0 .. Word - 1 /\ Mask(sum) \in 0 .. Word - 1 /\ Unmask(Mask(sum)) = sum
  BY <1>3, CrcIs, UnmaskMask
<1>11. Mask(sum) \in Nat /\ Mask(sum) \in 0 .. Power(ByteRadix, Fixed32) - 1
  BY <1>10, Widths DEF Word
<1> HIDE DEF sum
<1>12. c \in Seq(Byte) /\ Len(c) = Fixed32
  BY <1>1, <1>11, FixedType
<1>13. GetFixed(c \o (framed \o t), Fixed32) = [ok |-> TRUE, value |-> Mask(sum), rest |-> framed \o t]
  BY <1>1, <1>8, <1>11, FixedReadsBack
<1> HIDE DEF c
<1>14. /\ c \o framed \in Seq(Byte) /\ Len(c \o framed) = Fixed32 + (Fixed32 + n)
       /\ Associate(c, framed, t) /\ Len(c \o (framed \o t)) = Fixed32 + ((Fixed32 + n) + Len(t))
  BY <1>3, <1>8, <1>12, Joined
<1>15. s = c \o (framed \o t)
  BY <1>4, <1>14 DEF Associate
<1> DEFINE crc == GetFixed(s, Fixed32)
           len == GetFixed(crc.rest, Fixed32)
           p   == SubSeq(len.rest, 1, len.value)
<1>16. GetRecord(s) = IF Len(s) < 2 * Fixed32 THEN Malformed
                      ELSE IF Len(len.rest) < len.value THEN Malformed
                      ELSE IF Crc(Fixed(len.value, Fixed32) \o p) # Unmask(crc.value) THEN Malformed
                      ELSE [ok |-> TRUE, value |-> p, rest |-> Rest(len.rest, len.value)]
  BY DEF GetRecord, Parsed
<1> HIDE DEF n
<1>17. ~(Len(s) < 2 * Fixed32)
  BY <1>1, <1>5, <1>14, <1>15
<1> HIDE DEF s
<1>18. crc.value = Mask(sum) /\ crc.rest = l \o (d \o t)
  BY <1>7, <1>13, <1>15
<1> HIDE DEF crc
<1>19. len.value = n /\ len.rest = d \o t
  BY <1>6, <1>18
<1> HIDE DEF len
<1>20. p = d
  BY <1>5, <1>19
<1> HIDE DEF p
<1>21. Crc(Fixed(len.value, Fixed32) \o p) = Unmask(crc.value)
  BY <1>9, <1>10, <1>18, <1>19, <1>20 DEF sum
<1>22. ~(Len(len.rest) < len.value)
  BY <1>1, <1>5, <1>19
<1>23. GetRecord(s) = [ok |-> TRUE, value |-> d, rest |-> t]
  BY <1>5, <1>16, <1>17, <1>19, <1>20, <1>21, <1>22
<1>24. Len(c \o framed) >= 1
  BY <1>1, <1>14
<1> QED BY <1>4, <1>14, <1>23, <1>24 DEF s

\* What is taken for a record is bytes, and so is what is left behind it.
LEMMA GetRecordIs ==
    ASSUME NEW s \in Seq(Byte)
    PROVE  LET g == GetRecord(s)
           IN  g.ok \in BOOLEAN /\ (g.ok => g.value \in Seq(Byte) /\ g.rest \in Seq(Byte))
<1> DEFINE crc == GetFixed(s, Fixed32)
           len == GetFixed(crc.rest, Fixed32)
           p   == SubSeq(len.rest, 1, len.value)
<1>1. GetRecord(s) = IF Len(s) < 2 * Fixed32 THEN Malformed
                     ELSE IF Len(len.rest) < len.value THEN Malformed
                     ELSE IF Crc(Fixed(len.value, Fixed32) \o p) # Unmask(crc.value) THEN Malformed
                     ELSE [ok |-> TRUE, value |-> p, rest |-> Rest(len.rest, len.value)]
  BY DEF GetRecord, Parsed
<1>2. Malformed.ok = FALSE
  BY DEF Malformed
<1>3. ASSUME ~(Len(s) < 2 * Fixed32), ~(Len(len.rest) < len.value)
      PROVE  p \in Seq(Byte) /\ Rest(len.rest, len.value) \in Seq(Byte)
  <2>1. Fixed32 \in Nat /\ Len(s) \in Nat /\ Len(s) >= Fixed32 /\ Len(s) - Fixed32 >= Fixed32
    BY <1>3, Widths, LenProperties
  <2>2. crc.rest \in Seq(Byte) /\ Len(crc.rest) = Len(s) - Fixed32
    BY <2>1, GetFixedIs
  <2> HIDE DEF crc
  <2>3. len.rest \in Seq(Byte) /\ len.value \in Nat
    BY <2>1, <2>2, GetFixedIs
  <2> DEFINE r == len.rest
             v == len.value
  <2>4. r \in Seq(Byte) /\ v \in 0 .. Len(r) /\ Len(r) \in Nat
    BY <1>3, <2>3, LenProperties
  <2> HIDE DEF r, v
  <2>5. SubSeq(r, 1, v) \in Seq(Byte)
    BY <2>4, BeginningIs
  <2>6. \A i \in v + 1 .. Len(r) : r[i] \in Byte
    BY <2>4, ElementOfSeq
  <2>7. SubSeq(r, v + 1, Len(r)) \in Seq(Byte)
    <3>1. v + 1 \in Int /\ Len(r) \in Int
      BY <2>4
    <3> QED BY <2>4, <2>6, <3>1, SubSeqProperties
  <2> QED BY <2>5, <2>7 DEF r, v, Rest
<1> DEFINE g == GetRecord(s)
           whole == [ok |-> TRUE, value |-> p, rest |-> Rest(len.rest, len.value)]
<1>4. \/ g = Malformed
      \/ g = whole /\ p \in Seq(Byte) /\ Rest(len.rest, len.value) \in Seq(Byte)
  <2> HIDE DEF p, len, crc
  <2> QED BY <1>1, <1>3
<1>5. whole.ok = TRUE /\ whole.value = p /\ whole.rest = Rest(len.rest, len.value)
  OBVIOUS
<1> HIDE DEF p, len, crc, whole, g
<1>6. g.ok \in BOOLEAN /\ (g.ok => g.value \in Seq(Byte) /\ g.rest \in Seq(Byte))
  <2>1. CASE g = Malformed
    BY <1>2, <2>1
  <2>2. CASE g = whole /\ p \in Seq(Byte) /\ Rest(len.rest, len.value) \in Seq(Byte)
    BY <1>5, <2>2
  <2> QED BY <1>4, <2>1, <2>2
<1> QED BY <1>6 DEF g

-----------------------------------------------------------------------------
(* The loops of Iterate and ReplayAll *)

\* The first n rounds of Iterate, and of ReplayAll.
OpRounds(f, s, n) ==
    f = [i \in 0 .. n |-> IF i = 0 THEN Begin(s) ELSE After(f[i - 1], GetOp(f[i - 1].rest))]

RecordRounds(f, s, n) ==
    f = [i \in 0 .. n |-> IF i = 0 THEN Begin(s) ELSE After(f[i - 1], GetRecord(f[i - 1].rest))]

\* What is taken for an operation has bytes for a key and leaves bytes.
AnyOp == [key : Seq(Byte), value : Seq(Byte) \union {Gone}]

LEMMA GetOpIs ==
    ASSUME NEW s \in Seq(Byte), s # << >>, GetOp(s).ok
    PROVE  GetOp(s).value \in AnyOp /\ GetOp(s).rest \in Seq(Byte)
<1> DEFINE g == GetOp(s)
           k == GetLengthPrefixed(Tail(s))
           v == GetLengthPrefixed(k.rest)
           deleted == [k EXCEPT !.value = [key |-> k.value, value |-> Gone]]
           put == [v EXCEPT !.value = [key |-> k.value, value |-> v.value]]
<1>1. g = IF Head(s) \notin {kPut, kDelete} THEN Malformed
          ELSE IF ~k.ok THEN Malformed
          ELSE IF Head(s) = kDelete THEN deleted
          ELSE IF ~v.ok THEN Malformed
               ELSE put
  BY DEF GetOp
<1>2. Malformed.ok = FALSE /\ g.ok
  BY DEF Malformed
<1>3. Tail(s) \in Seq(Byte)
  OBVIOUS
<1>4. k.ok => k.value \in Seq(Byte) /\ k.rest \in Seq(Byte)
  BY <1>3, GetLengthPrefixedIs
<1>5. k.ok /\ v.ok => v.value \in Seq(Byte) /\ v.rest \in Seq(Byte)
  BY <1>4, GetLengthPrefixedIs
<1>6. k = Malformed \/ DOMAIN k = {"ok", "value", "rest"}
  BY DEF GetLengthPrefixed, Parsed
<1>7. v = Malformed \/ DOMAIN v = {"ok", "value", "rest"}
  BY DEF GetLengthPrefixed, Parsed
<1> HIDE DEF k, v, g
<1>8. k.ok => deleted.value = [key |-> k.value, value |-> Gone] /\ deleted.rest = k.rest
  BY <1>2, <1>6
<1>9. v.ok => put.value = [key |-> k.value, value |-> v.value] /\ put.rest = v.rest
  BY <1>2, <1>7
<1> HIDE DEF deleted, put
<1>10. (k.ok /\ g = deleted) \/ (k.ok /\ v.ok /\ g = put)
  BY <1>1, <1>2
<1>11. CASE k.ok /\ g = deleted
  BY <1>4, <1>8, <1>11 DEF AnyOp, g
<1>12. CASE k.ok /\ v.ok /\ g = put
  BY <1>4, <1>5, <1>9, <1>12 DEF AnyOp, g
<1> QED BY <1>10, <1>11, <1>12

LEMMA IterateIs ==
    ASSUME NEW s \in Seq(Byte)
    PROVE  \E f : OpRounds(f, s, Len(s)) /\ Iterate(s) = f[Len(s)].items
<1> DEFINE V == AnyOp
           get == [x \in Seq(Byte) |-> GetOp(x)]
           N == Len(s)
<1>1. \A x \in Seq(Byte) : x # << >> /\ get[x].ok => get[x].value \in V /\ get[x].rest \in Seq(Byte)
  <2> TAKE x \in Seq(Byte)
  <2> HAVE x # << >> /\ get[x].ok
  <2> QED BY GetOpIs
<1>2. \A x \in Seq(Byte) : get[x] = GetOp(x)
  OBVIOUS
<1>3. N \in Nat
  BY LenProperties
<1> HIDE DEF V, get, N
<1>4. PICK f : Rounds(f, s, N, get) /\ \A i \in 0 .. N : f[i] \in State(V)
  BY <1>1, <1>3, RoundsExist
<1>5. OpRounds(f, s, N)
  <2>1. \A i \in 0 .. N : i # 0 => get[f[i - 1].rest] = GetOp(f[i - 1].rest)
    <3> TAKE i \in 0 .. N
    <3> HAVE i # 0
    <3>1. i - 1 \in 0 .. N
      BY <1>3
    <3>2. f[i - 1].rest \in Seq(Byte)
      BY <1>4, <3>1 DEF State
    <3> QED BY <1>2, <3>2
  <2>2. f = [i \in 0 .. N |-> IF i = 0 THEN Begin(s) ELSE After(f[i - 1], GetOp(f[i - 1].rest))]
    BY <1>4, <2>1 DEF Rounds
  <2> QED BY <2>2 DEF OpRounds
<1> DEFINE got == CHOOSE g : OpRounds(g, s, N)
<1>6. OpRounds(got, s, N)
  BY <1>5
<1>7. Iterate(s) = got[N].items
  BY DEF Iterate, Items, OpRounds, Begin, After, N
<1> HIDE DEF got
<1> QED BY <1>6, <1>7 DEF N

LEMMA RecordsIs ==
    ASSUME NEW s \in Seq(Byte)
    PROVE  \E f : RecordRounds(f, s, Len(s)) /\ Records(s) = f[Len(s)].items
<1> DEFINE V == Seq(Byte)
           get == [x \in Seq(Byte) |-> GetRecord(x)]
           N == Len(s)
<1>1. \A x \in Seq(Byte) : x # << >> /\ get[x].ok => get[x].value \in V /\ get[x].rest \in Seq(Byte)
  BY GetRecordIs
<1>2. \A x \in Seq(Byte) : get[x] = GetRecord(x)
  OBVIOUS
<1>3. N \in Nat
  BY LenProperties
<1> HIDE DEF V, get, N
<1>4. PICK f : Rounds(f, s, N, get) /\ \A i \in 0 .. N : f[i] \in State(V)
  BY <1>1, <1>3, RoundsExist
<1>5. RecordRounds(f, s, N)
  <2>1. \A i \in 0 .. N : i # 0 => get[f[i - 1].rest] = GetRecord(f[i - 1].rest)
    <3> TAKE i \in 0 .. N
    <3> HAVE i # 0
    <3>1. i - 1 \in 0 .. N
      BY <1>3
    <3>2. f[i - 1].rest \in Seq(Byte)
      BY <1>4, <3>1 DEF State
    <3> QED BY <1>2, <3>2
  <2>2. f = [i \in 0 .. N |-> IF i = 0 THEN Begin(s) ELSE After(f[i - 1], GetRecord(f[i - 1].rest))]
    BY <1>4, <2>1 DEF Rounds
  <2> QED BY <2>2 DEF RecordRounds
<1> DEFINE got == CHOOSE g : RecordRounds(g, s, N)
<1>6. RecordRounds(got, s, N)
  BY <1>5
<1>7. Records(s) = got[N].items
  BY DEF Records, Items, RecordRounds, Begin, After, N
<1> HIDE DEF got
<1> QED BY <1>6, <1>7 DEF N

-----------------------------------------------------------------------------
(* A batch, and the log *)

Encoded(os) == FlattenSeq([i \in DOMAIN os |-> EncodeOp(os[i])])

Framed(ds) == FlattenSeq([i \in DOMAIN ds |-> Frame(ds[i])])

\* A batch is read back operation by operation, and one of the most operations a batch may
\* have still fits behind its length.
LEMMA BatchReadsBack ==
    ASSUME NEW os \in Seq(Op)
    PROVE  /\ Encoded(os) \in Seq(Byte) /\ Iterate(Encoded(os)) = os
           /\ Len(os) <= MaxOps => Len(Encoded(os)) < Word
<1> DEFINE n == Len(os)
           ss == [i \in 1 .. n |-> EncodeOp(os[i])]
           s == Encoded(os)
<1>1. n \in Nat /\ DOMAIN os = 1 .. n /\ \A i \in 1 .. n : os[i] \in Op
  BY LenProperties, ElementOfSeq
<1>2. s = FlattenSeq(ss)
  BY <1>1 DEF Encoded
<1>3. << >> \in Seq(Byte)
  OBVIOUS
<1>4. ASSUME NEW i \in 1 .. n
      PROVE  ss[i] = EncodeOp(os[i]) /\ ss[i] \in Seq(Byte) /\ 1 <= Len(ss[i])
  <2>1. os[i] \in Op
    BY <1>1
  <2>2. EncodeOp(os[i]) \in Seq(Byte) /\ Len(EncodeOp(os[i])) >= 1
    BY <1>3, <2>1, OpReadsBack
  <2>3. Len(EncodeOp(os[i])) \in Nat
    BY <2>2, LenProperties
  <2> QED BY <2>2, <2>3
<1>5. ss \in [1 .. n -> Seq(Byte)]
  BY <1>4
<1> HIDE DEF ss, s
<1>6. PICK h : SuffixesOf(h, Byte, ss, n)
  BY <1>1, <1>5, SuffixesExist
<1>7. s = h[1] /\ s \in Seq(Byte)
  BY <1>1, <1>2, <1>5, <1>6, FlattenIs
<1>8. Len(s) \in Nat
  BY <1>7, LenProperties
<1>9. ASSUME n <= MaxOps PROVE Len(s) < Word
  <2>1. PICK m \in 0 .. Word - 1 : MaxOps * m < Word /\ \A o \in Op : Len(EncodeOp(o)) <= m
    BY LogAssumption
  <2>2. MaxOps \in Nat /\ m \in Nat /\ Word \in Nat
    BY LogAssumption, Widths
  <2>3. \A i \in 1 .. n : 0 <= Len(ss[i]) /\ Len(ss[i]) <= m
    <3>1. \A i \in 1 .. n : Len(ss[i]) \in Nat
      BY <1>4, LenProperties
    <3> QED BY <1>1, <1>4, <2>1, <3>1
  <2> HIDE DEF n
  <2>4. Len(h[1]) <= n * m
    <3>1. 0 \in Nat
      OBVIOUS
    <3> QED BY <1>1, <1>5, <1>6, <2>2, <2>3, <3>1, SuffixLengths
  <2>5. n * m <= MaxOps * m /\ n * m \in Nat /\ MaxOps * m \in Nat
    BY <1>1, <1>9, <2>2
  <2> QED BY <1>7, <1>8, <2>1, <2>2, <2>4, <2>5
<1>10. Iterate(s) = os
  <2>1. PICK f : OpRounds(f, s, Len(s)) /\ Iterate(s) = f[Len(s)].items
    BY <1>7, IterateIs
  <2> DEFINE N == Len(s)
             G == [i \in Nat |-> GetOp(f[i - 1].rest)]
  <2>2. \A i \in 0 .. N : f[i] = IF i = 0 THEN Begin(s) ELSE After(f[i - 1], GetOp(f[i - 1].rest))
    BY <2>1 DEF OpRounds
  <2>3. f[0] = Begin(s) /\ \A i \in 1 .. N : f[i] = After(f[i - 1], G[i])
    BY <1>8, <2>2
  <2>4. s = FlattenSeq(ss) \o << >>
    BY <1>2, <1>7, ConcatEmptySeq
  <2>5. Gives(os, ss, f, G)
    <3> SUFFICES ASSUME NEW i \in 1 .. n, NEW y \in Seq(Byte), f[i - 1].rest = ss[i] \o y
                 PROVE  G[i] = [ok |-> TRUE, value |-> os[i], rest |-> y]
      BY DEF Gives
    <3>0. i \in Nat
      BY <1>1
    <3>1. G[i] = GetOp(f[i - 1].rest)
      BY <3>0
    <3> HIDE DEF G
    <3>2. G[i] = GetOp(EncodeOp(os[i]) \o y)
      BY <1>4, <3>1
    <3> QED BY <1>1, <3>2, OpReadsBack
  <2> HIDE DEF G
  <2>6. Loop(os, ss, << >>, s, f, G)
    BY <1>3, <1>4, <1>5, <2>3, <2>4, <2>5 DEF Loop
  <2>7. f[n] = [items |-> os, ok |-> TRUE, rest |-> << >>] /\ f[N] = f[n]
    BY <2>6, LoopFinds
  <2> QED BY <2>1, <2>7
<1> QED BY <1>7, <1>9, <1>10 DEF s

\* A log is read back record by record, and what is behind the records does not reach back.
LEMMA LogReadsBack ==
    ASSUME NEW ds \in Seq(Seq(Byte)), \A i \in 1 .. Len(ds) : Len(ds[i]) < Word, NEW t \in Seq(Byte)
    PROVE  LET records == Records(Framed(ds) \o t)
           IN  /\ records \in Seq(Seq(Byte)) /\ Framed(ds) \in Seq(Byte)
               /\ Len(ds) <= Len(records) /\ \A i \in 1 .. Len(ds) : records[i] = ds[i]
               /\ t = << >> => records = ds
<1> DEFINE n == Len(ds)
           ss == [i \in 1 .. n |-> Frame(ds[i])]
           flat == Framed(ds)
<1>1. n \in Nat /\ DOMAIN ds = 1 .. n /\ \A i \in 1 .. n : ds[i] \in Seq(Byte) /\ Len(ds[i]) < Word
  BY LenProperties, ElementOfSeq
<1>2. flat = FlattenSeq(ss)
  BY <1>1 DEF Framed
<1>3. ASSUME NEW i \in 1 .. n
      PROVE  ss[i] = Frame(ds[i]) /\ ss[i] \in Seq(Byte) /\ 1 <= Len(ss[i])
  <2>1. Frame(ds[i]) \in Seq(Byte) /\ Len(Frame(ds[i])) >= 1
    BY <1>1, FrameReadsBack
  <2>2. Len(Frame(ds[i])) \in Nat
    BY <2>1, LenProperties
  <2> QED BY <2>1, <2>2
<1>4. ss \in [1 .. n -> Seq(Byte)]
  BY <1>3
<1> HIDE DEF ss
<1>5. flat \in Seq(Byte)
  BY <1>1, <1>2, <1>4, PartsOf
<1> HIDE DEF flat
<1> DEFINE s == flat \o t
           N == Len(s)
<1>6. s \in Seq(Byte) /\ N \in Nat
  BY <1>5, Joined, LenProperties
<1>7. PICK f : RecordRounds(f, s, N) /\ Records(s) = f[N].items
  BY <1>6, RecordsIs
<1> DEFINE G == [i \in Nat |-> GetRecord(f[i - 1].rest)]
<1>8. \A i \in 0 .. N : f[i] = IF i = 0 THEN Begin(s) ELSE After(f[i - 1], GetRecord(f[i - 1].rest))
  BY <1>7 DEF RecordRounds
<1>9. \A i \in 1 .. N : i \in 0 .. N /\ i # 0 /\ G[i] = GetRecord(f[i - 1].rest)
  BY <1>6
<1>10. s = FlattenSeq(ss) \o t
  BY <1>2
<1> HIDE DEF s
<1>11. f[0] = Begin(s) /\ \A i \in 1 .. N : f[i] = After(f[i - 1], G[i])
  <2>1. 0 \in 0 .. N
    BY <1>6
  <2> HIDE DEF G
  <2> QED BY <1>8, <1>9, <2>1
<1>12. Gives(ds, ss, f, G)
  <2> SUFFICES ASSUME NEW i \in 1 .. n, NEW y \in Seq(Byte), f[i - 1].rest = ss[i] \o y
               PROVE  G[i] = [ok |-> TRUE, value |-> ds[i], rest |-> y]
    BY DEF Gives
  <2>0. i \in Nat
    BY <1>1
  <2>1. G[i] = GetRecord(f[i - 1].rest)
    BY <2>0
  <2> HIDE DEF G
  <2>2. G[i] = GetRecord(Frame(ds[i]) \o y)
    BY <1>3, <2>1
  <2> QED BY <1>1, <2>2, FrameReadsBack
<1> HIDE DEF G
<1> DEFINE V == Seq(Byte)
<1>13. ds \in Seq(V)
  OBVIOUS
<1>14. Finds(V, N, f, G)
  <2> SUFFICES ASSUME NEW i \in 1 .. N, f[i - 1].rest \in Seq(Byte), G[i].ok
               PROVE  G[i].value \in V /\ G[i].rest \in Seq(Byte)
    BY DEF Finds
  <2> QED BY <1>9, GetRecordIs
<1>15. Loop(ds, ss, t, s, f, G)
  BY <1>3, <1>4, <1>10, <1>11, <1>12 DEF Loop
<1> HIDE DEF V
<1>16. f[n] = [items |-> ds, ok |-> TRUE, rest |-> t] /\ (t = << >> => f[N] = f[n])
  BY <1>13, <1>15, LoopFinds
<1>17. Found(f[N], V, ds)
  BY <1>13, <1>14, <1>15, LoopKeeps
<1>18. /\ Records(s) \in Seq(Seq(Byte)) /\ Len(ds) <= Len(Records(s))
       /\ \A i \in 1 .. Len(ds) : Records(s)[i] = ds[i]
  BY <1>7, <1>17 DEF Found, State, V
<1>19. ASSUME t = << >> PROVE Records(s) = ds
  BY <1>7, <1>16, <1>19
<1> QED BY <1>5, <1>18, <1>19 DEF s, flat

-----------------------------------------------------------------------------
(* The log as it grows *)

\* The batches a client can hold.
WholeBatch == {b \in [rep : Seq(Byte), ops : Seq(Op)] : Len(b.ops) <= MaxOps /\ b.rep = Encoded(b.ops)}

Payloads(bs) == [i \in DOMAIN bs |-> bs[i].rep]

\* The log is the records of the batches that were appended whole, and then this.
Behind(tail) ==
    /\ tail \in Seq(Byte)
    /\ file = Framed(Payloads(logged)) \o tail
    /\ torn = << >> => tail = << >>

\* The inductive invariant.
LogInv ==
    /\ Batch \in WholeBatch
    /\ logged \in Seq(WholeBatch) /\ torn \in Seq(WholeBatch)
    /\ \E tail : Behind(tail)

LEMMA BatchIs ==
    ASSUME NEW b \in WholeBatch
    PROVE  /\ b.rep \in Seq(Byte) /\ Len(b.rep) < Word /\ b.ops \in Seq(Op)
           /\ Iterate(b.rep) = b.ops /\ Frame(b.rep) \in Seq(Byte)
<1>1. b.rep \in Seq(Byte) /\ b.ops \in Seq(Op) /\ Len(b.ops) <= MaxOps /\ b.rep = Encoded(b.ops)
  BY DEF WholeBatch
<1>2. Len(b.rep) < Word /\ Iterate(b.rep) = b.ops
  BY <1>1, BatchReadsBack
<1>3. << >> \in Seq(Byte)
  OBVIOUS
<1> QED BY <1>1, <1>2, <1>3, FrameReadsBack

LEMMA WholeIs ==
    ASSUME NEW os \in Seq(Op), Len(os) <= MaxOps
    PROVE  [rep |-> Encoded(os), ops |-> os] \in WholeBatch
<1>1. Encoded(os) \in Seq(Byte)
  BY BatchReadsBack
<1> QED BY <1>1 DEF WholeBatch

LEMMA NothingIs ==
    /\ Encoded(<< >>) = << >> /\ Framed(Payloads(<< >>)) = << >> /\ << >> \in Seq(Byte)
    /\ [rep |-> << >>, ops |-> << >>] \in WholeBatch
<1> DEFINE none == [i \in 1 .. 0 |-> << >>]
           h == [i \in 1 .. 1 |-> << >>]
<1>1. none \in [1 .. 0 -> Seq(Byte)] /\ SuffixesOf(h, Byte, none, 0)
  <2>1. h \in [1 .. 0 + 1 -> Seq(Byte)] /\ h[0 + 1] = << >>
    OBVIOUS
  <2> QED BY <2>1 DEF SuffixesOf
<1>2. h[1] = << >>
  OBVIOUS
<1>3. FlattenSeq(none) = << >>
  <2> HIDE DEF none, h
  <2> QED BY <1>1, <1>2, FlattenIs
<1>4. \A os : DOMAIN os = {} => [i \in DOMAIN os |-> EncodeOp(os[i])] = none
  OBVIOUS
<1>5. \A ds : DOMAIN ds = {} => [i \in DOMAIN ds |-> Frame(ds[i])] = none
  OBVIOUS
<1>6. DOMAIN << >> = {} /\ DOMAIN Payloads(<< >>) = {}
  BY DEF Payloads
<1>7. Encoded(<< >>) = << >> /\ Framed(Payloads(<< >>)) = << >>
  <2> HIDE DEF none
  <2> QED BY <1>3, <1>4, <1>5, <1>6 DEF Encoded, Framed
<1>8. << >> \in Seq(Op) /\ Len(<< >>) = 0 /\ 0 <= MaxOps
  BY LogAssumption
<1>9. [rep |-> Encoded(<< >>), ops |-> << >>] \in WholeBatch
  <2>1. Len(<< >>) <= MaxOps
    BY <1>8
  <2> QED BY <1>8, <2>1, WholeIs
<1>10. << >> \in Seq(Byte)
  OBVIOUS
<1> QED BY <1>7, <1>9, <1>10

LEMMA EncodedGrows ==
    ASSUME NEW os \in Seq(Op), NEW o \in Op
    PROVE  Encoded(Append(os, o)) = Encoded(os) \o EncodeOp(o)
<1> DEFINE n == Len(os)
           more == Append(os, o)
           ss == [i \in 1 .. n |-> EncodeOp(os[i])]
           tt == [i \in 1 .. n + 1 |-> EncodeOp(more[i])]
<1>1. /\ n \in Nat /\ DOMAIN os = 1 .. n /\ DOMAIN more = 1 .. n + 1 /\ more[n + 1] = o
      /\ \A i \in 1 .. n : os[i] \in Op /\ more[i] = os[i]
  BY AppendProperties, LenProperties, ElementOfSeq
<1>2. \A x \in Op : EncodeOp(x) \in Seq(Byte)
  <2>1. << >> \in Seq(Byte)
    OBVIOUS
  <2> QED BY <2>1, OpReadsBack
<1> HIDE DEF more, n
<1>3. Encoded(os) = FlattenSeq(ss) /\ Encoded(more) = FlattenSeq(tt)
  BY <1>1 DEF Encoded
<1>4. \A i \in 1 .. n + 1 : i \in 1 .. n \/ i = n + 1
  BY <1>1
<1>5. /\ ss \in [1 .. n -> Seq(Byte)] /\ tt \in [1 .. n + 1 -> Seq(Byte)]
      /\ \A i \in 1 .. n : tt[i] = ss[i]
  <2>1. \A i \in 1 .. n + 1 : more[i] \in Op
    BY <1>1, <1>4
  <2>2. \A i \in 1 .. n : i \in 1 .. n + 1
    BY <1>1
  <2> QED BY <1>1, <1>2, <2>1, <2>2
<1>6. tt[n + 1] = EncodeOp(o)
  <2>1. n + 1 \in 1 .. n + 1
    BY <1>1
  <2> QED BY <1>1, <2>1
<1> HIDE DEF ss, tt
<1>7. FlattenSeq(tt) = FlattenSeq(ss) \o tt[n + 1]
  BY <1>1, <1>5, FlattenAppend
<1> QED BY <1>3, <1>6, <1>7 DEF more

LEMMA FramedGrows ==
    ASSUME NEW bs \in Seq(WholeBatch), NEW b \in WholeBatch
    PROVE  Framed(Payloads(Append(bs, b))) = Framed(Payloads(bs)) \o Frame(b.rep)
<1> DEFINE n == Len(bs)
           more == Append(bs, b)
           ss == [i \in 1 .. n |-> Frame(bs[i].rep)]
           tt == [i \in 1 .. n + 1 |-> Frame(more[i].rep)]
<1>1. /\ n \in Nat /\ DOMAIN bs = 1 .. n /\ DOMAIN more = 1 .. n + 1 /\ more[n + 1] = b
      /\ \A i \in 1 .. n : bs[i] \in WholeBatch /\ more[i] = bs[i]
  BY AppendProperties, LenProperties, ElementOfSeq
<1>2. \A x \in WholeBatch : Frame(x.rep) \in Seq(Byte)
  BY BatchIs
<1> HIDE DEF more, n
<1>3. Framed(Payloads(bs)) = FlattenSeq(ss) /\ Framed(Payloads(more)) = FlattenSeq(tt)
  <2>1. /\ DOMAIN Payloads(bs) = 1 .. n /\ \A i \in 1 .. n : Payloads(bs)[i] = bs[i].rep
        /\ DOMAIN Payloads(more) = 1 .. n + 1 /\ \A i \in 1 .. n + 1 : Payloads(more)[i] = more[i].rep
    BY <1>1 DEF Payloads
  <2>2. /\ [i \in DOMAIN Payloads(bs) |-> Frame(Payloads(bs)[i])] = ss
        /\ [i \in DOMAIN Payloads(more) |-> Frame(Payloads(more)[i])] = tt
    BY <2>1
  <2> HIDE DEF ss, tt
  <2> QED BY <2>2 DEF Framed
<1>4. \A i \in 1 .. n + 1 : i \in 1 .. n \/ i = n + 1
  BY <1>1
<1>5. /\ ss \in [1 .. n -> Seq(Byte)] /\ tt \in [1 .. n + 1 -> Seq(Byte)]
      /\ \A i \in 1 .. n : tt[i] = ss[i]
  <2>1. \A i \in 1 .. n + 1 : more[i] \in WholeBatch
    BY <1>1, <1>4
  <2>2. \A i \in 1 .. n : i \in 1 .. n + 1
    BY <1>1
  <2> QED BY <1>1, <1>2, <2>1, <2>2
<1>6. tt[n + 1] = Frame(b.rep)
  <2>1. n + 1 \in 1 .. n + 1
    BY <1>1
  <2> QED BY <1>1, <2>1
<1> HIDE DEF ss, tt
<1>7. FlattenSeq(tt) = FlattenSeq(ss) \o tt[n + 1]
  BY <1>1, <1>5, FlattenAppend
<1> QED BY <1>3, <1>6, <1>7 DEF more

LEMMA LogInvStarts == Init => LogInv
<1> SUFFICES ASSUME Init PROVE LogInv
  OBVIOUS
<1>1. logged = << >> /\ torn = << >> /\ file = << >> /\ rep = << >> /\ ops = << >>
  BY DEF Init
<1>2. << >> \o << >> = << >> /\ << >> \in Seq(WholeBatch)
  OBVIOUS
<1>3. Behind(<< >>)
  BY <1>1, <1>2, NothingIs DEF Behind
<1>4. Batch \in WholeBatch
  BY <1>1, NothingIs DEF Batch
<1> QED BY <1>1, <1>2, <1>3, <1>4 DEF LogInv

LEMMA LogInvStep ==
    ASSUME LogInv, [Next]_vars
    PROVE  LogInv'
<1>0. /\ Batch \in WholeBatch /\ logged \in Seq(WholeBatch) /\ torn \in Seq(WholeBatch)
  BY DEF LogInv
<1>1. PICK tail : Behind(tail)
  BY DEF LogInv
<1> DEFINE whole == Framed(Payloads(logged))
<1>2. tail \in Seq(Byte) /\ file = whole \o tail /\ (torn = << >> => tail = << >>)
  BY <1>1 DEF Behind
<1>3. whole \in Seq(Byte)
  <2> DEFINE ds == Payloads(logged)
  <2>1. ds \in Seq(Seq(Byte)) /\ \A i \in 1 .. Len(ds) : Len(ds[i]) < Word
    <3>1. Len(logged) \in Nat /\ DOMAIN logged = 1 .. Len(logged) /\ \A i \in 1 .. Len(logged) : logged[i] \in WholeBatch
      BY <1>0, LenProperties, ElementOfSeq
    <3>2. \A i \in 1 .. Len(logged) : logged[i].rep \in Seq(Byte) /\ Len(logged[i].rep) < Word
      BY <3>1, BatchIs
    <3>3. ds = [i \in 1 .. Len(logged) |-> logged[i].rep]
      BY <3>1 DEF Payloads
    <3>4. ds \in Seq(Seq(Byte)) /\ Len(ds) = Len(logged)
      BY <3>1, <3>2, <3>3
    <3> QED BY <3>2, <3>3, <3>4
  <2> HIDE DEF ds
  <2> QED BY <1>2, <2>1, LogReadsBack DEF ds
<1>4. Batch.rep = rep /\ Batch.ops = ops
  BY DEF Batch
<1>5. rep \in Seq(Byte) /\ ops \in Seq(Op) /\ Len(ops) <= MaxOps /\ rep = Encoded(ops)
      /\ Frame(rep) \in Seq(Byte) /\ Len(ops) \in Nat
  BY <1>0, <1>4, BatchIs, LenProperties DEF WholeBatch
\* The log is left alone.
<1>6. ASSUME UNCHANGED <<file, logged, torn>>, Batch' \in WholeBatch PROVE LogInv'
  <2>1. Behind(tail)'
    BY <1>1, <1>6 DEF Behind
  <2> QED BY <1>0, <1>6, <2>1 DEF LogInv
\* Something is appended behind a torn record, or torn itself.
<1>7. ASSUME NEW part \in Seq(Byte), file' = file \o part, torn' = Append(torn, Batch),
             UNCHANGED <<rep, ops, logged>>
      PROVE  LogInv'
  <2>1. torn' \in Seq(WholeBatch) /\ torn' # << >>
    BY <1>0, <1>7, AppendProperties
  <2> DEFINE behind == tail \o part
  <2> HIDE DEF whole
  <2>2. behind \in Seq(Byte) /\ Associate(whole, tail, part)
    BY <1>2, <1>3, Joined
  <2>3. file' = whole \o behind
    BY <1>2, <1>7, <2>2 DEF Associate
  <2> HIDE DEF behind
  <2>4. Behind(behind)'
    BY <1>7, <2>1, <2>2, <2>3 DEF Behind, whole
  <2>5. Batch' = Batch
    BY <1>7 DEF Batch
  <2> QED BY <1>0, <1>7, <2>1, <2>4, <2>5 DEF LogInv
<1>8. ASSUME NEW o \in Op, Add(o) PROVE LogInv'
  <2>1. rep' = rep \o EncodeOp(o) /\ ops' = Append(ops, o) /\ Len(ops) < MaxOps
        /\ UNCHANGED <<file, logged, torn>>
    BY <1>8 DEF Add
  <2>2. ops' \in Seq(Op) /\ Len(ops') = Len(ops) + 1
    BY <1>5, <2>1, AppendProperties
  <2>3. rep' = Encoded(ops')
    BY <1>5, <2>1, EncodedGrows
  <2>4. Len(ops') <= MaxOps
    BY <1>5, <2>1, <2>2, LogAssumption
  <2>5. [rep |-> Encoded(ops'), ops |-> ops'] \in WholeBatch
    BY <2>2, <2>4, WholeIs
  <2>6. Batch' \in WholeBatch
    BY <2>3, <2>5 DEF Batch
  <2> QED BY <1>6, <2>1, <2>6
<1>9. ASSUME Clear \/ Reopen PROVE LogInv'
  <2>1. rep' = << >> /\ ops' = << >> /\ UNCHANGED <<file, logged, torn>>
    BY <1>9 DEF Clear, Reopen
  <2>2. Batch' \in WholeBatch
    BY <2>1, NothingIs DEF Batch
  <2> QED BY <1>6, <2>1, <2>2
<1>10. ASSUME NEW b \in Range(logged), SetData(b) PROVE LogInv'
  <2>1. rep' = b.rep /\ ops' = b.ops /\ UNCHANGED <<file, logged, torn>>
    BY <1>10 DEF SetData
  <2>2. b \in WholeBatch
    BY <1>0, ElementOfSeq, LenProperties DEF Range
  <2>3. b = [rep |-> b.rep, ops |-> b.ops]
    BY <2>2 DEF WholeBatch
  <2>4. Batch' \in WholeBatch
    BY <2>1, <2>2, <2>3 DEF Batch
  <2> QED BY <1>6, <2>1, <2>4
<1>11. ASSUME Write PROVE LogInv'
  <2>1. file' = file \o Frame(rep) /\ UNCHANGED <<rep, ops>>
    BY <1>11 DEF Write
  <2>2. CASE torn = << >>
    <3>1. logged' = Append(logged, Batch) /\ torn' = torn
      BY <1>11, <2>2 DEF Write
    <3>2. Framed(Payloads(logged')) = whole \o Frame(rep)
      BY <1>0, <1>4, <3>1, FramedGrows
    <3>3. logged' \in Seq(WholeBatch)
      BY <1>0, <3>1, AppendProperties
    <3> HIDE DEF whole
    <3> DEFINE record == Frame(rep)
    <3>4. whole \o record \in Seq(Byte)
      <4>1. record \in Seq(Byte)
        BY <1>5
      <4> HIDE DEF record
      <4> QED BY <1>3, <4>1, Joined
    <3>5. whole \o << >> = whole /\ (whole \o record) \o << >> = whole \o record
      <4> HIDE DEF record
      <4> QED BY <1>3, <3>4, ConcatEmptySeq
    <3>6. file' = Framed(Payloads(logged')) \o << >>
      BY <1>2, <2>1, <2>2, <3>2, <3>5
    <3>7. Behind(<< >>)'
      BY <2>2, <3>1, <3>6, NothingIs DEF Behind
    <3>8. Batch' = Batch
      BY <2>1 DEF Batch
    <3> QED BY <1>0, <3>1, <3>3, <3>7, <3>8 DEF LogInv
  <2>3. CASE torn # << >>
    <3>1. torn' = Append(torn, Batch) /\ logged' = logged
      BY <1>11, <2>3 DEF Write
    <3> QED BY <1>5, <1>7, <2>1, <3>1
  <2> QED BY <2>2, <2>3
<1>12. ASSUME WriteCutShort PROVE LogInv'
  <2>1. PICK n \in 1 .. Len(Frame(rep)) - 1 : file' = file \o SubSeq(Frame(rep), 1, n)
    BY <1>12 DEF WriteCutShort
  <2>2. torn' = Append(torn, Batch) /\ UNCHANGED <<rep, ops, logged>>
    BY <1>12 DEF WriteCutShort
  <2>3. n \in 0 .. Len(Frame(rep))
    <3>1. Len(Frame(rep)) \in Nat
      BY <1>5, LenProperties
    <3> QED BY <3>1
  <2>4. SubSeq(Frame(rep), 1, n) \in Seq(Byte)
    BY <1>5, <2>3, BeginningIs
  <2> QED BY <1>7, <2>1, <2>2, <2>4
<1>13. ASSUME UNCHANGED vars PROVE LogInv'
  <2>1. UNCHANGED <<file, logged, torn>> /\ Batch' = Batch
    BY <1>13 DEF vars, Batch
  <2> QED BY <1>0, <1>6, <2>1
<1>14. ASSUME WriteEmpty PROVE LogInv'
  BY <1>13, <1>14 DEF WriteEmpty
<1> QED BY <1>8, <1>9, <1>10, <1>11, <1>12, <1>13, <1>14 DEF Next

LEMMA LogInvariant == Spec => []LogInv
BY LogInvStarts, LogInvStep, PTL DEF Spec

LEMMA ReplayIsWhole == LogInv => LoggedIsReplayed
<1> SUFFICES ASSUME LogInv PROVE LoggedIsReplayed
  OBVIOUS
<1> DEFINE n == Len(logged)
           ds == Payloads(logged)
           records == Records(file)
           m == Len(records)
           replayed == [i \in DOMAIN records |-> Iterate(records[i])]
           written == [i \in DOMAIN logged |-> logged[i].ops]
<1>1. logged \in Seq(WholeBatch) /\ n \in Nat /\ DOMAIN logged = 1 .. n /\ \A i \in 1 .. n : logged[i] \in WholeBatch
  BY LenProperties, ElementOfSeq DEF LogInv
<1>2. PICK tail : Behind(tail)
  BY DEF LogInv
<1>3. \A i \in 1 .. n : /\ logged[i].rep \in Seq(Byte) /\ Len(logged[i].rep) < Word
                        /\ logged[i].ops \in Seq(Op) /\ Iterate(logged[i].rep) = logged[i].ops
  BY <1>1, BatchIs
<1>4. ds = [i \in 1 .. n |-> logged[i].rep]
  BY <1>1 DEF Payloads
<1>5. ds \in Seq(Seq(Byte)) /\ Len(ds) = n
  BY <1>1, <1>3, <1>4
<1>6. \A i \in 1 .. n : ds[i] = logged[i].rep /\ Len(ds[i]) < Word
  BY <1>3, <1>4
<1> HIDE DEF ds, n
<1>7. tail \in Seq(Byte) /\ file = Framed(ds) \o tail /\ (torn = << >> => tail = << >>)
  BY <1>2 DEF Behind, ds
<1>8. /\ records \in Seq(Seq(Byte)) /\ n <= m
      /\ \A i \in 1 .. n : records[i] = ds[i]
      /\ tail = << >> => records = ds
  BY <1>5, <1>6, <1>7, LogReadsBack
<1> HIDE DEF records
<1>9. m \in Nat /\ DOMAIN records = 1 .. m
  BY <1>8, LenProperties
<1>10. /\ DOMAIN written = 1 .. n /\ DOMAIN replayed = 1 .. m
       /\ \A i \in 1 .. n : i \in 1 .. m /\ replayed[i] = written[i]
  <2>1. \A i \in 1 .. n : i \in 1 .. m
    BY <1>1, <1>8, <1>9
  <2> QED BY <1>1, <1>3, <1>6, <1>8, <1>9, <2>1
<1> DEFINE V == {replayed[i] : i \in 1 .. m}
<1>11. replayed \in Seq(V) /\ Len(replayed) = m
  <2>1. replayed \in [1 .. m -> V]
    BY <1>10
  <2> HIDE DEF replayed, V, m
  <2> QED BY <1>9, <2>1
<1>12. written \in Seq(V) /\ Len(written) = n
  <2>1. written \in [1 .. n -> V]
    BY <1>10
  <2> HIDE DEF written, V
  <2> QED BY <1>1, <2>1
<1>13. \A i \in 1 .. n : replayed[i] = written[i]
  BY <1>10
<1> HIDE DEF written, replayed, V, m
<1>14. SubSeq(written, 1, n) = SubSeq(replayed, 1, n)
  <2>1. \A i \in 1 .. n : written[i] \in V /\ replayed[i] \in V
    BY <1>8, <1>9, <1>10, <1>11, <1>12, ElementOfSeq
  <2>2. /\ SubSeq(written, 1, n) \in Seq(V) /\ Len(SubSeq(written, 1, n)) = n
        /\ \A i \in 1 .. n : SubSeq(written, 1, n)[i] = written[i]
    BY <1>1, <1>12, <2>1, SubSeqProperties
  <2>3. /\ SubSeq(replayed, 1, n) \in Seq(V) /\ Len(SubSeq(replayed, 1, n)) = n
        /\ \A i \in 1 .. n : SubSeq(replayed, 1, n)[i] = replayed[i]
    BY <1>1, <1>11, <2>1, SubSeqProperties
  <2> QED BY <1>13, <2>2, <2>3, SeqEqual
<1>15. IsPrefix(written, replayed)
  BY <1>8, <1>11, <1>12, <1>14 DEF IsPrefix
<1>16. ASSUME torn = << >> PROVE replayed = written
  <2>1. m = n
    BY <1>5, <1>7, <1>8, <1>16 DEF m
  <2> QED BY <1>11, <1>12, <1>13, <2>1, SeqEqual
<1> QED BY <1>15, <1>16 DEF LoggedIsReplayed, written, replayed, records

(***************************************************************************)
(* Every batch that was appended whole before an append was cut short is   *)
(* replayed with all of its operations, in order and before anything else, *)
(* and without a torn append nothing else is. Whatever is behind them in   *)
(* the file, a record cut off at any byte or records appended behind that  *)
(* one, cannot change it (AddRecord, ReplayAll, WriteBatch::Iterate).      *)
(***************************************************************************)
THEOREM AppendedIsReplayed == Spec => []LoggedIsReplayed
BY LogInvariant, ReplayIsWhole, PTL

=============================================================================
