--------------------------- MODULE ManifestProofs ---------------------------
(***************************************************************************)
(* Version::Load reads back every version that Version::Save can write,    *)
(* and a process that starts always loads the last one that was saved.     *)
(***************************************************************************)
EXTENDS ManifestFile, CodingProofs

-----------------------------------------------------------------------------
(* One table of the manifest *)

\* Whatever is written in a fixed number of bytes fits.
LEMMA Fits ==
    /\ Fixed32 \in Nat \ {0} /\ Fixed64 \in Nat \ {0}
    /\ Word = Power(ByteRadix, Fixed32)
    /\ kMaxLevels \in Nat /\ kMaxLevels \in 0 .. Power(ByteRadix, Fixed32) - 1
    /\ kManifestMagic \in Nat /\ kManifestMagic \in 0 .. Power(ByteRadix, Fixed64) - 1
    /\ MaxNumber \in Nat /\ 1 .. MaxNumber \subseteq 0 .. Power(ByteRadix, Fixed64) - 1
    /\ Sizes \subseteq Nat /\ Sizes \subseteq 0 .. Power(ByteRadix, Fixed64) - 1
    /\ MaxFiles \in Nat /\ MaxFiles < Word
<1>1. Fixed32 \in Nat \ {0} /\ Fixed64 \in Nat \ {0} /\ ByteRadix \in Nat /\ Word \in Nat
  BY Widths
<1>2. Power(ByteRadix, Fixed64) \in Nat /\ Power(ByteRadix, Fixed32) \in Nat
  BY <1>1, PowerIs
<1> QED BY <1>1, <1>2, ManifestAssumption DEF Word

LEMMA FileIs ==
    ASSUME NEW fm \in FileMetaData
    PROVE  /\ fm = [number |-> fm.number, file_size |-> fm.file_size,
                    min_key |-> fm.min_key, max_key |-> fm.max_key]
           /\ fm.number \in 1 .. MaxNumber /\ fm.file_size \in Sizes
           /\ fm.min_key \in Seq(Byte) /\ Len(fm.min_key) < Word
           /\ fm.max_key \in Seq(Byte) /\ Len(fm.max_key) < Word
<1>1. \A key \in Keys : key \in Seq(Byte) /\ Len(key) < Word
  BY ManifestAssumption
<1> QED BY <1>1 DEF FileMetaData

LEMMA FileReadsBack ==
    ASSUME NEW fm \in FileMetaData, NEW t \in Seq(Byte)
    PROVE  /\ EncodeFile(fm) \in Seq(Byte)
           /\ GetFile(EncodeFile(fm) \o t) = [ok |-> TRUE, value |-> fm, rest |-> t]
<1> DEFINE a == Fixed(fm.number, Fixed64)
           b == Fixed(fm.file_size, Fixed64)
           c == LengthPrefixed(fm.min_key)
           d == LengthPrefixed(fm.max_key)
<1>0. /\ fm = [number |-> fm.number, file_size |-> fm.file_size,
                min_key |-> fm.min_key, max_key |-> fm.max_key]
      /\ fm.number \in 0 .. Power(ByteRadix, Fixed64) - 1 /\ fm.number \in Nat
      /\ fm.file_size \in 0 .. Power(ByteRadix, Fixed64) - 1 /\ fm.file_size \in Nat
      /\ fm.min_key \in Seq(Byte) /\ Len(fm.min_key) < Word
      /\ fm.max_key \in Seq(Byte) /\ Len(fm.max_key) < Word
      /\ Fixed64 \in Nat
  BY FileIs, Fits
<1>1. /\ a \in Seq(Byte) /\ Len(a) = Fixed64 /\ b \in Seq(Byte) /\ Len(b) = Fixed64
      /\ c \in Seq(Byte) /\ d \in Seq(Byte)
  BY <1>0, FixedType, LengthPrefixedType
<1>2. EncodeFile(fm) = ((a \o b) \o c) \o d
  BY DEF EncodeFile
<1>3. /\ GetFixed(a \o (b \o (c \o (d \o t))), Fixed64) = [ok |-> TRUE, value |-> fm.number, rest |-> b \o (c \o (d \o t))]
      /\ GetFixed(b \o (c \o (d \o t)), Fixed64) = [ok |-> TRUE, value |-> fm.file_size, rest |-> c \o (d \o t)]
      /\ GetLengthPrefixed(c \o (d \o t)) = [ok |-> TRUE, value |-> fm.min_key, rest |-> d \o t]
      /\ GetLengthPrefixed(d \o t) = [ok |-> TRUE, value |-> fm.max_key, rest |-> t]
  <2>1. d \o t \in Seq(Byte) /\ c \o (d \o t) \in Seq(Byte) /\ b \o (c \o (d \o t)) \in Seq(Byte)
    BY <1>1, ConcatProperties
  <2> QED BY <1>0, <2>1, FixedReadsBack, LengthPrefixedReadsBack
<1> HIDE DEF a, b, c, d
<1>4. /\ ((a \o b) \o c) \o d \in Seq(Byte)
      /\ (((a \o b) \o c) \o d) \o t = a \o (b \o (c \o (d \o t)))
      /\ Len(a \o (b \o (c \o (d \o t)))) = Len(a) + Len(b) + Len(c) + Len(d) + Len(t)
      /\ Len(c) \in Nat /\ Len(d) \in Nat /\ Len(t) \in Nat
  <2>1. TakenApart(a, b, c, d, t)
    BY <1>1, Joined4
  <2> QED BY <2>1 DEF TakenApart
<1> DEFINE s == a \o (b \o (c \o (d \o t)))
           number == GetFixed(s, Fixed64)
           size   == GetFixed(number.rest, Fixed64)
           min    == GetLengthPrefixed(size.rest)
           max    == GetLengthPrefixed(min.rest)
<1>6. ~(Len(s) < 2 * Fixed64)
  BY <1>0, <1>1, <1>4
<1>7. /\ number.value = fm.number /\ number.rest = b \o (c \o (d \o t))
      /\ size.value = fm.file_size /\ size.rest = c \o (d \o t)
      /\ min.ok /\ min.value = fm.min_key /\ min.rest = d \o t
      /\ max.ok /\ max.value = fm.max_key /\ max.rest = t
  <2>1. number = [ok |-> TRUE, value |-> fm.number, rest |-> b \o (c \o (d \o t))]
    BY <1>3
  <2> HIDE DEF number
  <2>2. number.value = fm.number /\ number.rest = b \o (c \o (d \o t))
    BY <2>1
  <2>3. size = [ok |-> TRUE, value |-> fm.file_size, rest |-> c \o (d \o t)]
    BY <1>3, <2>2
  <2> HIDE DEF size
  <2>4. size.value = fm.file_size /\ size.rest = c \o (d \o t)
    BY <2>3
  <2>5. min = [ok |-> TRUE, value |-> fm.min_key, rest |-> d \o t]
    BY <1>3, <2>4
  <2> HIDE DEF min
  <2>6. min.ok /\ min.value = fm.min_key /\ min.rest = d \o t
    BY <2>5
  <2>7. max = [ok |-> TRUE, value |-> fm.max_key, rest |-> t]
    BY <1>3, <2>6
  <2> HIDE DEF max
  <2>8. max.ok /\ max.value = fm.max_key /\ max.rest = t
    BY <2>7
  <2> QED BY <2>2, <2>4, <2>6, <2>8
<1>8. GetFile(s) = IF Len(s) < 2 * Fixed64 THEN Malformed
                   ELSE IF ~min.ok THEN Malformed
                   ELSE IF ~max.ok THEN Malformed
                   ELSE [ok |-> TRUE, rest |-> max.rest,
                         value |-> [number |-> number.value, file_size |-> size.value,
                                    min_key |-> min.value, max_key |-> max.value]]
  BY DEF GetFile
<1> HIDE DEF s, number, size, min, max
<1>9. GetFile(s) = [ok |-> TRUE, rest |-> t,
                    value |-> [number |-> fm.number, file_size |-> fm.file_size,
                               min_key |-> fm.min_key, max_key |-> fm.max_key]]
  BY <1>6, <1>7, <1>8
<1>10. GetFile(s) = [ok |-> TRUE, value |-> fm, rest |-> t]
  BY <1>0, <1>9
<1> QED BY <1>2, <1>4, <1>10 DEF s

-----------------------------------------------------------------------------
(* The loops of Load *)

FileAfter(before) == Appended(before, GetFile(before.rest))

LEMMA FilesReadBack ==
    ASSUME NEW files \in Seq(FileMetaData), NEW t \in Seq(Byte)
    PROVE  LET flat == FlattenSeq([i \in DOMAIN files |-> EncodeFile(files[i])])
           IN  /\ flat \in Seq(Byte)
               /\ GetFiles(Len(files), flat \o t) = [ok |-> TRUE, value |-> files, rest |-> t]
<1> DEFINE n == Len(files)
           ss == [i \in 1 .. n |-> EncodeFile(files[i])]
           flat == FlattenSeq([i \in DOMAIN files |-> EncodeFile(files[i])])
<1>1. n \in Nat /\ DOMAIN files = 1 .. n /\ \A i \in 1 .. n : files[i] \in FileMetaData
  BY LenProperties, ElementOfSeq
<1>2. flat = FlattenSeq(ss)
  BY <1>1
<1>3. ss \in [1 .. n -> Seq(Byte)] /\ \A i \in 1 .. n : ss[i] = EncodeFile(files[i])
  BY <1>1, FileReadsBack
<1> HIDE DEF ss, n, flat
<1>4. PICK h : SuffixesOf(h, Byte, ss, n)
  BY <1>1, <1>3, SuffixesExist
<1>5. flat = h[1] /\ flat \in Seq(Byte)
  BY <1>1, <1>2, <1>3, <1>4, FlattenIs
<1>6. /\ \A i \in 1 .. n + 1 : h[i] \in Seq(Byte)
      /\ h[n + 1] = << >> /\ \A i \in 1 .. n : h[i] = EncodeFile(files[i]) \o h[i + 1]
  BY <1>3, <1>4 DEF SuffixesOf
<1> DEFINE s == flat \o t
           tail(i) == h[i + 1] \o t
           Equation(f) == f = [i \in 0 .. n |-> IF i = 0 THEN Parsed(s, 0, << >>) ELSE FileAfter(f[i - 1])]
           f == CHOOSE g : Equation(g)
           g == [i \in 0 .. n |-> [ok |-> TRUE, value |-> SubSeq(files, 1, i), rest |-> tail(i)]]
<1>7. GetFiles(n, s) = f[n]
  BY DEF GetFiles, FileAfter
<1>8. ASSUME NEW i \in 1 .. n
      PROVE  GetFile(tail(i - 1)) = [ok |-> TRUE, value |-> files[i], rest |-> tail(i)]
  <2> DEFINE e == EncodeFile(files[i])
             r == h[i + 1]
  <2>1. (i - 1) + 1 = i /\ i + 1 \in 1 .. n + 1 /\ files[i] \in FileMetaData
    BY <1>1
  <2>2. r \in Seq(Byte) /\ e \in Seq(Byte) /\ r \o t \in Seq(Byte)
    BY <1>6, <2>1, FileReadsBack, Joined
  <2>3. tail(i - 1) = (e \o r) \o t
    BY <1>6, <2>1
  <2>4. Associate(e, r, t)
    <3> HIDE DEF e, r
    <3> QED BY <2>2, Joined
  <2>5. tail(i - 1) = e \o (r \o t)
    BY <2>3, <2>4 DEF Associate
  <2>6. GetFile(e \o (r \o t)) = [ok |-> TRUE, value |-> files[i], rest |-> r \o t]
    BY <2>1, <2>2, FileReadsBack
  <2> QED BY <2>5, <2>6
<1>9. tail(0) = s /\ tail(n) = t /\ s \in Seq(Byte)
  <2>1. << >> \o t = t
    BY ConcatEmptySeq
  <2>2. s \in Seq(Byte)
    BY <1>5, Joined
  <2> QED BY <1>5, <1>6, <2>1, <2>2
<1> HIDE DEF s, tail
<1>10. \A i \in 0 .. n : g[i] = IF i = 0 THEN Parsed(s, 0, << >>) ELSE FileAfter(g[i - 1])
  <2> TAKE i \in 0 .. n
  <2>1. CASE i = 0
    <3>1. Parsed(s, 0, << >>) = [ok |-> TRUE, value |-> << >>, rest |-> s]
      BY <1>9, RestZero DEF Parsed
    <3>2. SubSeq(files, 1, 0) = << >>
      BY SubSeqGrows
    <3> QED BY <1>9, <2>1, <3>1, <3>2
  <2>2. CASE i # 0
    <3>1. i \in 1 .. n /\ i - 1 \in 0 .. n
      BY <1>1, <2>2
    <3>2. g[i - 1] = [ok |-> TRUE, value |-> SubSeq(files, 1, i - 1), rest |-> tail(i - 1)]
      BY <3>1
    <3>3. g[i] = [ok |-> TRUE, value |-> SubSeq(files, 1, i), rest |-> tail(i)]
      OBVIOUS
    <3>4. GetFile(tail(i - 1)) = [ok |-> TRUE, value |-> files[i], rest |-> tail(i)]
      BY <1>8, <3>1
    <3>5. Append(SubSeq(files, 1, i - 1), files[i]) = SubSeq(files, 1, i)
      BY <3>1, SubSeqGrows DEF n
    <3> HIDE DEF g
    <3>6. FileAfter(g[i - 1]) = [ok |-> TRUE, value |-> Append(SubSeq(files, 1, i - 1), files[i]), rest |-> tail(i)]
      <4> DEFINE before == g[i - 1]
                 file == GetFile(before.rest)
      <4>1. before.ok /\ before.value = SubSeq(files, 1, i - 1) /\ before.rest = tail(i - 1)
        BY <3>2
      <4>2. file.ok /\ file.value = files[i] /\ file.rest = tail(i)
        BY <3>4, <4>1
      <4>3. FileAfter(before) = IF ~before.ok THEN Malformed
                                ELSE IF ~file.ok THEN Malformed
                                ELSE [ok |-> TRUE, value |-> Append(before.value, file.value), rest |-> file.rest]
        BY DEF FileAfter, Appended
      <4> HIDE DEF file, before
      <4>4. FileAfter(before) = [ok |-> TRUE, value |-> Append(SubSeq(files, 1, i - 1), files[i]), rest |-> tail(i)]
        BY <4>1, <4>2, <4>3
      <4> QED BY <4>4 DEF before
    <3> QED BY <2>2, <3>3, <3>5, <3>6
  <2> QED BY <2>1, <2>2
<1>11. Equation(g)
  <2>1. g = [i \in 0 .. n |-> g[i]]
    OBVIOUS
  <2> HIDE DEF g
  <2> QED BY <1>10, <2>1
<1>12. Equation(f)
  <2> HIDE DEF g
  <2> QED BY <1>11
<1> HIDE DEF f
<1>13. \A i \in 0 .. n : f[i] = IF i = 0 THEN Parsed(s, 0, << >>) ELSE FileAfter(f[i - 1])
  BY <1>12
<1>14. g[n] = [ok |-> TRUE, value |-> files, rest |-> t]
  <2>1. SubSeq(files, 1, n) = files
    BY SubSeqGrows DEF n
  <2>2. n \in 0 .. n
    BY <1>1
  <2>3. g[n] = [ok |-> TRUE, value |-> SubSeq(files, 1, n), rest |-> tail(n)]
    BY <2>2
  <2> QED BY <1>9, <2>1, <2>3
<1> HIDE DEF g
<1> DEFINE T == {i \in Nat : i <= n => f[i] = g[i]}
<1>15. 0 \in T
  BY <1>1, <1>10, <1>13
<1>16. ASSUME NEW i \in Nat, i \in T PROVE i + 1 \in T
  <2> SUFFICES ASSUME i + 1 <= n PROVE f[i + 1] = g[i + 1]
    OBVIOUS
  <2>1. i <= n /\ i + 1 \in 0 .. n /\ i + 1 # 0 /\ (i + 1) - 1 = i
    BY <1>1
  <2>2. f[i] = g[i]
    BY <1>16, <2>1
  <2> QED BY <1>10, <1>13, <2>1, <2>2
<1>17. n \in T
  <2> HIDE DEF T
  <2> QED BY <1>1, <1>15, <1>16, InductionOnNat
<1>18. GetFiles(n, s) = [ok |-> TRUE, value |-> files, rest |-> t]
  BY <1>1, <1>7, <1>14, <1>17
<1> QED BY <1>5, <1>18 DEF s, n, flat

LevelAfter(before) == Appended(before, GetLevel(before.rest))

LEMMA LevelReadsBack ==
    ASSUME NEW files \in Seq(FileMetaData), Len(files) < Word, NEW t \in Seq(Byte)
    PROVE  /\ EncodeLevel(files) \in Seq(Byte)
           /\ \A levels : LevelAfter([ok |-> TRUE, value |-> levels, rest |-> EncodeLevel(files) \o t])
                            = [ok |-> TRUE, value |-> Append(levels, files), rest |-> t]
<1> DEFINE flat == FlattenSeq([i \in DOMAIN files |-> EncodeFile(files[i])])
           c == Fixed(Len(files), Fixed32)
           s == EncodeLevel(files) \o t
<1>1. Len(files) \in 0 .. Power(ByteRadix, Fixed32) - 1 /\ Len(files) \in Nat /\ Fixed32 \in Nat
  BY Fits, LenProperties, Widths
<1>2. flat \in Seq(Byte) /\ GetFiles(Len(files), flat \o t) = [ok |-> TRUE, value |-> files, rest |-> t]
  BY FilesReadBack
<1>3. c \in Seq(Byte)
  BY <1>1, FixedType
<1>4. EncodeLevel(files) = c \o flat
  BY DEF EncodeLevel
<1> HIDE DEF flat
<1>5. flat \o t \in Seq(Byte)
  BY <1>2, Joined
<1>6. GetFixed(c \o (flat \o t), Fixed32) = [ok |-> TRUE, value |-> Len(files), rest |-> flat \o t]
  BY <1>1, <1>5, FixedReadsBack
<1> HIDE DEF c
<1>7. c \o flat \in Seq(Byte) /\ Associate(c, flat, t)
  BY <1>2, <1>3, Joined
<1>8. s = c \o (flat \o t)
  BY <1>4, <1>7 DEF Associate
<1> HIDE DEF s
<1>9. ASSUME NEW levels
      PROVE  LevelAfter([ok |-> TRUE, value |-> levels, rest |-> s])
               = [ok |-> TRUE, value |-> Append(levels, files), rest |-> t]
  <2> DEFINE before == [ok |-> TRUE, value |-> levels, rest |-> s]
             level == GetLevel(before.rest)
             count == GetFixed(s, Fixed32)
  <2>1. before.ok /\ before.value = levels /\ before.rest = s
    OBVIOUS
  <2>2. LevelAfter(before) = IF ~before.ok THEN Malformed
                             ELSE IF ~level.ok THEN Malformed
                             ELSE [ok |-> TRUE, value |-> Append(before.value, level.value), rest |-> level.rest]
    BY DEF LevelAfter, Appended
  <2>3. count.ok /\ count.value = Len(files) /\ count.rest = flat \o t
    BY <1>6, <1>8
  <2>4. GetLevel(s) = IF ~count.ok THEN Malformed ELSE GetFiles(count.value, count.rest)
    BY DEF GetLevel
  <2> HIDE DEF before, count
  <2>5. level.ok /\ level.value = files /\ level.rest = t
    BY <1>2, <2>1, <2>3, <2>4
  <2> HIDE DEF level
  <2>6. LevelAfter(before) = [ok |-> TRUE, value |-> Append(levels, files), rest |-> t]
    BY <2>1, <2>2, <2>3, <2>5
  <2> QED BY <2>6 DEF before
<1> QED BY <1>4, <1>7, <1>9 DEF s

LEMMA LevelsReadBack ==
    ASSUME NEW n \in Nat, NEW levels \in [1 .. n -> Seq(FileMetaData)],
           \A l \in 1 .. n : Len(levels[l]) < Word
    PROVE  LET flat == FlattenSeq([l \in 1 .. n |-> EncodeLevel(levels[l])])
           IN  /\ flat \in Seq(Byte)
               /\ GetLevels(n, flat) = [ok |-> TRUE, value |-> levels, rest |-> << >>]
<1> DEFINE ss == [l \in 1 .. n |-> EncodeLevel(levels[l])]
           flat == FlattenSeq(ss)
<1>1. << >> \in Seq(Byte) /\ levels \in Seq(Seq(FileMetaData)) /\ Len(levels) = n
  OBVIOUS
<1>2. ss \in [1 .. n -> Seq(Byte)] /\ \A l \in 1 .. n : ss[l] = EncodeLevel(levels[l])
  BY <1>1, LevelReadsBack
<1> HIDE DEF ss
<1>3. PICK h : SuffixesOf(h, Byte, ss, n)
  BY <1>2, SuffixesExist
<1>4. flat = h[1] /\ flat \in Seq(Byte)
  BY <1>2, <1>3, FlattenIs
<1>5. /\ \A i \in 1 .. n + 1 : h[i] \in Seq(Byte)
      /\ h[n + 1] = << >> /\ \A i \in 1 .. n : h[i] = EncodeLevel(levels[i]) \o h[i + 1]
  BY <1>2, <1>3 DEF SuffixesOf
<1> HIDE DEF flat
<1> DEFINE Equation(f) == f = [i \in 0 .. n |-> IF i = 0 THEN Parsed(flat, 0, << >>) ELSE LevelAfter(f[i - 1])]
           f == CHOOSE g : Equation(g)
           g == [i \in 0 .. n |-> [ok |-> TRUE, value |-> SubSeq(levels, 1, i), rest |-> h[i + 1]]]
<1>6. GetLevels(n, flat) = f[n]
  BY DEF GetLevels, LevelAfter
<1>7. \A i \in 0 .. n : g[i] = IF i = 0 THEN Parsed(flat, 0, << >>) ELSE LevelAfter(g[i - 1])
  <2> TAKE i \in 0 .. n
  <2>1. CASE i = 0
    <3>1. Parsed(flat, 0, << >>) = [ok |-> TRUE, value |-> << >>, rest |-> flat]
      BY <1>4, RestZero DEF Parsed
    <3>2. SubSeq(levels, 1, 0) = << >>
      BY <1>1, SubSeqGrows
    <3>3. g[0] = [ok |-> TRUE, value |-> SubSeq(levels, 1, 0), rest |-> h[0 + 1]]
      OBVIOUS
    <3>4. h[0 + 1] = flat
      BY <1>4
    <3> HIDE DEF g
    <3> QED BY <2>1, <3>1, <3>2, <3>3, <3>4
  <2>2. CASE i # 0
    <3>1. i \in 1 .. n /\ i - 1 \in 0 .. n /\ (i - 1) + 1 = i /\ i + 1 \in 1 .. n + 1
      BY <2>2
    <3>2. g[i - 1] = [ok |-> TRUE, value |-> SubSeq(levels, 1, i - 1), rest |-> h[i]]
      BY <3>1
    <3>3. g[i] = [ok |-> TRUE, value |-> SubSeq(levels, 1, i), rest |-> h[i + 1]]
      OBVIOUS
    <3>4. Append(SubSeq(levels, 1, i - 1), levels[i]) = SubSeq(levels, 1, i)
      BY <1>1, <3>1, SubSeqGrows
    <3>5. h[i] = EncodeLevel(levels[i]) \o h[i + 1] /\ h[i + 1] \in Seq(Byte)
      BY <1>5, <3>1
    <3>6. levels[i] \in Seq(FileMetaData) /\ Len(levels[i]) < Word
      BY <3>1
    <3> HIDE DEF g
    <3>7. LevelAfter([ok |-> TRUE, value |-> SubSeq(levels, 1, i - 1), rest |-> EncodeLevel(levels[i]) \o h[i + 1]])
            = [ok |-> TRUE, value |-> Append(SubSeq(levels, 1, i - 1), levels[i]), rest |-> h[i + 1]]
      BY <3>5, <3>6, LevelReadsBack
    <3> QED BY <2>2, <3>2, <3>3, <3>4, <3>5, <3>7
  <2> QED BY <2>1, <2>2
<1>8. Equation(g)
  <2>1. g = [i \in 0 .. n |-> g[i]]
    OBVIOUS
  <2> HIDE DEF g
  <2> QED BY <1>7, <2>1
<1>9. Equation(f)
  <2> HIDE DEF g
  <2> QED BY <1>8
<1> HIDE DEF f
<1>10. \A i \in 0 .. n : f[i] = IF i = 0 THEN Parsed(flat, 0, << >>) ELSE LevelAfter(f[i - 1])
  BY <1>9
<1>11. g[n] = [ok |-> TRUE, value |-> levels, rest |-> << >>]
  <2>1. SubSeq(levels, 1, n) = levels
    BY <1>1, SubSeqGrows
  <2>2. n \in 0 .. n
    OBVIOUS
  <2>3. g[n] = [ok |-> TRUE, value |-> SubSeq(levels, 1, n), rest |-> h[n + 1]]
    BY <2>2
  <2> QED BY <1>5, <2>1, <2>3
<1> HIDE DEF g
<1> DEFINE T == {i \in Nat : i <= n => f[i] = g[i]}
<1>12. 0 \in T
  BY <1>7, <1>10
<1>13. ASSUME NEW i \in Nat, i \in T PROVE i + 1 \in T
  <2> SUFFICES ASSUME i + 1 <= n PROVE f[i + 1] = g[i + 1]
    OBVIOUS
  <2>1. i <= n /\ i + 1 \in 0 .. n /\ i + 1 # 0 /\ (i + 1) - 1 = i
    OBVIOUS
  <2>2. f[i] = g[i]
    BY <1>13, <2>1
  <2> QED BY <1>7, <1>10, <2>1, <2>2
<1>14. n \in T
  <2> HIDE DEF T
  <2> QED BY <1>12, <1>13, InductionOnNat
<1>15. GetLevels(n, flat) = [ok |-> TRUE, value |-> levels, rest |-> << >>]
  BY <1>6, <1>11, <1>14
<1> QED BY <1>4, <1>15 DEF flat, ss

-----------------------------------------------------------------------------
(* The whole file *)

\* A version whose tables are numbered below the next number, and not more than there may be.
Below(next) == {fm \in FileMetaData : fm.number < next}

Saveable(v) ==
    /\ v \in Versions
    /\ v.levels \in [1 .. kMaxLevels -> Seq(Below(v.next))]
    /\ Len(Tables(v)) <= MaxFiles

(***************************************************************************)
(* Load of what Save has written gives the version that was saved: every   *)
(* number, size and key of every table, in order.                          *)
(***************************************************************************)
THEOREM LoadReadsBack ==
    ASSUME NEW v, Saveable(v)
    PROVE  /\ Encode(v) \in Seq(Byte)
           /\ Load(Encode(v)) = [ok |-> TRUE, value |-> v]
<1> DEFINE m == Fixed(kManifestMagic, Fixed64)
           x == Fixed(v.next, Fixed64)
           k == Fixed(kMaxLevels, Fixed32)
           flat == FlattenSeq([l \in 1 .. kMaxLevels |-> EncodeLevel(v.levels[l])])
           buf == ((m \o x) \o k) \o flat
           c == Fixed(Crc(buf), Fixed32)
           f == c \o buf
<1>1. /\ v = [next |-> v.next, levels |-> v.levels]
      /\ v.next \in 0 .. Power(ByteRadix, Fixed64) - 1 /\ v.next \in Nat
      /\ v.levels \in [1 .. kMaxLevels -> Seq(FileMetaData)]
      /\ Len(FlattenSeq(v.levels)) <= MaxFiles
  BY Fits DEF Saveable, Versions, Tables
<1>2. \A l \in 1 .. kMaxLevels : Len(v.levels[l]) < Word
  <2>1. /\ Len(FlattenSeq(v.levels)) \in Nat
        /\ \A l \in 1 .. kMaxLevels : /\ Len(v.levels[l]) \in Nat
                                      /\ Len(v.levels[l]) <= Len(FlattenSeq(v.levels))
    BY <1>1, Fits, PartsOf
  <2>2. MaxFiles \in Nat /\ Word \in Nat /\ MaxFiles < Word
    BY Fits, Widths
  <2> TAKE l \in 1 .. kMaxLevels
  <2>3. Len(v.levels[l]) \in Nat /\ Len(v.levels[l]) <= Len(FlattenSeq(v.levels))
    BY <2>1
  <2>4. Len(FlattenSeq(v.levels)) \in Nat /\ Len(FlattenSeq(v.levels)) <= MaxFiles
    BY <1>1, <2>1
  <2> QED BY <2>2, <2>3, <2>4
<1>3. flat \in Seq(Byte) /\ GetLevels(kMaxLevels, flat) = [ok |-> TRUE, value |-> v.levels, rest |-> << >>]
  BY <1>1, <1>2, Fits, LevelsReadBack
<1>4. /\ m \in Seq(Byte) /\ Len(m) = Fixed64 /\ x \in Seq(Byte) /\ Len(x) = Fixed64
      /\ k \in Seq(Byte) /\ Len(k) = Fixed32 /\ Fixed32 \in Nat /\ Fixed64 \in Nat
  BY <1>1, Fits, FixedType
<1>5. Encode(v) = f
  BY DEF Encode
<1> HIDE DEF flat
<1>6. /\ GetFixed(m \o (x \o (k \o flat)), Fixed64)
           = [ok |-> TRUE, value |-> kManifestMagic, rest |-> x \o (k \o flat)]
      /\ GetFixed(x \o (k \o flat), Fixed64) = [ok |-> TRUE, value |-> v.next, rest |-> k \o flat]
      /\ GetFixed(k \o flat, Fixed32) = [ok |-> TRUE, value |-> kMaxLevels, rest |-> flat]
  <2>1. k \o flat \in Seq(Byte) /\ x \o (k \o flat) \in Seq(Byte)
    BY <1>3, <1>4, Joined
  <2>2. /\ {Fixed32, Fixed64} \subseteq Nat
        /\ {kManifestMagic, v.next} \subseteq 0 .. Power(ByteRadix, Fixed64) - 1
        /\ kMaxLevels \in 0 .. Power(ByteRadix, Fixed32) - 1
    BY <1>1, <1>4, Fits
  <2>3. GetFixed(m \o (x \o (k \o flat)), Fixed64)
          = [ok |-> TRUE, value |-> kManifestMagic, rest |-> x \o (k \o flat)]
    BY <2>1, <2>2, FixedReadsBack
  <2>4. GetFixed(x \o (k \o flat), Fixed64) = [ok |-> TRUE, value |-> v.next, rest |-> k \o flat]
    BY <2>1, <2>2, FixedReadsBack
  <2>5. GetFixed(k \o flat, Fixed32) = [ok |-> TRUE, value |-> kMaxLevels, rest |-> flat]
    BY <1>3, <2>2, FixedReadsBack
  <2> QED BY <2>3, <2>4, <2>5
<1> HIDE DEF m, x, k
<1>7. /\ buf \in Seq(Byte) /\ buf = m \o (x \o (k \o flat))
      /\ Len(buf) = Fixed64 + Fixed64 + Fixed32 + Len(flat) /\ Len(flat) \in Nat
  <2>1. << >> \in Seq(Byte) /\ Len(<< >>) = 0 /\ flat \o << >> = flat
    BY <1>3, EmptySeq, ConcatEmptySeq
  <2>2. TakenApart(m, x, k, flat, << >>)
    BY <1>3, <1>4, <2>1, Joined4
  <2>3. buf \in Seq(Byte) /\ buf \o << >> = buf
    BY <2>2, ConcatEmptySeq DEF TakenApart
  <2>4. buf = m \o (x \o (k \o flat)) /\ Len(buf) = Len(m) + Len(x) + Len(k) + Len(flat) + 0
        /\ Len(flat) \in Nat
    BY <2>1, <2>2, <2>3 DEF TakenApart
  <2> QED BY <1>4, <2>3, <2>4
<1> HIDE DEF buf
<1>8. Crc(buf) \in 0 .. Power(ByteRadix, Fixed32) - 1 /\ Crc(buf) \in Nat
  <2>1. Crc(buf) \in 0 .. Word - 1
    BY <1>7, CrcIs
  <2> QED BY <2>1, Fits, Widths
<1>9. c \in Seq(Byte) /\ Len(c) = Fixed32
  BY <1>4, <1>8, FixedType
<1>10. GetFixed(f, Fixed32) = [ok |-> TRUE, value |-> Crc(buf), rest |-> buf]
  BY <1>4, <1>7, <1>8, FixedReadsBack
<1> HIDE DEF c
<1>11. f \in Seq(Byte) /\ Len(f) = Fixed32 + Len(buf) /\ Rest(f, Fixed32) = buf
  <2>1. c \in Seq(Byte) /\ buf \in Seq(Byte) /\ Len(c) = Fixed32
    BY <1>7, <1>9
  <2> QED BY <2>1, TakeOff
<1> HIDE DEF f
<1> DEFINE body   == Rest(f, Fixed32)
           magic  == GetFixed(body, Fixed64)
           next   == GetFixed(magic.rest, Fixed64)
           levels == GetFixed(next.rest, Fixed32)
           files  == GetLevels(kMaxLevels, levels.rest)
<1>12. Load(f) = IF Len(f) < Fixed32 THEN Malformed
                 ELSE IF Crc(body) # GetFixed(f, Fixed32).value THEN Malformed
                 ELSE IF Len(body) < 2 * Fixed64 + Fixed32 THEN Malformed
                 ELSE IF magic.value # kManifestMagic THEN Malformed
                 ELSE IF levels.value # kMaxLevels THEN Malformed
                 ELSE IF ~files.ok THEN Malformed
                 ELSE [ok |-> TRUE, value |-> [next |-> next.value, levels |-> files.value]]
  BY DEF Load
<1>13. body = buf
  BY <1>11
<1> HIDE DEF body
<1>14. magic.value = kManifestMagic /\ magic.rest = x \o (k \o flat)
  BY <1>6, <1>7, <1>13
<1> HIDE DEF magic
<1>15. next.value = v.next /\ next.rest = k \o flat
  BY <1>6, <1>14
<1> HIDE DEF next
<1>16. levels.value = kMaxLevels /\ levels.rest = flat
  BY <1>6, <1>15
<1> HIDE DEF levels
<1>17. files.ok /\ files.value = v.levels
  BY <1>3, <1>16
<1> HIDE DEF files
<1>18. ~(Len(f) < Fixed32) /\ ~(Len(body) < 2 * Fixed64 + Fixed32)
  BY <1>4, <1>7, <1>11, <1>13
<1>19. Crc(body) = GetFixed(f, Fixed32).value
  BY <1>10, <1>13
<1>20. Load(f) = [ok |-> TRUE, value |-> [next |-> v.next, levels |-> v.levels]]
  BY <1>12, <1>14, <1>15, <1>16, <1>17, <1>18, <1>19
<1> QED BY <1>1, <1>5, <1>11, <1>20

-----------------------------------------------------------------------------
(* The save and its crashes *)

\* The tables of a version become at most as many more as one level gets.
LEMMA FlattenGrows ==
    ASSUME NEW S, NEW n \in Nat, NEW ss \in [1 .. n -> Seq(S)], NEW R, NEW tt \in [1 .. n -> Seq(R)],
           NEW l \in 1 .. n, NEW d \in Nat,
           \A i \in 1 .. n : Len(tt[i]) <= Len(ss[i]) + (IF i = l THEN d ELSE 0)
    PROVE  Len(FlattenSeq(tt)) <= Len(FlattenSeq(ss)) + d
<1>1. PICK h : SuffixesOf(h, S, ss, n)
  BY SuffixesExist
<1>2. PICK g : SuffixesOf(g, R, tt, n)
  BY SuffixesExist
<1>3. FlattenSeq(ss) = h[1] /\ FlattenSeq(tt) = g[1]
  BY <1>1, <1>2, FlattenIs
<1>4. ASSUME NEW i \in 1 .. n
      PROVE  /\ Len(h[i]) = Len(ss[i]) + Len(h[i + 1]) /\ Len(h[i]) \in Nat
             /\ Len(ss[i]) \in Nat /\ Len(h[i + 1]) \in Nat
             /\ Len(g[i]) = Len(tt[i]) + Len(g[i + 1]) /\ Len(g[i]) \in Nat
             /\ Len(tt[i]) \in Nat /\ Len(g[i + 1]) \in Nat
  <2>0. i + 1 \in 1 .. n + 1
    OBVIOUS
  <2>1. h[i] = ss[i] \o h[i + 1] /\ h[i + 1] \in Seq(S) /\ ss[i] \in Seq(S)
    BY <1>1, <2>0 DEF SuffixesOf
  <2>2. g[i] = tt[i] \o g[i + 1] /\ g[i + 1] \in Seq(R) /\ tt[i] \in Seq(R)
    BY <1>2, <2>0 DEF SuffixesOf
  <2>3. /\ Len(h[i]) = Len(ss[i]) + Len(h[i + 1]) /\ Len(h[i]) \in Nat
        /\ Len(ss[i]) \in Nat /\ Len(h[i + 1]) \in Nat
    BY <2>1, ConcatProperties, LenProperties
  <2>4. /\ Len(g[i]) = Len(tt[i]) + Len(g[i + 1]) /\ Len(g[i]) \in Nat
        /\ Len(tt[i]) \in Nat /\ Len(g[i + 1]) \in Nat
    BY <2>2, ConcatProperties, LenProperties
  <2> QED BY <2>3, <2>4
<1> DEFINE more(i) == IF i <= l THEN d ELSE 0
           T == {k \in Nat : k <= n => Len(g[n + 1 - k]) <= Len(h[n + 1 - k]) + more(n + 1 - k)}
<1>5. 0 \in T
  <2>1. h[n + 1] = << >> /\ g[n + 1] = << >> /\ n + 1 - 0 = n + 1 /\ ~(n + 1 <= l)
    BY <1>1, <1>2 DEF SuffixesOf
  <2>2. Len(h[n + 1]) = 0 /\ Len(g[n + 1]) = 0
    BY <2>1
  <2>3. Len(g[n + 1]) <= Len(h[n + 1]) + more(n + 1)
    BY <2>1, <2>2
  <2> HIDE DEF more
  <2> QED BY <2>1, <2>3
<1>6. ASSUME NEW k \in Nat, k \in T PROVE k + 1 \in T
  <2> DEFINE i == n + 1 - (k + 1)
  <2>0. k + 1 \in Nat
    OBVIOUS
  <2> SUFFICES ASSUME k + 1 <= n PROVE Len(g[i]) <= Len(h[i]) + more(i)
    BY <2>0, Zenon
  <2>1. i \in 1 .. n /\ i + 1 = n + 1 - k /\ k <= n
    OBVIOUS
  <2> HIDE DEF i
  <2>2. Len(g[i + 1]) <= Len(h[i + 1]) + more(i + 1)
    BY <1>6, <2>1
  <2> DEFINE a == Len(h[i])
             b == Len(ss[i])
             c == Len(h[i + 1])
             x == Len(g[i])
             y == Len(tt[i])
             z == Len(g[i + 1])
             u == IF i = l THEN d ELSE 0
  <2>3. /\ a = b + c /\ a \in Nat /\ b \in Nat /\ c \in Nat
        /\ x = y + z /\ x \in Nat /\ y \in Nat /\ z \in Nat
    BY <1>4, <2>1
  <2>4. y <= b + u /\ z <= c + more(i + 1)
    BY <2>1, <2>2
  <2>5. u \in Nat /\ more(i + 1) \in Nat /\ more(i) = u + more(i + 1)
    BY <2>1
  <2> HIDE DEF a, b, c, x, y, z, u, more
  <2>6. x <= a + more(i)
    BY <2>3, <2>4, <2>5
  <2> QED BY <2>6 DEF a, x
<1>7. n \in T
  <2> HIDE DEF T
  <2> QED BY <1>5, <1>6, InductionOnNat
<1>8. Len(g[1]) <= Len(h[1]) + d
  <2>1. n + 1 - n = 1 /\ n <= n /\ more(1) = d
    OBVIOUS
  <2> HIDE DEF more
  <2> QED BY <1>7, <2>1
<1> QED BY <1>3, <1>8

LEMMA BelowMore ==
    ASSUME NEW m \in Nat, NEW n \in Nat, m <= n, MaxNumber \in Nat
    PROVE  Below(m) \subseteq Below(n)
<1>1. ASSUME NEW fm \in Below(m) PROVE fm \in Below(n)
  <2>1. fm \in FileMetaData /\ fm.number < m
    BY DEF Below
  <2>2. fm.number \in 1 .. MaxNumber
    BY <2>1, FileIs
  <2>3. fm.number < n
    BY <2>1, <2>2
  <2> QED BY <2>1, <2>3 DEF Below
<1> QED BY <1>1

LEMMA NewIsSaveable == Saveable(NewVersion)
<1>1. kMaxLevels \in Nat /\ MaxNumber \in Nat /\ MaxNumber >= 1 /\ MaxFiles \in Nat
  BY Fits, ManifestAssumption
<1> DEFINE ls == [l \in 1 .. kMaxLevels |-> << >>]
<1>2. NewVersion.next = 1 /\ NewVersion.levels = ls /\ NewVersion = [next |-> 1, levels |-> ls]
  BY DEF NewVersion
<1>3. ls \in [1 .. kMaxLevels -> Seq({})] /\ ls \in [1 .. kMaxLevels -> Seq(FileMetaData)]
      /\ ls \in [1 .. kMaxLevels -> Seq(Below(1))]
  OBVIOUS
<1> HIDE DEF ls
<1>4. FlattenSeq(ls) \in Seq({})
  BY <1>1, <1>3, PartsOf
<1>5. Len(FlattenSeq(ls)) = 0
  <2>1. FlattenSeq(ls) = << >>
    BY <1>4
  <2> QED BY <2>1
<1>6. NewVersion \in Versions
  BY <1>1, <1>2, <1>3 DEF Versions
<1> QED BY <1>1, <1>2, <1>3, <1>5, <1>6 DEF Saveable, Tables

\* A table with the next number, or none in a level, leaves a version that can be saved.
LEMMA AddedIsSaveable ==
    ASSUME NEW v, Saveable(v), Len(Tables(v)) < MaxFiles, v.next < MaxNumber,
           NEW l \in 1 .. kMaxLevels, NEW size \in Sizes, NEW range \in Ranges
    PROVE  Saveable([next |-> v.next + 1,
                     levels |-> [v.levels EXCEPT ![l] =
                       Append(@, [number |-> v.next, file_size |-> size,
                                  min_key |-> range[1], max_key |-> range[2]])]])
<1> DEFINE fm == [number |-> v.next, file_size |-> size, min_key |-> range[1], max_key |-> range[2]]
           B == Below(v.next + 1)
           ls == v.levels
           ms == [ls EXCEPT ![l] = Append(@, fm)]
           w == [next |-> v.next + 1, levels |-> ms]
<1>1. /\ kMaxLevels \in Nat /\ MaxNumber \in Nat /\ MaxFiles \in Nat /\ v.next \in 1 .. MaxNumber
      /\ ls \in [1 .. kMaxLevels -> Seq(Below(v.next))] /\ Len(FlattenSeq(ls)) < MaxFiles
  BY Fits DEF Saveable, Versions, Tables
<1>2. fm \in FileMetaData /\ fm \in B
  <2>1. fm \in FileMetaData
    BY <1>1 DEF FileMetaData, Keys
  <2> QED BY <1>1, <2>1 DEF Below
<1>3. Below(v.next) \subseteq B
  BY <1>1, BelowMore
<1> HIDE DEF fm, B
<1>4. ls \in [1 .. kMaxLevels -> Seq(B)]
  <2>1. \A i \in 1 .. kMaxLevels : ls[i] \in Seq(B)
    BY <1>1, <1>3, SeqOfSubset
  <2> QED BY <1>1, <2>1
<1> HIDE DEF ls
<1>5. ASSUME NEW i \in 1 .. kMaxLevels
      PROVE  /\ ms[i] \in Seq(B)
             /\ Len(ms[i]) <= Len(ls[i]) + (IF i = l THEN 1 ELSE 0)
  <2>1. ls[i] \in Seq(B) /\ Len(ls[i]) \in Nat
    BY <1>4, LenProperties
  <2>2. CASE i = l
    <3>1. ms[i] = Append(ls[i], fm)
      BY <1>4, <2>2
    <3>2. Append(ls[i], fm) \in Seq(B) /\ Len(Append(ls[i], fm)) = Len(ls[i]) + 1
      BY <1>2, <2>1, AppendProperties
    <3> QED BY <2>1, <2>2, <3>1, <3>2
  <2>3. CASE i # l
    <3>1. ms[i] = ls[i]
      BY <1>4, <2>3
    <3> QED BY <2>1, <2>3, <3>1
  <2> QED BY <2>2, <2>3
<1>6. ms \in [1 .. kMaxLevels -> Seq(B)]
  <2>1. ms = [i \in 1 .. kMaxLevels |-> ms[i]]
    BY <1>4
  <2> HIDE DEF ms
  <2> QED BY <1>5, <2>1
<1> HIDE DEF ms
<1>7. Len(FlattenSeq(ms)) <= Len(FlattenSeq(ls)) + 1
  BY <1>1, <1>4, <1>5, <1>6, FlattenGrows
<1>8. Len(FlattenSeq(ms)) <= MaxFiles
  <2>1. Len(FlattenSeq(ms)) \in Nat /\ Len(FlattenSeq(ls)) \in Nat
    BY <1>1, <1>4, <1>6, PartsOf
  <2>2. Len(FlattenSeq(ls)) < MaxFiles
    BY <1>1 DEF ls
  <2> QED BY <1>1, <1>7, <2>1, <2>2
<1>9. ms \in [1 .. kMaxLevels -> Seq(FileMetaData)]
  <2>1. B \subseteq FileMetaData
    BY DEF B, Below
  <2>2. \A i \in 1 .. kMaxLevels : ms[i] \in Seq(FileMetaData)
    BY <1>6, <2>1, SeqOfSubset
  <2> QED BY <1>6, <2>2
<1>10. v.next + 1 \in 1 .. MaxNumber
  BY <1>1
<1>11. w.next = v.next + 1 /\ w.levels = ms /\ w \in Versions
  BY <1>9, <1>10 DEF Versions
<1>12. Saveable(w)
  BY <1>6, <1>8, <1>11 DEF Saveable, Tables, B
<1> QED BY <1>12 DEF ms, ls, fm

LEMMA ClearedIsSaveable ==
    ASSUME NEW v, Saveable(v), NEW l \in 1 .. kMaxLevels
    PROVE  Saveable([v EXCEPT !.levels[l] = << >>])
<1> DEFINE B == Below(v.next)
           ls == v.levels
           ms == [ls EXCEPT ![l] = << >>]
           w == [v EXCEPT !.levels[l] = << >>]
<1>1. /\ kMaxLevels \in Nat /\ MaxNumber \in Nat /\ MaxFiles \in Nat /\ v.next \in 1 .. MaxNumber
      /\ ls \in [1 .. kMaxLevels -> Seq(B)] /\ Len(FlattenSeq(ls)) <= MaxFiles
      /\ v = [next |-> v.next, levels |-> ls]
  BY Fits DEF Saveable, Versions, Tables
<1>2. w = [next |-> v.next, levels |-> ms] /\ w.next = v.next /\ w.levels = ms
  <2>1. w = [v EXCEPT !.levels = ms]
    OBVIOUS
  <2> HIDE DEF ms, w, ls
  <2>2. [v EXCEPT !.levels = ms] = [next |-> v.next, levels |-> ms]
    BY <1>1
  <2> QED BY <2>1, <2>2
<1> HIDE DEF B, ls, w
<1>3. ASSUME NEW i \in 1 .. kMaxLevels
      PROVE  /\ ms[i] \in Seq(B)
             /\ Len(ms[i]) <= Len(ls[i]) + (IF i = l THEN 0 ELSE 0)
  <2>1. ls[i] \in Seq(B) /\ Len(ls[i]) \in Nat
    BY <1>1, LenProperties
  <2>2. ms[i] = << >> \/ ms[i] = ls[i]
    BY <1>1
  <2>3. Len(<< >>) = 0 /\ << >> \in Seq(B)
    OBVIOUS
  <2> HIDE DEF ms
  <2>4. CASE ms[i] = << >>
    BY <2>1, <2>3, <2>4
  <2>5. CASE ms[i] = ls[i]
    BY <2>1, <2>5
  <2> QED BY <2>2, <2>4, <2>5
<1>4. ms \in [1 .. kMaxLevels -> Seq(B)]
  <2>1. ms = [i \in 1 .. kMaxLevels |-> ms[i]]
    BY <1>1
  <2> HIDE DEF ms
  <2> QED BY <1>3, <2>1
<1> HIDE DEF ms
<1>5. Len(FlattenSeq(ms)) <= Len(FlattenSeq(ls)) + 0
  BY <1>1, <1>3, <1>4, FlattenGrows
<1>6. Len(FlattenSeq(ms)) <= MaxFiles
  <2>1. Len(FlattenSeq(ms)) \in Nat /\ Len(FlattenSeq(ls)) \in Nat
    BY <1>1, <1>4, PartsOf
  <2> QED BY <1>1, <1>5, <2>1
<1>7. ms \in [1 .. kMaxLevels -> Seq(FileMetaData)]
  <2>1. B \subseteq FileMetaData
    BY DEF B, Below
  <2>2. \A i \in 1 .. kMaxLevels : ms[i] \in Seq(FileMetaData)
    BY <1>4, <2>1, SeqOfSubset
  <2> QED BY <1>4, <2>2
<1>8. w \in Versions
  BY <1>1, <1>2, <1>7 DEF Versions
<1>9. Saveable(w)
  BY <1>2, <1>4, <1>6, <1>8 DEF Saveable, Tables, B
<1> QED BY <1>9 DEF w

(***************************************************************************)
(* The invariant of the save. MANIFEST holds what Save wrote for the       *)
(* version that was renamed last, byte for byte; MANIFEST.tmp holds all of *)
(* the version in memory when the rename is next, and anything otherwise.  *)
(***************************************************************************)
FileInv ==
    /\ Saveable(version)
    /\ pc \in {"idle", "opened", "written", "down"}
    /\ tmp \in {Absent} \union Seq(Byte)
    /\ pc = "written" => tmp = Encode(version)
    /\ \/ saved = Absent /\ manifest = Absent
       \/ saved # Absent /\ Saveable(saved) /\ manifest = Encode(saved)

LEMMA SaveableIs ==
    ASSUME NEW v, Saveable(v)
    PROVE  /\ v # Absent /\ Encode(v) \in Seq(Byte) /\ Encode(v) # Absent
           /\ Load(Encode(v)) = [ok |-> TRUE, value |-> v]
<1>1. Encode(v) \in Seq(Byte) /\ Load(Encode(v)) = [ok |-> TRUE, value |-> v]
  BY LoadReadsBack
<1>2. v \in Versions
  BY DEF Saveable
<1> QED BY <1>1, <1>2, ManifestAssumption

LEMMA FileInvStarts == Init => FileInv
BY NewIsSaveable DEF Init, FileInv

LEMMA FileInvStep == FileInv /\ [Next]_vars => FileInv'
<1> SUFFICES ASSUME FileInv, [Next]_vars PROVE FileInv'
  OBVIOUS
<1> DEFINE OnDisk == \/ saved = Absent /\ manifest = Absent
                     \/ saved # Absent /\ Saveable(saved) /\ manifest = Encode(saved)
<1>1. /\ Saveable(version) /\ pc \in {"idle", "opened", "written", "down"}
      /\ tmp \in {Absent} \union Seq(Byte) /\ (pc = "written" => tmp = Encode(version)) /\ OnDisk
  BY DEF FileInv
<1>2. ASSUME UNCHANGED <<manifest, saved>> PROVE OnDisk'
  BY <1>1, <1>2 DEF Saveable
<1>3. ASSUME NEW l \in 1 .. kMaxLevels, NEW size \in Sizes, NEW range \in Ranges,
             AddFile(l, size, range)
      PROVE  FileInv'
  <2>1. Saveable(version')
    BY <1>1, <1>3, AddedIsSaveable DEF AddFile
  <2>2. tmp' = tmp /\ pc' = "idle" /\ OnDisk'
    BY <1>2, <1>3 DEF AddFile
  <2> QED BY <1>1, <2>1, <2>2 DEF FileInv
<1>4. ASSUME NEW l \in 1 .. kMaxLevels, ClearLevel(l) PROVE FileInv'
  <2>1. Saveable(version')
    BY <1>1, <1>4, ClearedIsSaveable DEF ClearLevel
  <2>2. tmp' = tmp /\ pc' = "idle" /\ OnDisk'
    BY <1>2, <1>4 DEF ClearLevel
  <2> QED BY <1>1, <2>1, <2>2 DEF FileInv
<1>5. CASE SaveOpen
  <2>1. version' = version /\ tmp' = << >> /\ pc' = "opened" /\ OnDisk'
    BY <1>2, <1>5 DEF SaveOpen
  <2>2. << >> \in Seq(Byte)
    OBVIOUS
  <2> QED BY <1>1, <2>1, <2>2 DEF FileInv
<1>6. CASE SaveWrite
  <2>1. version' = version /\ tmp' = Encode(version) /\ pc' = "written" /\ OnDisk'
    BY <1>2, <1>6 DEF SaveWrite
  <2>2. Encode(version) \in Seq(Byte)
    BY <1>1, SaveableIs
  <2> QED BY <1>1, <2>1, <2>2 DEF FileInv
<1>7. CASE SaveWriteFails
  <2>1. version' = version /\ pc' = "idle" /\ OnDisk'
    BY <1>2, <1>7 DEF SaveWriteFails
  <2>2. tmp' \in {Absent} \union Seq(Byte)
    <3>1. CASE tmp' = Absent
      BY <3>1
    <3>2. CASE \E n \in 0 .. Len(Encode(version)) : tmp' = SubSeq(Encode(version), 1, n)
      <4>1. Encode(version) \in Seq(Byte)
        BY <1>1, SaveableIs
      <4> QED BY <3>2, <4>1, BeginningIs
    <3> QED BY <1>7, <3>1, <3>2 DEF SaveWriteFails
  <2> QED BY <1>1, <2>1, <2>2 DEF FileInv
<1>8. CASE SaveRename
  <2>1. version' = version /\ tmp' = Absent /\ pc' = "idle" /\ manifest' = Encode(version) /\ saved' = version
    BY <1>1, <1>8 DEF SaveRename
  <2>2. saved' # Absent /\ Saveable(saved') /\ manifest' = Encode(saved')
    BY <1>1, <2>1, SaveableIs
  <2> QED BY <1>1, <2>1, <2>2 DEF FileInv
<1>9. CASE SaveRenameFails
  <2>1. version' = version /\ tmp' = tmp /\ pc' = "idle" /\ OnDisk'
    BY <1>2, <1>9 DEF SaveRenameFails
  <2> QED BY <1>1, <2>1 DEF FileInv
<1>10. CASE Crash
  <2>1. version' = NewVersion /\ pc' = "down" /\ OnDisk'
    BY <1>2, <1>10 DEF Crash
  <2>2. tmp' \in {Absent} \union Seq(Byte)
    <3>1. CASE pc = "opened"
      <4>1. Encode(version) \in Seq(Byte)
        BY <1>1, SaveableIs
      <4>2. PICK n \in 0 .. Len(Encode(version)) : tmp' = SubSeq(Encode(version), 1, n)
        BY <1>10, <3>1 DEF Crash
      <4> QED BY <4>1, <4>2, BeginningIs
    <3>2. CASE pc # "opened"
      BY <1>1, <1>10, <3>2 DEF Crash
    <3> QED BY <3>1, <3>2
  <2> QED BY <2>1, <2>2, NewIsSaveable DEF FileInv
<1>11. CASE Restart
  <2>1. Saveable(version')
    <3>1. CASE manifest = Absent
      BY <1>1, <1>11, <3>1 DEF Restart
    <3>2. CASE manifest # Absent
      <4>1. Saveable(saved) /\ manifest = Encode(saved)
        BY <1>1, <3>2
      <4>2. Load(manifest) = [ok |-> TRUE, value |-> saved]
        BY <4>1, SaveableIs
      <4>3. version' = Load(manifest).value
        BY <1>11, <3>2 DEF Restart
      <4> QED BY <4>1, <4>2, <4>3
    <3> QED BY <3>1, <3>2
  <2>2. tmp' = tmp /\ pc' = "idle" /\ OnDisk'
    BY <1>2, <1>11 DEF Restart
  <2> QED BY <1>1, <2>1, <2>2 DEF FileInv
<1>12. CASE UNCHANGED vars
  BY <1>1, <1>12 DEF FileInv, vars
<1> QED BY <1>3, <1>4, <1>5, <1>6, <1>7, <1>8, <1>9, <1>10, <1>11, <1>12 DEF Next

LEMMA FileInvariant == Spec => []FileInv
BY FileInvStarts, FileInvStep, PTL DEF Spec

(***************************************************************************)
(* The type invariant: what is loaded is of the types that were saved, and *)
(* the numbers of its tables are below the next one.                       *)
(***************************************************************************)
THEOREM ManifestTypes == Spec => []TypeOK
<1>1. FileInv => TypeOK
  <2> SUFFICES ASSUME FileInv PROVE TypeOK
    OBVIOUS
  <2>1. /\ version \in Versions
        /\ version.levels \in [1 .. kMaxLevels -> Seq(Below(version.next))]
    BY DEF FileInv, Saveable
  <2>2. Tables(version) \in Seq(Below(version.next))
    BY <2>1, Fits, PartsOf DEF Tables
  <2>3. \A fm \in Range(Tables(version)) : fm.number < version.next
    <3>1. \A i \in DOMAIN Tables(version) : Tables(version)[i] \in Below(version.next)
      BY <2>2, ElementOfSeq, LenProperties
    <3> QED BY <3>1 DEF Range, Below
  <2>4. manifest \in {Absent} \union Seq(Byte) /\ tmp \in {Absent} \union Seq(Byte)
    BY SaveableIs DEF FileInv
  <2> QED BY <2>1, <2>3, <2>4 DEF FileInv, TypeOK
<1> QED BY <1>1, FileInvariant, PTL

(***************************************************************************)
(* At every moment, with a save half done or a process that died in one, a *)
(* start loads the version of the last save that reached the rename.       *)
(***************************************************************************)
THEOREM LastSaveIsLoaded == Spec => []LoadsLastSave
<1>1. FileInv => LoadsLastSave
  BY SaveableIs DEF FileInv, LoadsLastSave
<1> QED BY <1>1, FileInvariant, PTL

=============================================================================
