---------------------------- MODULE ManifestFile ----------------------------
(***************************************************************************)
(* The manifest, byte by byte: Version::Save writes a snapshot to a        *)
(* temporary file and renames it, Version::Load reads it back. The process *)
(* may die, and a step may fail, anywhere in a save.                       *)
(***************************************************************************)
EXTENDS Coding

CONSTANTS
    Ranges,          \* pairs of byte strings: the smallest and the largest key of a table
    Sizes,           \* what a table's size may be
    kMaxLevels,
    kManifestMagic,
    Absent,          \* there is no such file
    MaxFiles,        \* bound on the tables in the version
    MaxNumber        \* bound on next_file_number

Keys == UNION {{r[1], r[2]} : r \in Ranges}

FileMetaData == [number : 1 .. MaxNumber, file_size : Sizes, min_key : Keys, max_key : Keys]

Versions == [next : 1 .. MaxNumber, levels : [1 .. kMaxLevels -> Seq(FileMetaData)]]

\* What is written in a fixed number of bytes or in front of a length fits there.
ASSUME ManifestAssumption ==
    /\ \A key \in Keys : key \in Seq(Byte) /\ Len(key) < Word
    /\ Sizes \subseteq 0 .. Power(ByteRadix, Fixed64) - 1
    /\ kMaxLevels \in Nat /\ kMaxLevels < Word
    /\ kManifestMagic \in 0 .. Power(ByteRadix, Fixed64) - 1
    /\ MaxFiles \in Nat /\ MaxFiles < Word
    /\ MaxNumber \in 1 .. Power(ByteRadix, Fixed64) - 1
    /\ Absent \notin Seq(Byte) /\ Absent \notin Versions

VARIABLES
    version,   \* the Version in memory: next_file_number and levels_
    manifest,  \* the bytes of MANIFEST, or Absent
    tmp,       \* the bytes of MANIFEST.tmp, or Absent
    pc,        \* where Save is; "down" when no process runs
    saved      \* the version whose save was the last to reach MANIFEST

vars == <<version, manifest, tmp, pc, saved>>

NewVersion == [next |-> 1, levels |-> [l \in 1 .. kMaxLevels |-> << >>]]

Tables(v) == FlattenSeq(v.levels)

-----------------------------------------------------------------------------
(* Format *)

EncodeFile(fm) ==
    Fixed(fm.number, Fixed64) \o Fixed(fm.file_size, Fixed64)
      \o LengthPrefixed(fm.min_key) \o LengthPrefixed(fm.max_key)

EncodeLevel(files) ==
    Fixed(Len(files), Fixed32) \o FlattenSeq([i \in DOMAIN files |-> EncodeFile(files[i])])

\* What Save writes: a checksum, not masked, in front of the rest.
Encode(v) ==
    LET buf == Fixed(kManifestMagic, Fixed64) \o Fixed(v.next, Fixed64)
                 \o Fixed(kMaxLevels, Fixed32)
                 \o FlattenSeq([l \in 1 .. kMaxLevels |-> EncodeLevel(v.levels[l])])
    IN  Fixed(Crc(buf), Fixed32) \o buf

GetFile(s) ==
    LET number == GetFixed(s, Fixed64)
        size   == GetFixed(number.rest, Fixed64)
        min    == GetLengthPrefixed(size.rest)
        max    == GetLengthPrefixed(min.rest)
    IN  IF Len(s) < 2 * Fixed64 THEN Malformed
        ELSE IF ~min.ok THEN Malformed
        ELSE IF ~max.ok THEN Malformed
        ELSE [ok |-> TRUE, rest |-> max.rest,
              value |-> [number |-> number.value, file_size |-> size.value,
                         min_key |-> min.value, max_key |-> max.value]]

\* What was found so far and one item more.
Appended(before, item) ==
    IF ~before.ok THEN Malformed
    ELSE IF ~item.ok THEN Malformed
    ELSE [ok |-> TRUE, value |-> Append(before.value, item.value), rest |-> item.rest]

\* The inner loop of Load: n tables, each read from what the one before it leaves.
GetFiles(n, s) ==
    LET got[i \in 0 .. n] ==
          IF i = 0 THEN Parsed(s, 0, << >>) ELSE Appended(got[i - 1], GetFile(got[i - 1].rest))
    IN  got[n]

\* A level is a number of tables and the tables.
GetLevel(s) ==
    LET count == GetFixed(s, Fixed32)
    IN  IF ~count.ok THEN Malformed ELSE GetFiles(count.value, count.rest)

\* The outer loop.
GetLevels(n, s) ==
    LET got[i \in 0 .. n] ==
          IF i = 0 THEN Parsed(s, 0, << >>) ELSE Appended(got[i - 1], GetLevel(got[i - 1].rest))
    IN  got[n]

\* Broken variant: the checksum is not compared.
Load_NoCrc(f) ==
    LET body   == Rest(f, Fixed32)
        magic  == GetFixed(body, Fixed64)
        next   == GetFixed(magic.rest, Fixed64)
        levels == GetFixed(next.rest, Fixed32)
        files  == GetLevels(kMaxLevels, levels.rest)
    IN  IF Len(body) < 2 * Fixed64 + Fixed32 THEN Malformed
        ELSE IF magic.value # kManifestMagic THEN Malformed
        ELSE IF levels.value # kMaxLevels THEN Malformed
        ELSE IF ~files.ok THEN Malformed
        ELSE [ok |-> TRUE, value |-> [next |-> next.value, levels |-> files.value]]

\* Version::Load of a file that is there.
Load(f) ==
    LET body   == Rest(f, Fixed32)
        magic  == GetFixed(body, Fixed64)
        next   == GetFixed(magic.rest, Fixed64)
        levels == GetFixed(next.rest, Fixed32)
        files  == GetLevels(kMaxLevels, levels.rest)
    IN  IF Len(f) < Fixed32 THEN Malformed
        ELSE IF Crc(body) # GetFixed(f, Fixed32).value THEN Malformed
        ELSE IF Len(body) < 2 * Fixed64 + Fixed32 THEN Malformed
        ELSE IF magic.value # kManifestMagic THEN Malformed
        ELSE IF levels.value # kMaxLevels THEN Malformed
        ELSE IF ~files.ok THEN Malformed
        ELSE [ok |-> TRUE, value |-> [next |-> next.value, levels |-> files.value]]

-----------------------------------------------------------------------------
Init ==
    /\ version = NewVersion
    /\ manifest = Absent /\ tmp = Absent
    /\ pc = "idle"
    /\ saved = Absent

\* Broken variant: the number is not used up.
AddFile_NoIncrement(l, size, range) ==
    /\ pc = "idle"
    /\ Len(Tables(version)) < MaxFiles /\ version.next < MaxNumber
    /\ version' = [version EXCEPT !.levels[l] =
                     Append(@, [number |-> version.next, file_size |-> size,
                                min_key |-> range[1], max_key |-> range[2]])]
    /\ UNCHANGED <<manifest, tmp, pc, saved>>

\* A flush or a compaction adds a table to a level.
AddFile(l, size, range) ==
    /\ pc = "idle"
    /\ Len(Tables(version)) < MaxFiles /\ version.next < MaxNumber
    /\ version' = [next |-> version.next + 1,
                   levels |-> [version.levels EXCEPT ![l] =
                     Append(@, [number |-> version.next, file_size |-> size,
                                min_key |-> range[1], max_key |-> range[2]])]]
    /\ UNCHANGED <<manifest, tmp, pc, saved>>

\* A compaction takes the tables out of a level.
ClearLevel(l) ==
    /\ pc = "idle"
    /\ version' = [version EXCEPT !.levels[l] = << >>]
    /\ UNCHANGED <<manifest, tmp, pc, saved>>

\* Save: fopen of the temporary file, which empties it.
SaveOpen ==
    /\ pc = "idle"
    /\ tmp' = << >>
    /\ pc' = "opened"
    /\ UNCHANGED <<version, manifest, saved>>

\* fwrite and fflush succeed.
SaveWrite ==
    /\ pc = "opened"
    /\ tmp' = Encode(version)
    /\ pc' = "written"
    /\ UNCHANGED <<version, manifest, saved>>

\* fwrite or fflush fails. The result of removing the temporary file is ignored: a
\* beginning of what was to be written may stay.
SaveWriteFails ==
    /\ pc = "opened"
    /\ \/ tmp' = Absent
       \/ \E n \in 0 .. Len(Encode(version)) : tmp' = SubSeq(Encode(version), 1, n)
    /\ pc' = "idle"
    /\ UNCHANGED <<version, manifest, saved>>

\* Broken variant: the old manifest is removed first, and the rename is another step.
SaveRename_RemoveFirst ==
    /\ pc = "written"
    /\ IF manifest = Absent THEN manifest' = tmp /\ tmp' = Absent /\ saved' = version /\ pc' = "idle"
                            ELSE manifest' = Absent /\ UNCHANGED <<tmp, saved, pc>>
    /\ UNCHANGED version

SaveRename ==
    /\ pc = "written"
    /\ manifest' = tmp
    /\ tmp' = Absent
    /\ saved' = version
    /\ pc' = "idle"
    /\ UNCHANGED version

SaveRenameFails ==
    /\ pc = "written"
    /\ pc' = "idle"
    /\ UNCHANGED <<version, manifest, tmp, saved>>

\* The process dies; of a temporary file being written, any beginning is on disk.
Crash ==
    /\ pc # "down"
    /\ IF pc = "opened"
       THEN LET out == Encode(version) IN \E n \in 0 .. Len(out) : tmp' = SubSeq(out, 1, n)
       ELSE UNCHANGED tmp
    /\ pc' = "down"
    /\ version' = NewVersion
    /\ UNCHANGED <<manifest, saved>>

\* DB::Open: the manifest is loaded where there is one.
Restart ==
    /\ pc = "down"
    /\ IF manifest = Absent THEN UNCHANGED version
       ELSE Load(manifest).ok /\ version' = Load(manifest).value
    /\ pc' = "idle"
    /\ UNCHANGED <<manifest, tmp, saved>>

Next ==
    \/ \E l \in 1 .. kMaxLevels, size \in Sizes, range \in Ranges : AddFile(l, size, range)
    \/ \E l \in 1 .. kMaxLevels : ClearLevel(l)
    \/ SaveOpen \/ SaveWrite \/ SaveWriteFails \/ SaveRename \/ SaveRenameFails
    \/ Crash \/ Restart

Spec == Init /\ [][Next]_vars

-----------------------------------------------------------------------------
(* Properties *)

\* The type invariant: the numbers of the tables are below the next one, in a version that
\* was loaded too, and the files are bytes.
TypeOK ==
    /\ version \in Versions
    /\ \A fm \in Range(Tables(version)) : fm.number < version.next
    /\ pc \in {"idle", "opened", "written", "down"}
    /\ {manifest, tmp} \subseteq {Absent} \union Seq(Byte)

\* At every moment, a process that starts loads exactly the version of the last save that
\* got as far as the rename, and finds no manifest only where there was no such save:
\* whatever a later save has done before it failed or died (Version::Save and Load).
LoadsLastSave ==
    IF saved = Absent THEN manifest = Absent
    ELSE manifest # Absent /\ Load(manifest) = [ok |-> TRUE, value |-> saved]

\* A manifest with one bit changed is refused (the checksum in Version::Load). Looked at
\* where no save is going on and no temporary file is left.
DamageIsRefused ==
    (pc = "idle" /\ manifest # Absent /\ tmp = Absent /\ version = saved) =>
      \A i \in DOMAIN manifest, j \in 0 .. GroupBits :
        ~Load([manifest EXCEPT ![i] = Xor(@, Power(2, j))]).ok

=============================================================================
