------------------------------ MODULE LogFile ------------------------------
(***************************************************************************)
(* Write batches and the write-ahead log, byte by byte: what the batch of  *)
(* write_batch.h holds, how wal.cpp frames it, and what the replay in      *)
(* DB::Open makes of the file when an append was cut short at any byte.    *)
(* Flushes, which empty the log, belong to ClomDB.                         *)
(***************************************************************************)
EXTENDS Coding

CONSTANTS
    Keys, Values,  \* byte strings
    Gone,          \* a tombstone
    MaxOps,        \* bound on the operations of a batch
    MaxAppends,    \* bound on the appends to the log
    MaxTears       \* bound on those of them that are cut short

VARIABLES
    rep,     \* WriteBatch::rep_, of the batch the client holds
    count,   \* WriteBatch::count_
    ops,     \* the operations the client has put into the batch
    file,    \* the log, as bytes
    mem,     \* the memtable: the keys it holds, each with its value or a tombstone
    logged,  \* the batches appended whole before any append was cut short
    torn,    \* the batch whose append was cut short, and those appended after it
    tears    \* how many appends were cut short

vars == <<rep, count, ops, file, mem, logged, torn, tears>>

Batch == [rep |-> rep, ops |-> ops]

Op == [key : Keys, value : Values \union {Gone}]

kPut    == 1
kDelete == 2

\* The memtable after the operations os, in order.
Effect(m, os) == FoldLeft(LAMBDA a, o : (o.key :> o.value) @@ a, m, os)

-----------------------------------------------------------------------------
(* Formats *)

\* WriteBatch::Put and Delete append one operation.
EncodeOp(o) ==
    IF o.value = Gone THEN <<kDelete>> \o LengthPrefixed(o.key)
    ELSE <<kPut>> \o LengthPrefixed(o.key) \o LengthPrefixed(o.value)

\* Keys and values fit behind a 32-bit length, and so do all operations of a batch, which
\* neither Put nor Write compares with anything.
ASSUME LogAssumption ==
    /\ \A d \in Keys \union Values : d \in Seq(Byte) /\ Len(d) < Word
    /\ Gone \notin Values
    /\ MaxOps \in Nat
    /\ \E m \in 0 .. Word - 1 : MaxOps * m < Word /\ \A o \in Op : Len(EncodeOp(o)) <= m

\* One round of the loop of WriteBatch::Iterate, on bytes that are not empty.
GetOp(s) ==
    LET k == GetLengthPrefixed(Tail(s))
    IN  IF Head(s) \notin {kPut, kDelete} THEN Malformed
        ELSE IF ~k.ok THEN Malformed
        ELSE IF Head(s) = kDelete THEN [k EXCEPT !.value = [key |-> @, value |-> Gone]]
        ELSE LET v == GetLengthPrefixed(k.rest)
             IN  IF ~v.ok THEN Malformed
                 ELSE [v EXCEPT !.value = [key |-> k.value, value |-> @]]

\* Iterate hands the operations before the first malformed one to the handler. (What it
\* returns depends on the count, too, and changes nothing.)
Iterate(d) == Items(GetOp, d).items

\* The record AddRecord appends. The length is cut to 32 bits.
Frame(d) ==
    LET framed == Fixed(Len(d) % Word, Fixed32) \o d
    IN  Fixed(Mask(Crc(framed)), Fixed32) \o framed

\* Broken variant: a payload that the file ends in is taken as far as it goes.
GetRecord_Torn(s) ==
    LET crc == GetFixed(s, Fixed32)
        len == GetFixed(crc.rest, Fixed32)
        n   == Min({len.value, Len(len.rest)})
    IN  IF Len(s) < 2 * Fixed32 THEN Malformed
        ELSE Parsed(len.rest, n, SubSeq(len.rest, 1, n))

\* One round of the loop of ReplayAll. Malformed ends it.
GetRecord(s) ==
    LET crc == GetFixed(s, Fixed32)
        len == GetFixed(crc.rest, Fixed32)
        d   == SubSeq(len.rest, 1, len.value)
    IN  IF Len(s) < 2 * Fixed32 THEN Malformed
        ELSE IF Len(len.rest) < len.value THEN Malformed
        ELSE IF Crc(Fixed(len.value, Fixed32) \o d) # Unmask(crc.value) THEN Malformed
        ELSE Parsed(len.rest, len.value, d)

Records(f) == Items(GetRecord, f).items

\* The memtable DB::Open builds: each record is iterated over in a batch whose
\* count is 0, and what Iterate returns is ignored.
Recovered(f) == FoldLeft(LAMBDA m, d : Effect(m, Iterate(d)), << >>, Records(f))

-----------------------------------------------------------------------------
Init ==
    /\ rep = << >> /\ count = 0 /\ ops = << >>
    /\ file = << >> /\ mem = << >>
    /\ logged = << >> /\ torn = << >> /\ tears = 0

\* WriteBatch::Put and Delete.
Add(o) ==
    /\ count < MaxOps /\ Len(ops) < MaxOps
    /\ rep' = rep \o EncodeOp(o)
    /\ count' = count + 1
    /\ ops' = Append(ops, o)
    /\ UNCHANGED <<file, mem, logged, torn, tears>>

Clear ==
    /\ rep' = << >> /\ count' = 0 /\ ops' = << >>
    /\ UNCHANGED <<file, mem, logged, torn, tears>>

\* The client fills a batch with the Data of one it has written before.
SetData(b) ==
    /\ rep' = b.rep /\ ops' = b.ops
    /\ UNCHANGED <<count, file, mem, logged, torn, tears>>

\* DB::Write of a batch that says it is empty, as one does that was filled by SetData:
\* it returns OK and that is all.
WriteEmpty ==
    /\ count = 0
    /\ UNCHANGED vars

\* DB::Write of any other.
Write ==
    /\ count > 0
    /\ Len(logged \o torn) < MaxAppends
    /\ file' = file \o Frame(rep)
    /\ mem' = Effect(mem, Iterate(rep))
    /\ IF torn = << >> THEN /\ logged' = Append(logged, Batch)
                            /\ UNCHANGED torn
                       ELSE /\ torn' = Append(torn, Batch)
                            /\ UNCHANGED logged
    /\ UNCHANGED <<rep, count, ops, tears>>

\* DB::Write whose append ends after some bytes, with an error or with the process.
WriteCutShort ==
    LET record == Frame(rep)
    IN  /\ count > 0
        /\ Len(logged \o torn) < MaxAppends /\ tears < MaxTears
        /\ \E n \in 1 .. Len(record) - 1 : file' = file \o SubSeq(record, 1, n)
        /\ torn' = Append(torn, Batch)
        /\ tears' = tears + 1
        /\ UNCHANGED <<rep, count, ops, mem, logged>>

\* The process ends and the database is opened again.
Reopen ==
    /\ rep' = << >> /\ count' = 0 /\ ops' = << >>
    /\ mem' = Recovered(file)
    /\ UNCHANGED <<file, logged, torn, tears>>

Next ==
    \/ \E o \in Op : Add(o)
    \/ Clear
    \/ \E b \in Range(logged) : SetData(b)
    \/ WriteEmpty
    \/ Write
    \/ WriteCutShort
    \/ Reopen

Spec == Init /\ [][Next]_vars

-----------------------------------------------------------------------------
(* Properties *)

\* The type invariant: batch and log are bytes, and a replay or an applied batch puts
\* nothing into the memtable but keys and values that clients have written.
TypeOK ==
    /\ rep \in Seq(Byte) /\ file \in Seq(Byte)
    /\ count \in Nat /\ ops \in Seq(Op)
    /\ DOMAIN mem \subseteq Keys /\ Range(mem) \subseteq Values \union {Gone}

\* Replaying the log gives exactly what the batches appended before a torn append
\* say, in order and each of them whole. Nothing of the torn batch shows, whatever
\* byte it ends at; it may show whole, though its Write failed, once the bytes of a
\* later record happen to complete it. Nothing after it ever shows
\* (WriteAheadLog::ReplayAll, the framing of AddRecord, WriteBatch::Iterate).
RecoversLogged ==
    LET Whole(bs) == FoldLeft(LAMBDA m, b : Effect(m, b.ops), << >>, bs)
        now == Recovered(file)
    IN  now = Whole(logged) \/ (Len(torn) > 1 /\ now = Whole(Append(logged, torn[1])))

\* The replay hands out the batches appended before a torn append, each with all of its
\* operations in order, and without a torn append nothing else: what is cut short behind
\* them, and what is appended behind that, never reaches back (the framing of AddRecord,
\* WriteAheadLog::ReplayAll, WriteBatch::Iterate).
LoggedIsReplayed ==
    LET records  == Records(file)
        replayed == [i \in DOMAIN records |-> Iterate(records[i])]
        written  == [i \in DOMAIN logged |-> logged[i].ops]
    IN  IsPrefix(written, replayed) /\ (torn = << >> => replayed = written)

\* A log with one bit changed is replayed up to a record in front of it: no record
\* is made up or altered (the CRC over length and payload in ReplayAll). Looked at
\* where the log is intact and the client holds no batch.
DamageEndsReplay ==
    (rep = << >> /\ torn = << >>) =>
      \A i \in DOMAIN file, j \in 0 .. GroupBits :
        IsPrefix(Records([file EXCEPT ![i] = Xor(@, Power(2, j))]), Records(file))

============================================================================
