-------------------------- MODULE PowerLossProofs ---------------------------
(***************************************************************************)
(* What survives a process crash and a loss of power, for any writes and   *)
(* any number of flushes.                                                  *)
(***************************************************************************)
EXTENDS PowerLoss, TLAPS

\* The first n writes of a log.
Prefix(s, n) == {s[i] : i \in {j \in DOMAIN s : j <= n}}

Up == pc # "down"

(***************************************************************************)
(* The inductive invariant. While the process runs, the manifest loads and *)
(* log and tables hold what was acknowledged (Running); the memtable and   *)
(* the log hold the same writes until a flush has saved the manifest, and  *)
(* from then on the tables hold the log (Flushing). What was fsynced is in *)
(* the tables or in the part of the log that is on the disk, also while    *)
(* the process is down (Synced). Only a loss of power leaves a manifest    *)
(* that does not load, and then all there is of the log is on the disk     *)
(* (Settled).                                                              *)
(***************************************************************************)
Running ==
    Up => /\ Openable
          /\ acked \subseteq InTables(manifest, tables) \cup ToSet(log)

Flushing ==
    /\ pc = "idle" => mem = ToSet(log)
    /\ pc = "save" => /\ mem # {} /\ mem = ToSet(log)
                      /\ Len(tables) > 0 /\ tables[Len(tables)] = mem
    /\ pc \in {"sync", "remove"} =>
         mem = {} /\ ToSet(log) \subseteq InTables(manifest, tables)

Synced ==
    Openable =>
      synced \cap Recovered \subseteq InTables(manifest, tables) \cup Prefix(log, logSynced)

Settled == manifest = Damaged => logSynced = Len(log)

PowerInv == TypeOK /\ Running /\ Flushing /\ Synced /\ Settled /\ PromisedRecovered

-----------------------------------------------------------------------------
(* Logs *)

\* A log is numbered from 1.
LEMMA LogIs ==
    ASSUME NEW S, NEW s \in Seq(S)
    PROVE  /\ Len(s) \in Nat /\ DOMAIN s = 1 .. Len(s)
           /\ \A i \in DOMAIN s : s[i] \in S
           /\ ToSet(s) = Prefix(s, Len(s)) /\ ToSet(s) \subseteq S
<1>1. Len(s) \in Nat /\ DOMAIN s = 1 .. Len(s) /\ \A i \in DOMAIN s : s[i] \in S
  OBVIOUS
<1>2. ToSet(s) = {s[i] : i \in DOMAIN s}
  BY DEF ToSet
<1>3. \A i \in DOMAIN s : i <= Len(s)
  BY <1>1
<1> QED BY <1>1, <1>2, <1>3 DEF Prefix

\* An append adds one write, behind those that are there.
LEMMA AppendIs ==
    ASSUME NEW S, NEW s \in Seq(S), NEW w \in S
    PROVE  /\ Append(s, w) \in Seq(S) /\ Len(Append(s, w)) = Len(s) + 1
           /\ \A i \in DOMAIN s : Append(s, w)[i] = s[i]
           /\ DOMAIN Append(s, w) = DOMAIN s \cup {Len(s) + 1}
           /\ Append(s, w)[Len(s) + 1] = w
           /\ ToSet(Append(s, w)) = ToSet(s) \cup {w}
           /\ \A n \in 0 .. Len(s) : Prefix(Append(s, w), n) = Prefix(s, n)
<1>1. /\ Append(s, w) \in Seq(S) /\ Len(Append(s, w)) = Len(s) + 1
      /\ Append(s, w)[Len(s) + 1] = w
  OBVIOUS
<1>2. \A i \in DOMAIN s : Append(s, w)[i] = s[i]
  OBVIOUS
<1>3. Len(s) \in Nat /\ DOMAIN s = 1 .. Len(s)
  BY LogIs
<1>4. DOMAIN Append(s, w) = DOMAIN s \cup {Len(s) + 1}
  <2>1. DOMAIN Append(s, w) = 1 .. Len(s) + 1
    BY <1>1, LogIs
  <2> QED BY <1>3, <2>1
<1>5. ToSet(Append(s, w)) = ToSet(s) \cup {w}
  BY <1>1, <1>2, <1>4 DEF ToSet
<1>6. ASSUME NEW n \in 0 .. Len(s) PROVE Prefix(Append(s, w), n) = Prefix(s, n)
  <2>1. {j \in DOMAIN Append(s, w) : j <= n} = {j \in DOMAIN s : j <= n}
    BY <1>3, <1>4
  <2> QED BY <1>2, <2>1 DEF Prefix
<1> QED BY <1>1, <1>2, <1>4, <1>5, <1>6

\* The beginning of a log.
LEMMA CutIs ==
    ASSUME NEW S, NEW s \in Seq(S), NEW n \in 0 .. Len(s)
    PROVE  SubSeq(s, 1, n) \in Seq(S) /\ ToSet(SubSeq(s, 1, n)) = Prefix(s, n)
<1>1. Len(s) \in Nat /\ DOMAIN s = 1 .. Len(s)
  BY LogIs
<1>2. SubSeq(s, 1, n) \in Seq(S)
  BY <1>1
<1>3. DOMAIN SubSeq(s, 1, n) = 1 .. n /\ \A i \in 1 .. n : SubSeq(s, 1, n)[i] = s[i]
  BY <1>1
<1>4. {j \in DOMAIN s : j <= n} = 1 .. n
  BY <1>1
<1> QED BY <1>2, <1>3, <1>4 DEF ToSet, Prefix

-----------------------------------------------------------------------------
(* Tables and manifests *)

\* A manifest that loads names tables that have been written.
LEMMA ManifestIs ==
    ASSUME TypeOK, Openable
    PROVE  /\ manifest \in SUBSET DOMAIN tables
           /\ Recovered = InTables(manifest, tables) \cup ToSet(log)
<1>1. manifest \in SUBSET DOMAIN tables
  <2>1. manifest \in (SUBSET DOMAIN tables) \cup {Damaged} /\ manifest # Damaged
    BY DEF TypeOK, Openable
  <2> QED BY <2>1, Zenon
<1>2. Recovered = InTables(manifest, tables) \cup ToSet(log)
  BY DEF Recovered
<1> QED BY <1>1, <1>2

\* A new table changes nothing for a manifest that does not name it.
LEMMA TableAdded ==
    ASSUME NEW S, NEW ts \in Seq(S), NEW t \in S, NEW m \in SUBSET DOMAIN ts
    PROVE  /\ InTables(m, Append(ts, t)) = InTables(m, ts)
           /\ \A n \in m : Append(ts, t)[n] = ts[n]
<1>1. \A n \in m : Append(ts, t)[n] = ts[n]
  BY AppendIs
<1> QED BY <1>1 DEF InTables

\* A manifest that names one more table gives what is in it as well.
LEMMA TableNamed ==
    ASSUME NEW m, NEW n, NEW ts
    PROVE  InTables(m \cup {n}, ts) = InTables(m, ts) \cup ts[n]
BY DEF InTables

\* The sweep of Open leaves the tables of the manifest as they are.
LEMMA SweptIs ==
    ASSUME TypeOK, manifest # Damaged
    PROVE  /\ Swept \in Seq(SUBSET Writes) /\ Len(Swept) = Len(tables)
           /\ DOMAIN Swept = DOMAIN tables
           /\ \A n \in manifest : Swept[n] = tables[n]
           /\ InTables(manifest, Swept) = InTables(manifest, tables)
<1>1. tables \in Seq(SUBSET Writes) /\ Len(tables) \in Nat /\ DOMAIN tables = 1 .. Len(tables)
  BY LogIs DEF TypeOK
<1>2. \A n \in 1 .. Len(tables) : tables[n] \in SUBSET Writes
  BY <1>1
<1>3. Swept \in [1 .. Len(tables) -> SUBSET Writes]
  BY <1>1, <1>2 DEF Swept
<1>4. Swept \in Seq(SUBSET Writes)
  BY <1>1, <1>3
<1>5. Len(Swept) \in Nat /\ DOMAIN Swept = 1 .. Len(Swept)
  BY <1>4, LogIs
<1>6. manifest \in SUBSET DOMAIN tables
  <2>1. manifest \in (SUBSET DOMAIN tables) \cup {Damaged}
    BY DEF TypeOK
  <2> QED BY <2>1, Zenon
<1>7. \A n \in manifest : Swept[n] = tables[n]
  BY <1>1, <1>6 DEF Swept
<1>8. InTables(manifest, Swept) = InTables(manifest, tables)
  BY <1>7 DEF InTables
<1>9. Len(Swept) = Len(tables) /\ DOMAIN Swept = DOMAIN tables
  BY <1>1, <1>3, <1>5
<1> QED BY <1>4, <1>7, <1>8, <1>9

-----------------------------------------------------------------------------
(* The invariant *)

\* A new directory satisfies the invariant.
LEMMA PowerInit == Init => PowerInv
<1> SUFFICES ASSUME Init PROVE PowerInv
  OBVIOUS
<1>1. TypeOK
  BY PowerAssumption DEF Init, TypeOK
<1>2. Openable
  BY PowerAssumption DEF Init, Openable
<1>3. Running /\ Synced /\ Settled /\ PromisedRecovered
  BY <1>2 DEF Init, Running, Synced, Settled, Openable, PromisedRecovered
<1>4. ToSet(log) = {}
  BY DEF Init, ToSet
<1>5. Flushing
  BY <1>4 DEF Init, Flushing
<1> QED BY <1>1, <1>3, <1>5 DEF PowerInv

\* Every write, every step of a flush, every failure and Open keep it.
LEMMA PowerStep == PowerInv /\ [Next]_vars => PowerInv'
<1> SUFFICES ASSUME PowerInv, [Next]_vars PROVE PowerInv'
  OBVIOUS
<1>0. TypeOK /\ Running /\ Flushing /\ Synced /\ Settled /\ PromisedRecovered
  BY DEF PowerInv
<1>12. Running' /\ pc' # "down" => Settled'
  BY DEF Running, Up, Openable, Settled
<1>11. /\ log \in Seq(Writes) /\ oldLogs \subseteq Seq(Writes) /\ tables \in Seq(SUBSET Writes)
      /\ Len(log) \in Nat /\ logSynced \in 0 .. Len(log)
      /\ Len(tables) \in Nat /\ DOMAIN tables = 1 .. Len(tables)
      /\ ToSet(log) = Prefix(log, Len(log))
  BY <1>0, LogIs DEF TypeOK
<1>1. ASSUME NEW w \in Writes, NEW sync \in BOOLEAN, Write(w, sync) PROVE PowerInv'
  <2>1. /\ log' = Append(log, w) /\ pc = "idle" /\ pc' = "idle"
        /\ UNCHANGED <<oldLogs, tables, safe, manifest, manifests, secured, promised>>
        /\ mem' = mem \cup {w} /\ acked' = acked \cup {w}
        /\ synced' = IF sync THEN synced \cup {w} ELSE synced
        /\ logSynced' = IF sync THEN Len(log') ELSE logSynced
    BY <1>1 DEF Write
  <2>2. /\ log' \in Seq(Writes) /\ Len(log') = Len(log) + 1
        /\ ToSet(log') = ToSet(log) \cup {w}
        /\ \A n \in 0 .. Len(log) : Prefix(log', n) = Prefix(log, n)
    BY <1>11, <2>1, AppendIs
  <2>3. TypeOK'
    BY <1>0, <1>11, <2>1, <2>2 DEF TypeOK
  <2>4. Running'
    BY <1>0, <2>1, <2>2 DEF Running, Up, Openable
  <2>5. Flushing'
    BY <1>0, <2>1, <2>2 DEF Flushing
  <2>6. Synced'
    <3>1. Openable /\ synced \subseteq Recovered
      BY <1>0, <2>1, ManifestIs DEF Running, Up, TypeOK
    <3>2. synced \subseteq InTables(manifest, tables) \cup Prefix(log, logSynced)
      BY <1>0, <2>1, <3>1 DEF Synced
    <3>3. Prefix(log', logSynced) = Prefix(log, logSynced)
      BY <1>11, <2>2
    <3>4. CASE sync
      <4>1. Prefix(log', logSynced') = ToSet(log')
        BY <2>1, <2>2, <3>4, LogIs
      <4>2. Recovered' = InTables(manifest', tables') \cup ToSet(log')
        BY <2>1, <3>1 DEF Recovered, Openable
      <4> QED BY <4>1, <4>2 DEF Synced
    <3>5. CASE ~sync
      BY <2>1, <3>2, <3>3, <3>5 DEF Synced
    <3> QED BY <3>4, <3>5
  <2> QED BY <1>12, <2>1, <2>3, <2>4, <2>5, <2>6 DEF PowerInv, PromisedRecovered
<1>2. CASE FlushTable
  <2>1. /\ pc = "idle" /\ pc' = "save" /\ mem # {} /\ Len(tables) < MaxTables
        /\ tables' = Append(tables, mem)
        /\ UNCHANGED <<log, logSynced, oldLogs, safe, manifest, manifests, mem,
                       acked, synced, secured, promised>>
    BY <1>2 DEF FlushTable, history
  <2>2. /\ tables' \in Seq(SUBSET Writes) /\ Len(tables') = Len(tables) + 1
        /\ DOMAIN tables' = DOMAIN tables \cup {Len(tables) + 1}
        /\ tables'[Len(tables')] = mem
    BY <1>0, <1>11, <2>1, AppendIs DEF TypeOK
  <2>3. TypeOK'
    BY <1>0, <1>11, <2>1, <2>2, PowerAssumption DEF TypeOK
  <2>4. /\ Openable /\ Openable'
        /\ InTables(manifest', tables') = InTables(manifest, tables)
    <3>0. mem \in SUBSET Writes
      BY <1>0 DEF TypeOK
    <3>1. Openable /\ manifest \in SUBSET DOMAIN tables
      BY <1>0, <2>1, ManifestIs DEF Running, Up
    <3>2. /\ InTables(manifest, tables') = InTables(manifest, tables)
          /\ \A n \in manifest : tables'[n] = tables[n]
      BY <1>11, <2>1, <3>0, <3>1, TableAdded
    <3> QED BY <2>1, <3>1, <3>2 DEF Openable
  <2>5. Running'
    BY <1>0, <2>1, <2>4 DEF Running, Up
  <2>6. Flushing'
    BY <1>0, <1>11, <2>1, <2>2 DEF Flushing
  <2>7. Recovered' = Recovered
    BY <2>1, <2>4 DEF Recovered
  <2>8. Synced'
    BY <1>0, <2>1, <2>4, <2>7 DEF Synced
  <2> QED BY <1>12, <2>1, <2>3, <2>5, <2>6, <2>8 DEF PowerInv, PromisedRecovered
<1>3. CASE FlushSave
  <2> DEFINE m == manifest \cup {Len(tables)}
  <2>1. /\ pc = "save" /\ pc' = "sync" /\ mem' = {}
        /\ manifest' = m /\ manifests' = manifests \cup {m, Damaged}
        /\ UNCHANGED <<log, logSynced, oldLogs, tables, safe, acked, synced, secured, promised>>
    BY <1>3 DEF FlushSave, history
  <2>2. /\ Openable /\ manifest \in SUBSET DOMAIN tables /\ Len(tables) \in DOMAIN tables
        /\ tables[Len(tables)] = ToSet(log) /\ ToSet(log) # {}
    BY <1>0, <1>11, <2>1, ManifestIs DEF Running, Up, Flushing
  <2>3. m \in SUBSET DOMAIN tables /\ m \in SUBSET (1 .. MaxTables)
    BY <1>0, <1>11, <2>2, PowerAssumption DEF TypeOK
  <2>4. Openable'
    BY <2>1, <2>2, <2>3, PowerAssumption DEF Openable
  <2>5. InTables(m, tables) = InTables(manifest, tables) \cup ToSet(log)
    BY <2>2, TableNamed
  <2> HIDE DEF m
  <2>6. TypeOK'
    <3>1. manifest' \in manifests' /\ manifests' \subseteq (SUBSET DOMAIN tables') \cup {Damaged}
      <4>1. manifests \subseteq (SUBSET DOMAIN tables) \cup {Damaged}
        BY <1>0 DEF TypeOK
      <4>2. manifest' = m /\ manifests' = manifests \cup {m, Damaged} /\ tables' = tables
        BY <2>1
      <4> QED BY <2>3, <4>1, <4>2, Zenon
    <3> QED BY <1>0, <2>1, <3>1 DEF TypeOK
  <2>7. Running'
    BY <1>0, <2>1, <2>4, <2>5 DEF Running, Up
  <2>8. Flushing'
    BY <2>1, <2>5 DEF Flushing
  <2>9. Synced'
    <3>1. Recovered' = InTables(m, tables) \cup ToSet(log)
      BY <2>1, <2>4 DEF Recovered
    <3> QED BY <2>1, <2>5, <3>1 DEF Synced
  <2> QED BY <1>12, <2>1, <2>6, <2>7, <2>8, <2>9 DEF PowerInv, PromisedRecovered
<1>4. CASE LogClose
  <2>1. /\ pc = "sync" /\ pc' = "remove" /\ logSynced' = Len(log)
        /\ UNCHANGED <<log, oldLogs, tables, safe, manifest, manifests, mem,
                       acked, synced, secured, promised>>
    BY <1>4 DEF LogClose, history
  <2>2. TypeOK'
    BY <1>0, <1>11, <2>1 DEF TypeOK
  <2>3. Running' /\ Flushing'
    BY <1>0, <2>1 DEF Running, Flushing, Up, Openable
  <2>4. Synced'
    BY <1>11, <2>1 DEF Synced, Recovered, Openable
  <2> QED BY <1>12, <2>1, <2>2, <2>3, <2>4 DEF PowerInv, PromisedRecovered
<1>5. CASE LogRotate
  <2>1. /\ pc = "remove" /\ pc' = "idle" /\ oldLogs' = oldLogs \cup {log, <<>>}
        /\ log' = <<>> /\ logSynced' = 0
        /\ UNCHANGED <<tables, safe, manifest, manifests, mem,
                       acked, synced, secured, promised>>
    BY <1>5 DEF LogRotate, history
  <2>2. log' \in Seq(Writes) /\ Len(log') = 0 /\ ToSet(log') = {}
    BY <2>1 DEF ToSet
  <2>3. TypeOK'
    <3>1. oldLogs' \subseteq Seq(Writes)
      BY <1>11, <2>1, <2>2
    <3> QED BY <1>0, <1>11, <2>1, <2>2, <3>1 DEF TypeOK
  <2>4. Openable /\ Openable' /\ acked \subseteq InTables(manifest, tables)
    BY <1>0, <2>1 DEF Running, Flushing, Up, Openable
  <2>5. Running' /\ Flushing'
    BY <1>0, <2>1, <2>2, <2>4 DEF Running, Flushing
  <2>6. Synced'
    BY <2>1, <2>2, <2>4 DEF Synced, Recovered
  <2> QED BY <1>12, <2>1, <2>3, <2>5, <2>6 DEF PowerInv, PromisedRecovered
<1>6. CASE Writeback
  <2>1. /\ pc # "down" /\ logSynced' = Len(log) /\ oldLogs' = {} /\ secured' = synced
        /\ safe' = DOMAIN tables /\ manifests' = {manifest}
        /\ UNCHANGED <<log, tables, manifest, mem, pc, acked, synced, promised>>
    BY <1>6 DEF Writeback
  <2>2. TypeOK'
    BY <1>0, <1>11, <2>1 DEF TypeOK
  <2>3. Running' /\ Flushing'
    BY <1>0, <2>1 DEF Running, Flushing, Up, Openable
  <2>4. Synced'
    BY <1>11, <2>1 DEF Synced, Recovered, Openable
  <2> QED BY <1>12, <2>1, <2>2, <2>3, <2>4 DEF PowerInv, PromisedRecovered
<1>7. CASE Crash
  <2>1. /\ Up /\ mem' = {} /\ pc' = "down" /\ promised' = acked
        /\ UNCHANGED <<log, logSynced, oldLogs, tables, safe, manifest, manifests,
                       acked, synced, secured>>
    BY <1>7 DEF Crash, Up, files
  <2>2. TypeOK'
    BY <1>0, <2>1 DEF TypeOK
  <2>3. Running' /\ Flushing'
    BY <2>1 DEF Running, Flushing, Up
  <2>4. Recovered' = Recovered /\ Openable' = Openable
    BY <2>1 DEF Recovered, Openable
  <2>5. Synced'
    BY <1>0, <2>1, <2>4 DEF Synced, Up
  <2>6. PromisedRecovered'
    BY <1>0, <2>1, <2>4, ManifestIs DEF PromisedRecovered, Running
  <2>7. Settled'
    BY <1>0, <2>1 DEF Settled
  <2> QED BY <2>2, <2>3, <2>5, <2>6, <2>7 DEF PowerInv
<1>8. CASE PowerFails
  <2>1. /\ Up /\ mem' = {} /\ pc' = "down" /\ oldLogs' = {} /\ logSynced' = Len(log')
        /\ safe' = DOMAIN tables /\ manifest' \in manifests /\ manifests' = {manifest'}
        /\ promised' = IF WrittenBack THEN synced ELSE {}
        /\ acked' = acked /\ synced' = synced /\ secured' = secured
    BY <1>8 DEF PowerFails, Up
  <2>2. PICK kept \in SUBSET DOMAIN tables :
          /\ safe \subseteq kept
          /\ tables' = [n \in DOMAIN tables |-> IF n \in kept THEN tables[n] ELSE {}]
    BY <1>8 DEF PowerFails
  <2>3. /\ log' \in Seq(Writes)
        /\ oldLogs = {} => Prefix(log, logSynced) \subseteq ToSet(log')
    <3>1. CASE \E n \in logSynced .. Len(log) : log' = SubSeq(log, 1, n)
      <4>1. PICK n \in logSynced .. Len(log) : log' = SubSeq(log, 1, n)
        BY <3>1
      <4>2. n \in 0 .. Len(log)
        BY <1>11
      <4>3. log' \in Seq(Writes) /\ ToSet(log') = Prefix(log, n)
        BY <1>11, <4>1, <4>2, CutIs
      <4>4. Prefix(log, logSynced) \subseteq Prefix(log, n)
        <5>1. \A j \in DOMAIN log : j <= logSynced => j <= n
          BY <1>11, LogIs
        <5> QED BY <5>1 DEF Prefix
      <4> QED BY <4>3, <4>4
    <3>2. CASE log' \in oldLogs
      BY <1>11, <3>2
    <3> QED BY <1>8, <3>1, <3>2 DEF PowerFails
  <2>4. Len(log') \in Nat /\ ToSet(log') = Prefix(log', Len(log'))
    BY <2>3, LogIs
  <2>5. /\ tables' \in Seq(SUBSET Writes) /\ Len(tables') = Len(tables)
        /\ DOMAIN tables' = DOMAIN tables
    <3>1. DOMAIN tables' = 1 .. Len(tables)
      BY <1>11, <2>2
    <3>2. \A n \in 1 .. Len(tables) : tables[n] \in SUBSET Writes
      BY <1>11
    <3>3. tables' \in [1 .. Len(tables) -> SUBSET Writes]
      BY <1>11, <2>2, <3>2
    <3>4. tables' \in Seq(SUBSET Writes)
      BY <1>11, <3>3
    <3>5. Len(tables') \in Nat /\ DOMAIN tables' = 1 .. Len(tables')
      BY <3>4, LogIs
    <3> QED BY <1>11, <3>1, <3>4, <3>5
  <2>6. TypeOK'
    <3>1. manifest' \in manifests' /\ manifests' \subseteq (SUBSET DOMAIN tables') \cup {Damaged}
      BY <1>0, <2>1, <2>5 DEF TypeOK
    <3>2. safe' \subseteq DOMAIN tables' /\ promised' \subseteq acked'
      BY <1>0, <2>1, <2>5 DEF TypeOK
    <3> QED BY <1>0, <2>1, <2>3, <2>4, <2>5, <3>1, <3>2 DEF TypeOK
  <2>7. Running' /\ Flushing'
    BY <2>1 DEF Running, Flushing, Up
  <2>8. Synced'
    BY <2>1, <2>4 DEF Synced, Recovered
  <2>9. PromisedRecovered'
    <3>1. CASE WrittenBack
      <4>1. tables' = tables /\ manifest' = manifest
        <5>1. kept = DOMAIN tables
          BY <2>2, <3>1 DEF WrittenBack
        <5> QED BY <1>11, <2>1, <2>2, <3>1, <5>1 DEF WrittenBack
      <4>2. Openable /\ Openable'
        BY <1>0, <2>1, <4>1 DEF Running, Openable
      <4>3. synced \subseteq Recovered
        BY <1>0, <2>1, <4>2, ManifestIs DEF Running, TypeOK
      <4>4. synced \subseteq InTables(manifest, tables) \cup Prefix(log, logSynced)
        BY <1>0, <2>1, <4>2, <4>3 DEF Synced, Up
      <4> QED BY <2>1, <2>3, <3>1, <4>1, <4>2, <4>4
             DEF PromisedRecovered, Recovered, WrittenBack
    <3>2. CASE ~WrittenBack
      BY <2>1, <3>2 DEF PromisedRecovered
    <3> QED BY <3>1, <3>2
  <2>10. Settled'
    BY <2>1 DEF Settled
  <2> QED BY <2>6, <2>7, <2>8, <2>9, <2>10 DEF PowerInv
<1>9. CASE Open
  <2>1. /\ pc = "down" /\ Openable /\ pc' = "idle" /\ mem' = ToSet(log) /\ tables' = Swept
        /\ oldLogs' \subseteq oldLogs \cup {<<>>}
        /\ acked' = Recovered /\ synced' = synced \cap Recovered
        /\ secured' = secured \cap Recovered /\ promised' = {}
        /\ UNCHANGED <<log, logSynced, safe, manifest, manifests>>
    BY <1>9 DEF Open
  <2>2. /\ manifest \in SUBSET DOMAIN tables /\ manifest # Damaged
        /\ Recovered = InTables(manifest, tables) \cup ToSet(log)
    BY <1>0, <2>1, ManifestIs DEF Openable
  <2>3. /\ tables' \in Seq(SUBSET Writes) /\ Len(tables') = Len(tables)
        /\ DOMAIN tables' = DOMAIN tables /\ \A n \in manifest : tables'[n] = tables[n]
        /\ InTables(manifest', tables') = InTables(manifest, tables)
    BY <1>0, <2>1, <2>2, SweptIs
  <2>4. Openable'
    BY <2>1, <2>3 DEF Openable
  <2>5. Recovered' = Recovered
    BY <2>1, <2>2, <2>3, <2>4 DEF Recovered
  <2>6. ToSet(log) \subseteq Writes /\ Recovered \subseteq Writes
    <3>1. ToSet(log) \subseteq Writes /\ \A n \in DOMAIN tables : tables[n] \subseteq Writes
      BY <1>11, LogIs
    <3>2. InTables(manifest, tables) \subseteq Writes
      BY <2>2, <3>1 DEF InTables
    <3> QED BY <2>2, <3>1, <3>2
  <2>7. oldLogs' \subseteq Seq(Writes)
    <3>1. <<>> \in Seq(Writes)
      OBVIOUS
    <3> QED BY <1>11, <2>1, <3>1
  <2>8. TypeOK'
    BY <1>0, <2>1, <2>3, <2>6, <2>7 DEF TypeOK
  <2>9. Running' /\ Flushing'
    BY <2>1, <2>2, <2>3, <2>4 DEF Running, Flushing, Up
  <2>10. Synced'
    BY <1>0, <2>1, <2>3, <2>5 DEF Synced
  <2> QED BY <1>12, <2>1, <2>8, <2>9, <2>10 DEF PowerInv, PromisedRecovered
<1>13. CASE OpenDamaged
  <2>1. /\ pc = "down" /\ pc' = "down" /\ manifest = Damaged
        /\ manifest' = {} /\ manifests' = manifests \cup {{}, Damaged}
        /\ UNCHANGED <<log, logSynced, oldLogs, tables, safe, mem,
                       acked, synced, secured, promised>>
    BY <1>13 DEF OpenDamaged, history
  <2>2. {} # Damaged
    BY PowerAssumption
  <2>3. TypeOK'
    <3>1. manifest' \in manifests' /\ manifests' \subseteq (SUBSET DOMAIN tables') \cup {Damaged}
      BY <1>0, <2>1 DEF TypeOK
    <3> QED BY <1>0, <2>1, <3>1 DEF TypeOK
  <2>4. Running' /\ Flushing' /\ Settled'
    BY <1>0, <2>1, <2>2 DEF Running, Flushing, Settled, Up
  <2>5. Recovered = ToSet(log) /\ Recovered' = ToSet(log)
    <3>1. Openable' /\ ~Openable
      BY <2>1, <2>2 DEF Openable
    <3>2. InTables(manifest', tables') = {}
      BY <2>1 DEF InTables
    <3> QED BY <2>1, <3>1, <3>2 DEF Recovered
  <2>6. Synced'
    BY <1>0, <1>11, <2>1, <2>5 DEF Synced, Settled
  <2>7. PromisedRecovered'
    BY <1>0, <2>1, <2>5 DEF PromisedRecovered
  <2> QED BY <2>3, <2>4, <2>6, <2>7 DEF PowerInv
<1>14. CASE OpenMissing
  <2>1. /\ pc = "down" /\ pc' = "down" /\ manifest # Damaged /\ ~Openable /\ tables' = Swept
        /\ manifests' = manifests \cup {manifest, Damaged}
        /\ UNCHANGED <<log, logSynced, oldLogs, safe, manifest, mem,
                       acked, synced, secured, promised>>
    BY <1>14 DEF OpenMissing, history
  <2>2. /\ tables' \in Seq(SUBSET Writes) /\ Len(tables') = Len(tables)
        /\ DOMAIN tables' = DOMAIN tables /\ \A n \in manifest : tables'[n] = tables[n]
    BY <1>0, <2>1, SweptIs
  <2>3. ~Openable'
    BY <2>1, <2>2 DEF Openable
  <2>4. TypeOK'
    <3>1. manifest' \in manifests' /\ manifests' \subseteq (SUBSET DOMAIN tables') \cup {Damaged}
      BY <1>0, <2>1, <2>2 DEF TypeOK
    <3> QED BY <1>0, <2>1, <2>2, <3>1 DEF TypeOK
  <2>5. Running' /\ Flushing' /\ Synced' /\ Settled'
    BY <2>1, <2>3 DEF Running, Flushing, Synced, Settled, Up
  <2>6. PromisedRecovered'
    BY <1>0, <2>1, <2>3 DEF PromisedRecovered, Recovered
  <2> QED BY <2>4, <2>5, <2>6 DEF PowerInv
<1>10. CASE UNCHANGED vars
  <2>1. UNCHANGED <<log, logSynced, oldLogs, tables, safe, manifest, manifests,
                    mem, pc, acked, synced, secured, promised>>
    BY <1>10 DEF vars, files, history
  <2>2. Recovered' = Recovered /\ Openable' = Openable
    BY <2>1 DEF Recovered, Openable
  <2>3. TypeOK'
    BY <1>0, <2>1 DEF TypeOK
  <2>4. Running' /\ Flushing' /\ Synced' /\ Settled' /\ PromisedRecovered'
    BY <1>0, <2>1, <2>2 DEF Running, Flushing, Synced, Settled, PromisedRecovered, Up
  <2> QED BY <2>3, <2>4 DEF PowerInv
<1> QED
  BY <1>1, <1>2, <1>3, <1>4, <1>5, <1>6, <1>7, <1>8, <1>9, <1>10, <1>13,
     <1>14 DEF Next

-----------------------------------------------------------------------------
(* The theorems *)

\* The invariant holds throughout.
LEMMA PowerInvariant == Spec => []PowerInv
<1>1. Init => PowerInv
  BY PowerInit
<1>2. PowerInv /\ [Next]_vars => PowerInv'
  BY PowerStep
<1> QED BY <1>1, <1>2, PTL DEF Spec

\* The files, the cache and the memtable hold what their types say: no step of
\* a flush, an Open, a crash or a loss of power leaves a manifest that names a table
\* beyond those written.
THEOREM PowerTyping == Spec => []TypeOK
<1>1. PowerInv => TypeOK
  BY DEF PowerInv
<1> QED BY <1>1, PowerInvariant, PTL

(***************************************************************************)
(* A process crash loses no acknowledged write, whichever step of          *)
(* FlushMemTableLocked it interrupts, and a loss of power loses none that  *)
(* WriteAheadLog::AddRecord fsynced, once the operating system has written *)
(* tables, manifests and the names in the directory back.                  *)
(***************************************************************************)
THEOREM PromisesKept == Spec => []PromisedRecovered
<1>1. PowerInv => PromisedRecovered
  BY DEF PowerInv
<1> QED BY <1>1, PowerInvariant, PTL

=============================================================================
