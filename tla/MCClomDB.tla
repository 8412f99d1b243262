------------------------------ MODULE MCClomDB ------------------------------
(***************************************************************************)
(* ClomDB for TLC: two keys and three batches (a put, a delete, and an     *)
(* atomic batch of two puts), one byte per entry. Two budgets keep the     *)
(* state space small: how many writes the clients issue, and how many      *)
(* times the environment fails (an I/O error, a file that is not removed,  *)
(* a crash).                                                               *)
(***************************************************************************)
EXTENDS ClomDB, StoreRefinement

CONSTANTS
    a, b,       \* two values
    MaxWrites,  \* bound: writes issued
    MaxFaults   \* bound: failures and crashes

VARIABLES writes, faults

mcvars == <<vars, writes, faults>>

PutA   == [k \in {1} |-> a]
DelA   == [k \in {1} |-> Tombstone]
PutTwo == [k \in {1, 2} |-> b]

MCBatches    == {PutA, DelA, PutTwo}
MCBatchBytes == [t \in MCBatches |-> Cardinality(DOMAIN t)]

\* This step left a file behind that it tried to remove.
LeftBehind ==
    \/ pc = "load" /\ \E n \in FileNums \ Live(manifest.levels) : sst'[n] # EmptyTable
    \/ pc = "f_rotate" /\ wal' # <<>>
    \/ pc = "c_remove" /\ \E n \in comp.old : sst'[n] # EmptyTable

\* Failures due to a bound or to a log that is not open do not count.
Forced ==
    \/ pc \in {"f_table", "c_out"} /\ nextFile > MaxFile
    \/ pc = "append" /\ (~walOpen \/ Len(wal) = MaxWal)

Spend(cost) == faults' = faults + cost /\ faults' <= MaxFaults

MCBegin ==
    /\ Begin
    /\ writes' = writes + (IF pc' = "append" THEN 1 ELSE 0) /\ writes' <= MaxWrites
    /\ UNCHANGED faults

MCWork    == Work /\ Spend(IF LeftBehind THEN 1 ELSE 0) /\ UNCHANGED writes
MCFailing == Failing /\ Spend(IF Forced THEN 0 ELSE 1) /\ UNCHANGED writes
MCCrash   == Crash /\ Spend(1) /\ UNCHANGED writes

MCInit == Init /\ writes = 0 /\ faults = 0
MCNext == MCBegin \/ MCWork \/ MCFailing \/ MCCrash

MCSpec     == MCInit /\ [][MCNext]_mcvars
MCFairSpec == MCSpec /\ WF_mcvars(MCWork \/ MCFailing)

=============================================================================
