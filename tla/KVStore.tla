------------------------------ MODULE KVStore -------------------------------
(***************************************************************************)
(* What ClomDB promises its clients: a map from keys to values in which a  *)
(* batch takes effect as a whole. There are two maps, because a client     *)
(* reads what has been applied and a crash leaves what has been logged: a  *)
(* batch is logged before it is applied (the write-ahead rule), and one    *)
(* that was logged but whose Write failed may show up after a restart or   *)
(* be forgotten.                                                           *)
(***************************************************************************)
CONSTANTS
    Keys,
    Tombstone,  \* what a key that is not there reads as
    Batches     \* the write batches, as functions on the keys they write

VARIABLES
    store,      \* what a restart would find
    view        \* what Get returns

Over(b, m) == [k \in Keys |-> IF k \in DOMAIN b THEN b[k] ELSE m[k]]

Init == store = [k \in Keys |-> Tombstone] /\ view = store

\* A batch reaches the log, with all its entries.
Log(b) == store' = Over(b, store) /\ UNCHANGED view

\* A batch that has been logged becomes visible, with all its entries.
Apply(b) ==
    /\ Over(b, store) = store
    /\ view' = Over(b, view) /\ UNCHANGED store

\* The object is closed or lost in a crash; the next one reads what was logged.
Restart == view' = store /\ UNCHANGED store

\* What was logged and never applied, because its Write failed, is dropped.
Forget == store' = view /\ UNCHANGED view

Next == (\E b \in Batches : Log(b) \/ Apply(b)) \/ Restart \/ Forget

Spec == Init /\ [][Next]_<<store, view>>

=============================================================================
