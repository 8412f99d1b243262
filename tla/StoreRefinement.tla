-------------------------- MODULE StoreRefinement ---------------------------
(***************************************************************************)
(* The storage engine implements KVStore. What a restart would find is     *)
(* computed from the files, as recovery does; what clients read is what    *)
(* Get computes from the memtable and the tables while there is an open    *)
(* (or closed, not yet destroyed) object.                                  *)
(***************************************************************************)
EXTENDS ClomDB

StoreMap == [k \in Keys |-> OnDisk(k)]
ViewMap  == [k \in Keys |-> IF handle \in {"open", "closed"} THEN Read(k) ELSE OnDisk(k)]

KV == INSTANCE KVStore WITH store <- StoreMap, view <- ViewMap

(***************************************************************************)
(* The engine loses acknowledged writes in three known ways (see lost). The*)
(* refinement is about the steps before any of them has happened, and while*)
(* no complete record lies behind a torn one.                              *)
(***************************************************************************)
Unharmed == lost = {} /\ ~Buried

(***************************************************************************)
(* Every step of Open, Write, Flush, Close, a compaction, the background   *)
(* thread, a failure or a crash is a step of KVStore or invisible in it. So*)
(* a batch becomes durable and becomes visible atomically, whatever files  *)
(* are written and removed in between and wherever the process dies.       *)
(***************************************************************************)
ImplementsStore ==
    /\ KV!Init
    /\ [][Unharmed /\ Unharmed' => [KV!Next]_<<StoreMap, ViewMap>>]_vars

=============================================================================
