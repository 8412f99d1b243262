--------------------------- MODULE ThreadsProofs ----------------------------
(***************************************************************************)
(* What is proved of the threads that share a DB object, for any number of *)
(* clients and calls.                                                      *)
(***************************************************************************)
EXTENDS Threads, TLAPS

\* An object that has just been opened.
LEMMA InitTypes == Init => TypeOK
<1> SUFFICES ASSUME Init PROVE TypeOK
  OBVIOUS
<1>1. pc \in [Clients \cup {bg} -> Steps]
  BY DEF Init, Steps
<1>2. /\ background \in BOOLEAN /\ dirty \in BOOLEAN /\ overfull \in BOOLEAN
      /\ requested \in BOOLEAN /\ stopping \in BOOLEAN /\ closed \in BOOLEAN
      /\ joinable \in BOOLEAN /\ alive \in BOOLEAN
  BY Zenon DEF Init
<1>3. /\ mutex \in Clients \cup {bg, None}
      /\ joiner \in Clients \cup {None} /\ deleter \in Clients \cup {None}
      /\ result \in [Clients -> {"none", "ok", "error", "closed", "threw"}]
      /\ closing \in {"none", "ok", "error"}
      /\ calls \in [Clients -> 0 .. MaxCalls] /\ failures \in 0 .. MaxFailures
      /\ wakes \in 0 .. MaxWakes
  BY ThreadsAssumption DEF Init
<1> QED BY <1>1, <1>2, <1>3 DEF TypeOK

\* Returning, with or without a notification, leaves every thread at a known step.
LEMMA IdleIs ==
    ASSUME pc \in [Clients \cup {bg} -> Steps], NEW t \in Clients, NEW notify \in BOOLEAN
    PROVE  /\ Idle(t, notify) \in [Clients \cup {bg} -> Steps]
           /\ Idle(t, notify)[t] = "idle"
           /\ \A u \in Clients : u # t => Idle(t, notify)[u] = pc[u]
           /\ Idle(t, notify)[bg] = IF notify /\ pc[bg] = "wait" THEN "woken" ELSE pc[bg]
BY ThreadsAssumption DEF Idle, Steps

\* A flush and a compaction, however they end.
LEMMA MaintainTypes ==
    ASSUME TypeOK, NEW flush \in BOOLEAN, NEW d \in BOOLEAN, NEW s, Maintain(flush, d, s)
    PROVE  dirty' \in BOOLEAN /\ overfull' \in BOOLEAN /\ failures' \in 0 .. MaxFailures
<1>1. dirty' \in BOOLEAN /\ overfull' \in BOOLEAN
  BY Zenon DEF Maintain
<1>2. failures' = failures \/ (failures' = failures + 1 /\ failures' <= MaxFailures)
  BY Zenon DEF Maintain, Fail
<1>3. failures' \in 0 .. MaxFailures
  BY <1>2, ThreadsAssumption DEF TypeOK
<1> QED BY <1>1, <1>3

\* Every step of every thread keeps the types.
LEMMA TypeStep == TypeOK /\ [Next]_vars => TypeOK'
<1> SUFFICES ASSUME TypeOK, [Next]_vars PROVE TypeOK'
  OBVIOUS
<1> USE ThreadsAssumption
<1> USE DEF TypeOK, Steps, vars, tree, flags, thread, object, budget, Return, Fail
<1>0. \A t \in Clients, n \in BOOLEAN : Idle(t, n) \in [Clients \cup {bg} -> Steps]
  BY IdleIs
<1>1. ASSUME NEW t \in Clients, NEW o \in {"write", "flush", "close"}, Call(t, o) PROVE TypeOK'
  BY <1>1 DEF Call
<1>2. ASSUME NEW t \in Clients, Delete(t) PROVE TypeOK'
  <2>1. alive' \in BOOLEAN
    BY <1>2, Zenon DEF Delete
  <2>2. pc' \in [Clients \cup {bg} -> Steps]
    BY <1>2 DEF Delete
  <2> QED BY <1>2, <2>1, <2>2 DEF Delete
<1>3. ASSUME NEW t \in Clients, ClientStep(t) PROVE TypeOK'
  <2>1. CASE Lock(t)
    BY <1>0, <2>1 DEF Lock
  <2>2. CASE WriteRequest(t)
    BY <1>0, <2>2 DEF WriteRequest
  <2>3. CASE WriteInline(t)
    BY <1>0, <2>3, MaintainTypes DEF WriteInline
  <2>4. CASE WriteRefused(t)
    BY <1>0, <2>4 DEF WriteRefused
  <2>5. CASE WriteFails(t)
    <3>1. dirty' \in BOOLEAN
      BY <2>5, Zenon DEF WriteFails
    <3>2. failures' \in 0 .. MaxFailures
      BY <2>5 DEF WriteFails
    <3> QED BY <1>0, <2>5, <3>1, <3>2 DEF WriteFails
  <2>6. CASE Flush(t)
    <3>1. PICK s \in {"ok", "error"} : Maintain(TRUE, dirty, s) /\ Return(t, s)
      BY <2>6 DEF Flush
    <3>2. dirty' \in BOOLEAN /\ overfull' \in BOOLEAN /\ failures' \in 0 .. MaxFailures
      BY <3>1, MaintainTypes
    <3> QED BY <1>0, <2>6, <3>1, <3>2 DEF Flush
  <2>7. CASE CloseAgain(t)
    BY <1>0, <2>7 DEF CloseAgain
  <2>8. CASE CloseBegin(t)
    BY <1>0, <2>8 DEF CloseBegin
  <2>9. CASE CheckJoinable(t)
    BY <1>0, <2>9 DEF CheckJoinable
  <2>10. CASE JoinBegin(t)
    BY <1>0, <2>10 DEF JoinBegin
  <2>11. CASE JoinThrows(t)
    <3>1. pc' \in [Clients \cup {bg} -> Steps]
      BY <1>0, <2>11, Zenon DEF JoinThrows
    <3>2. /\ Return(t, "threw")
          /\ UNCHANGED <<mutex, tree, flags, thread, object, closing, budget>>
      BY <2>11, Zenon DEF JoinThrows
    <3> QED BY <3>1, <3>2
  <2>12. CASE JoinEnd(t)
    <3>1. pc' \in [Clients \cup {bg} -> Steps]
      BY <1>0, <2>12, Zenon DEF JoinEnd
    <3>2. /\ joinable' = FALSE /\ joiner' = None
          /\ UNCHANGED <<mutex, tree, flags, object, result, closing, budget>>
      BY <2>12, Zenon DEF JoinEnd
    <3> QED BY <3>1, <3>2
  <2>13. CASE CloseFinish(t)
    <3>1. dirty' \in BOOLEAN /\ overfull' \in BOOLEAN /\ closed' \in BOOLEAN /\ alive' \in BOOLEAN
      BY <2>13, Zenon DEF CloseFinish
    <3>2. failures' = failures \/ Fail
      BY <2>13, Zenon DEF CloseFinish
    <3>3. failures' \in 0 .. MaxFailures
      BY <3>2
    <3>4. closing' \in {"ok", "error"}
      BY <2>13, Zenon DEF CloseFinish
    <3>5. \E s \in {"ok", "error"} : Return(t, s)
      BY <2>13, Zenon DEF CloseFinish
    <3> QED BY <1>0, <2>13, <3>1, <3>3, <3>4, <3>5 DEF CloseFinish
  <2> QED BY <1>3, <2>1, <2>2, <2>3, <2>4, <2>5, <2>6, <2>7, <2>8, <2>9, <2>10, <2>11,
         <2>12, <2>13 DEF ClientStep
<1>4. CASE BackgroundStep
  <2>1. CASE Lock(bg)
    BY <2>1 DEF Lock
  <2>2. CASE BackgroundWait
    BY <2>2 DEF BackgroundWait
  <2>3. CASE BackgroundExit
    BY <2>3 DEF BackgroundExit
  <2>4. CASE BackgroundTake
    BY <2>4 DEF BackgroundTake
  <2>5. CASE BackgroundWork
    BY <2>5, MaintainTypes DEF BackgroundWork
  <2> QED BY <1>4, <2>1, <2>2, <2>3, <2>4, <2>5 DEF BackgroundStep
<1>5. CASE SpuriousWake
  BY <1>5 DEF SpuriousWake
<1>6. CASE UNCHANGED vars
  BY <1>6
<1> QED BY <1>1, <1>2, <1>3, <1>4, <1>5, <1>6 DEF Next

\* The threads and the members of DB they share hold only values of their types.
THEOREM ThreadsTyping == Spec => []TypeOK
BY InitTypes, TypeStep, PTL DEF Spec

-----------------------------------------------------------------------------
(***************************************************************************)
(* The inductive invariant. The background thread leaves its loop only for *)
(* a shutdown and never comes back, so a Close that has passed the join, or*)
(* found nothing to join, knows that it is gone (Gone). Once closed_ is    *)
(* set nothing fills the memtable (Flushed). Exactly the client that joiner*)
(* names is inside the join, and a thread that has been joined was joined  *)
(* by a Close that is finishing or has finished (Joined).                  *)
(***************************************************************************)
Gone ==
    /\ ~joinable => pc[bg] = "exited"
    /\ \A t \in Clients : pc[t] = "finish" => pc[bg] = "exited"
    /\ ThreadGoneFirst

Flushed ==
    /\ closing # "none" => closed
    /\ ClosedIsFlushed

Joined ==
    /\ joinable => background
    /\ \A t \in Clients : pc[t] \in {"join", "joining"} => background
    /\ joiner # None => pc[joiner] = "joining"
    /\ background /\ ~joinable => closed \/ \E u \in Clients : pc[u] = "finish"
    /\ ThrowLeavesCloser

SafeInv == TypeOK /\ Gone /\ Flushed /\ Joined /\ NoLostWakeup

\* A client leaves an operation, or goes on with a Close that has not looked at the thread yet.
LEMMA LeaveStep ==
    ASSUME TypeOK, Gone, Joined, NEW t \in Clients,
           pc[t] \in {"write", "flush", "close"}, pc'[t] \in {"idle", "check"},
           \A u \in Clients : u # t => pc'[u] = pc[u],
           pc[bg] = "exited" => pc'[bg] = "exited",
           UNCHANGED <<joinable, joiner, closed, background>>,
           ~alive' => ~alive \/ closed,
           \A u \in Clients : result'[u] = "threw" => result[u] = "threw"
    PROVE  Gone' /\ Joined'
<1>1. Gone'
  BY DEF Gone, ThreadGoneFirst
<1>2. Joined'
  <2>1. joiner # None => joiner # t /\ joiner \in Clients
    BY DEF TypeOK, Joined
  <2>2. \A u \in Clients : pc[u] \in {"joining", "finish"} => pc'[u] = pc[u]
    OBVIOUS
  <2>3. ThrowLeavesCloser'
    BY <2>2 DEF Joined, ThrowLeavesCloser
  <2> QED BY <2>1, <2>2, <2>3 DEF Joined
<1> QED BY <1>1, <1>2

\* Every step of every thread keeps the invariant.
LEMMA SafeStep == SafeInv /\ [Next]_vars => SafeInv'
<1> SUFFICES ASSUME SafeInv, [Next]_vars PROVE Gone' /\ Flushed' /\ Joined' /\ NoLostWakeup'
  BY TypeStep DEF SafeInv
<1> DEFINE Safe == Gone /\ Flushed /\ Joined /\ NoLostWakeup
<1>0. TypeOK /\ Gone /\ Flushed /\ Joined /\ NoLostWakeup
  BY DEF SafeInv
<1> USE <1>0, ThreadsAssumption DEF TypeOK, vars, tree, flags, thread, object, budget
<1>1. ASSUME NEW t \in Clients, NEW o \in {"write", "flush", "close"}, Call(t, o) PROVE Safe'
  BY <1>1 DEF Call, Gone, ThreadGoneFirst, Flushed, ClosedIsFlushed,
     Joined, ThrowLeavesCloser, NoLostWakeup
<1>2. ASSUME NEW t \in Clients, Delete(t) PROVE Safe'
  BY <1>2 DEF Delete, Gone, ThreadGoneFirst, Flushed, ClosedIsFlushed,
     Joined, ThrowLeavesCloser, NoLostWakeup
<1>3. ASSUME NEW t \in Clients, ClientStep(t) PROVE Safe'
  <2>0. \A n \in BOOLEAN :
          /\ Idle(t, n) \in [Clients \cup {bg} -> Steps] /\ Idle(t, n)[t] = "idle"
          /\ \A u \in Clients : u # t => Idle(t, n)[u] = pc[u]
          /\ Idle(t, n)[bg] = IF n /\ pc[bg] = "wait" THEN "woken" ELSE pc[bg]
    BY IdleIs
  <2>1. CASE Lock(t)
    BY <2>0, <2>1 DEF Lock, Return, Gone, ThreadGoneFirst, Flushed, ClosedIsFlushed,
       Joined, ThrowLeavesCloser, NoLostWakeup
  <2>2. CASE WriteRequest(t)
    <3>1. Gone' /\ Joined'
      BY <2>0, <2>2, LeaveStep DEF WriteRequest, Return
    <3>2. Flushed'
      BY <2>2 DEF WriteRequest, Flushed, ClosedIsFlushed
    <3>3. NoLostWakeup'
      BY <2>0, <2>2 DEF WriteRequest, NoLostWakeup
    <3> QED BY <3>1, <3>2, <3>3
  <2>3. CASE WriteInline(t)
    <3>1. Gone' /\ Joined'
      BY <2>0, <2>3, LeaveStep DEF WriteInline, Return
    <3>2. Flushed'
      BY <2>3 DEF WriteInline, Maintain, Flushed, ClosedIsFlushed
    <3>3. NoLostWakeup'
      BY <2>0, <2>3 DEF WriteInline, NoLostWakeup
    <3> QED BY <3>1, <3>2, <3>3
  <2>4. CASE WriteRefused(t)
    <3>1. Gone' /\ Joined'
      BY <2>0, <2>4, LeaveStep DEF WriteRefused, Return
    <3>2. Flushed'
      BY <2>4 DEF WriteRefused, Flushed, ClosedIsFlushed
    <3>3. NoLostWakeup'
      BY <2>0, <2>4 DEF WriteRefused, NoLostWakeup
    <3> QED BY <3>1, <3>2, <3>3
  <2>5. CASE WriteFails(t)
    <3>1. Gone' /\ Joined'
      BY <2>0, <2>5, LeaveStep DEF WriteFails, Return
    <3>2. Flushed'
      BY <2>5 DEF WriteFails, Flushed, ClosedIsFlushed
    <3>3. NoLostWakeup'
      BY <2>0, <2>5 DEF WriteFails, NoLostWakeup
    <3> QED BY <3>1, <3>2, <3>3
  <2>6. CASE Flush(t)
    <3>1. Gone' /\ Joined'
      BY <2>0, <2>6, LeaveStep DEF Flush, Return
    <3>2. Flushed'
      BY <2>6 DEF Flush, Maintain, Flushed, ClosedIsFlushed
    <3>3. NoLostWakeup'
      BY <2>0, <2>6 DEF Flush, NoLostWakeup
    <3> QED BY <3>1, <3>2, <3>3
  <2>7. CASE CloseAgain(t)
    <3>1. Gone' /\ Joined'
      BY <2>0, <2>7, LeaveStep DEF CloseAgain, Return
    <3>2. Flushed'
      BY <2>7 DEF CloseAgain, Flushed, ClosedIsFlushed
    <3>3. NoLostWakeup'
      BY <2>0, <2>7 DEF CloseAgain, NoLostWakeup
    <3> QED BY <3>1, <3>2, <3>3
  <2>8. CASE CloseBegin(t)
    <3>0. /\ pc'[t] = "check" /\ \A u \in Clients : u # t => pc'[u] = pc[u]
          /\ pc'[bg] = IF pc[bg] = "wait" THEN "woken" ELSE pc[bg]
      BY <2>0, <2>8 DEF CloseBegin
    <3>1. Gone' /\ Joined'
      BY <2>8, <3>0, LeaveStep DEF CloseBegin
    <3>2. Flushed'
      BY <2>8 DEF CloseBegin, Flushed, ClosedIsFlushed
    <3>3. NoLostWakeup'
      BY <3>0 DEF NoLostWakeup
    <3> QED BY <3>1, <3>2, <3>3
  <2>9. CASE CheckJoinable(t)
    BY <2>0, <2>9 DEF CheckJoinable, Return, Gone, ThreadGoneFirst, Flushed, ClosedIsFlushed,
       Joined, ThrowLeavesCloser, NoLostWakeup
  <2>10. CASE JoinBegin(t)
    BY <2>0, <2>10 DEF JoinBegin, Return, Gone, ThreadGoneFirst, Flushed, ClosedIsFlushed,
       Joined, ThrowLeavesCloser, NoLostWakeup
  <2>11. CASE JoinThrows(t)
    <3>1. Gone'
      BY <2>0, <2>11 DEF JoinThrows, Return, Gone, ThreadGoneFirst
    <3>2. Flushed'
      BY <2>0, <2>11 DEF JoinThrows, Return, Flushed, ClosedIsFlushed
    <3>3. Joined'
      BY <2>0, <2>11 DEF JoinThrows, Return, Joined, ThrowLeavesCloser
    <3>4. NoLostWakeup'
      BY <2>0, <2>11 DEF JoinThrows, Return, NoLostWakeup
    <3> QED BY <3>1, <3>2, <3>3, <3>4
  <2>12. CASE JoinEnd(t)
    BY <2>0, <2>12 DEF JoinEnd, Return, Gone, ThreadGoneFirst, Flushed, ClosedIsFlushed,
       Joined, ThrowLeavesCloser, NoLostWakeup
  <2>13. CASE CloseFinish(t)
    BY <2>0, <2>13 DEF CloseFinish, Return, Gone, ThreadGoneFirst, Flushed, ClosedIsFlushed,
       Joined, ThrowLeavesCloser, NoLostWakeup
  <2> QED BY <1>3, <2>1, <2>2, <2>3, <2>4, <2>5, <2>6, <2>7, <2>8, <2>9, <2>10, <2>11,
         <2>12, <2>13 DEF ClientStep
<1>4. CASE BackgroundStep
  <2>1. CASE Lock(bg)
    BY <2>1 DEF Lock, Gone, ThreadGoneFirst, Flushed, ClosedIsFlushed,
       Joined, ThrowLeavesCloser, NoLostWakeup
  <2>2. CASE BackgroundWait
    BY <2>2 DEF BackgroundWait, Gone, ThreadGoneFirst, Flushed, ClosedIsFlushed,
       Joined, ThrowLeavesCloser, NoLostWakeup
  <2>3. CASE BackgroundExit
    BY <2>3 DEF BackgroundExit, Gone, ThreadGoneFirst, Flushed, ClosedIsFlushed,
       Joined, ThrowLeavesCloser, NoLostWakeup
  <2>4. CASE BackgroundTake
    BY <2>4 DEF BackgroundTake, Gone, ThreadGoneFirst, Flushed, ClosedIsFlushed,
       Joined, ThrowLeavesCloser, NoLostWakeup
  <2>5. CASE BackgroundWork
    BY <2>5 DEF BackgroundWork, Maintain, Gone, ThreadGoneFirst, Flushed, ClosedIsFlushed,
       Joined, ThrowLeavesCloser, NoLostWakeup
  <2> QED BY <1>4, <2>1, <2>2, <2>3, <2>4, <2>5 DEF BackgroundStep
<1>5. CASE SpuriousWake
  BY <1>5 DEF SpuriousWake, Gone, ThreadGoneFirst, Flushed, ClosedIsFlushed,
     Joined, ThrowLeavesCloser, NoLostWakeup
<1>6. CASE UNCHANGED vars
  BY <1>6 DEF vars, Gone, ThreadGoneFirst, Flushed, ClosedIsFlushed,
     Joined, ThrowLeavesCloser, NoLostWakeup
<1> QED BY <1>1, <1>2, <1>3, <1>4, <1>5, <1>6 DEF Next

\* It holds throughout.
LEMMA SafeInvariant == Spec => []SafeInv
<1>1. Init => SafeInv
  <2> SUFFICES ASSUME Init PROVE SafeInv
    OBVIOUS
  <2>1. TypeOK
    BY InitTypes
  <2>2. Gone /\ Joined
    BY ThreadsAssumption DEF Init, Gone, ThreadGoneFirst, Joined, ThrowLeavesCloser
  <2>3. Flushed /\ NoLostWakeup
    BY ThreadsAssumption DEF Init, Flushed, ClosedIsFlushed, NoLostWakeup
  <2> QED BY <2>1, <2>2, <2>3 DEF SafeInv
<1> QED BY <1>1, SafeStep, PTL DEF Spec

\* When Close has returned OK the memtable is empty, whatever was written while it had no mutex.
THEOREM ClosedAfterFlush == Spec => []ClosedIsFlushed
<1>1. SafeInv => ClosedIsFlushed
  BY DEF SafeInv, Flushed
<1> QED BY <1>1, SafeInvariant, PTL

\* The background thread is gone when closed_ is set and when the object is destroyed.
THEOREM ThreadLeavesFirst == Spec => []ThreadGoneFirst
<1>1. SafeInv => ThreadGoneFirst
  BY DEF SafeInv, Gone
<1> QED BY <1>1, SafeInvariant, PTL

\* The background thread is never asleep while there is a request or a shutdown.
THEOREM WakeupsAreKept == Spec => []NoLostWakeup
<1>1. SafeInv => NoLostWakeup
  BY DEF SafeInv
<1> QED BY <1>1, SafeInvariant, PTL

\* A Close that throws leaves another one behind that finishes the job, or has.
THEOREM OneCloserRemains == Spec => []ThrowLeavesCloser
<1>1. SafeInv => ThrowLeavesCloser
  BY DEF SafeInv, Joined
<1> QED BY <1>1, SafeInvariant, PTL

-----------------------------------------------------------------------------
(***************************************************************************)
(* Why the threads cannot all wait for each other. Who holds the mutex is  *)
(* at a step that needs it, so it can go on (Holding); and a Close that no *)
(* longer holds the mutex has announced the shutdown (Announced), so the   *)
(* background thread it waits for is not asleep (NoLostWakeup).            *)
(***************************************************************************)
Holding ==
    /\ mutex \in Clients => pc[mutex] \in {"write", "flush", "close", "finish"}
    /\ mutex = bg => pc[bg] \in {"woken", "work"}
    /\ pc[bg] = "work" => mutex = bg

Announced ==
    /\ \A t \in Clients : /\ pc[t] \in {"check", "join", "joining", "finish"} => stopping
                         /\ pc[t] \notin {"woken", "work", "wait", "exited"}
    /\ pc[bg] \in {"woken", "work", "wait", "exited"}

LockInv == Holding /\ Announced

\* A client whose call returns, or goes on without the mutex it held.
LEMMA ReleaseStep ==
    ASSUME TypeOK, LockInv, NEW t \in Clients, mutex = t, mutex' = None,
           \/ pc'[t] = "idle" /\ (stopping => stopping')
           \/ pc'[t] = "check" /\ stopping',
           \A u \in Clients : u # t => pc'[u] = pc[u],
           pc'[bg] = IF pc[bg] = "wait" /\ pc'[bg] = "woken" THEN "woken" ELSE pc[bg]
    PROVE  LockInv'
<1>1. Holding'
  BY ThreadsAssumption DEF LockInv, Holding, TypeOK
<1>2. Announced'
  BY DEF LockInv, Announced, TypeOK
<1> QED BY <1>1, <1>2 DEF LockInv

\* A client inside Close that neither has nor takes the mutex.
LEMMA UnlockedStep ==
    ASSUME TypeOK, LockInv, NEW t \in Clients, UNCHANGED <<mutex, stopping>>,
           pc[t] \in {"check", "join", "joining"},
           pc'[t] \in {"join", "joining", "finish", "idle"},
           \A u \in Clients : u # t => pc'[u] = pc[u], pc'[bg] = pc[bg]
    PROVE  LockInv'
<1>1. Holding'
  BY ThreadsAssumption DEF LockInv, Holding, TypeOK
<1>2. Announced'
  BY DEF LockInv, Announced, TypeOK
<1> QED BY <1>1, <1>2 DEF LockInv

\* Every step of every thread keeps the invariant.
LEMMA LockStep == TypeOK /\ LockInv /\ [Next]_vars => LockInv'
<1> SUFFICES ASSUME TypeOK, LockInv, [Next]_vars PROVE LockInv'
  OBVIOUS
<1> USE ThreadsAssumption DEF vars, tree, flags, thread, object, budget
<1>0. pc \in [Clients \cup {bg} -> Steps]
  BY DEF TypeOK
<1>1. ASSUME NEW t \in Clients, NEW o \in {"write", "flush", "close"}, Call(t, o) PROVE LockInv'
  BY <1>0, <1>1 DEF Call, LockInv, Holding, Announced
<1>2. ASSUME NEW t \in Clients, Delete(t) PROVE LockInv'
  BY <1>0, <1>2 DEF Delete, LockInv, Holding, Announced
<1>3. ASSUME NEW t \in Clients, ClientStep(t) PROVE LockInv'
  <2>0. \A n \in BOOLEAN :
          /\ Idle(t, n)[t] = "idle"
          /\ \A u \in Clients : u # t => Idle(t, n)[u] = pc[u]
          /\ Idle(t, n)[bg] = IF n /\ pc[bg] = "wait" THEN "woken" ELSE pc[bg]
    BY <1>0, IdleIs
  <2>1. CASE Lock(t)
    BY <1>0, <2>1 DEF Lock, LockInv, Holding, Announced
  <2>2. CASE WriteRequest(t)
    BY <2>0, <2>2, ReleaseStep DEF WriteRequest
  <2>3. CASE WriteInline(t) \/ WriteRefused(t) \/ WriteFails(t) \/ Flush(t) \/ CloseAgain(t)
    <3>1. /\ mutex = t /\ mutex' = None /\ pc' = Idle(t, FALSE) /\ UNCHANGED stopping
      BY <2>3 DEF WriteInline, WriteRefused, WriteFails, Flush, CloseAgain
    <3> QED BY <2>0, <3>1, ReleaseStep
  <2>4. CASE CloseBegin(t)
    <3>1. /\ pc'[t] = "check" /\ \A u \in Clients : u # t => pc'[u] = pc[u]
          /\ pc'[bg] = IF pc[bg] = "wait" THEN "woken" ELSE pc[bg]
      BY <1>0, <2>0, <2>4, IdleIs DEF CloseBegin
    <3> QED BY <2>4, <3>1, ReleaseStep DEF CloseBegin
  <2>5. CASE CloseFinish(t)
    BY <2>0, <2>5, ReleaseStep DEF CloseFinish
  <2>6. CASE CheckJoinable(t)
    BY <1>0, <2>6, UnlockedStep DEF CheckJoinable
  <2>7. CASE JoinBegin(t)
    BY <1>0, <2>7, UnlockedStep DEF JoinBegin
  <2>8. CASE JoinThrows(t)
    BY <2>0, <2>8, UnlockedStep DEF JoinThrows
  <2>9. CASE JoinEnd(t)
    BY <1>0, <2>9, UnlockedStep DEF JoinEnd
  <2> QED BY <1>3, <2>1, <2>2, <2>3, <2>4, <2>5, <2>6, <2>7, <2>8, <2>9 DEF ClientStep
<1>4. CASE BackgroundStep
  <2>1. CASE Lock(bg)
    BY <1>0, <2>1 DEF Lock, LockInv, Holding, Announced
  <2>2. CASE BackgroundWait \/ BackgroundExit \/ BackgroundTake
    BY <1>0, <2>2 DEF BackgroundWait, BackgroundExit, BackgroundTake, LockInv, Holding, Announced
  <2>3. CASE BackgroundWork
    BY <1>0, <2>3 DEF BackgroundWork, LockInv, Holding, Announced
  <2> QED BY <1>4, <2>1, <2>2, <2>3 DEF BackgroundStep
<1>5. CASE SpuriousWake
  BY <1>0, <1>5 DEF SpuriousWake, LockInv, Holding, Announced
<1>6. CASE UNCHANGED vars
  BY <1>6 DEF LockInv, Holding, Announced
<1> QED BY <1>1, <1>2, <1>3, <1>4, <1>5, <1>6 DEF Next

\* The threads never deadlock: while a call has not returned, some thread can go on.
THEOREM ThreadsNeverDeadlock == Spec => []NobodyStuck
<1>1. Init => LockInv
  BY ThreadsAssumption DEF Init, LockInv, Holding, Announced
<1>2. SafeInv => TypeOK
  BY DEF SafeInv
<1>3. SafeInv /\ LockInv => NobodyStuck
  <2> SUFFICES ASSUME SafeInv, LockInv, NEW t \in Clients, pc[t] # "idle"
               PROVE  \E u \in Clients \cup {bg} : Runnable(u)
    BY DEF NobodyStuck
  <2>0. mutex \in Clients \cup {bg, None} /\ pc \in [Clients \cup {bg} -> Steps]
    BY DEF SafeInv, TypeOK
  <2>1. CASE mutex \in Clients
    <3>1. Runnable(mutex)
      BY <2>1 DEF LockInv, Holding, Runnable
    <3> QED BY <2>1, <3>1
  <2>2. CASE mutex = bg
    <3>1. Runnable(bg)
      BY <2>2 DEF LockInv, Holding, Runnable
    <3> QED BY <3>1
  <2>3. CASE mutex = None /\ pc[t] # "joining"
    <3>1. pc[t] \in {"write", "flush", "close", "check", "join", "finish"}
      BY <2>0, <2>3 DEF LockInv, Announced, Steps
    <3>2. Runnable(t)
      BY <2>3, <3>1 DEF Runnable
    <3> QED BY <3>2
  <2>4. CASE mutex = None /\ pc[t] = "joining"
    <3>1. stopping /\ pc[bg] # "work" /\ pc[bg] # "wait"
      BY <2>4, ThreadsAssumption DEF LockInv, Holding, Announced, SafeInv, NoLostWakeup
    <3>2. pc[bg] \in {"woken", "exited"}
      BY <3>1 DEF LockInv, Announced
    <3>3. Runnable(bg) \/ Runnable(t)
      BY <2>4, <3>2 DEF Runnable
    <3> QED BY <3>3
  <2> QED BY <2>0, <2>1, <2>2, <2>3, <2>4
<1> QED BY <1>1, <1>2, <1>3, LockStep, SafeInvariant, PTL DEF Spec

=============================================================================
