------------------------------ MODULE Threads -------------------------------
(***************************************************************************)
(* The threads that share one DB object: clients that call Write, Flush    *)
(* and Close, the background thread, the mutex they all take, and the      *)
(* condition variable bg_cv_. What an operation does to the tree while it  *)
(* holds the mutex is module ClomDB; here it is reduced to whether the     *)
(* memtable holds entries and whether a level is overfull. Get,            *)
(* NewIterator and GetStats hold the mutex and change nothing; bg_idle_    *)
(* and bg_idle_cv_ are set but never read or waited on.                    *)
(***************************************************************************)
EXTENDS Naturals

CONSTANTS
    Clients,               \* the client threads
    bg,                    \* the background thread
    None,                  \* no thread
    MaxCalls,              \* bound: calls per client
    MaxFailures,           \* bound: operations that fail
    MaxWakes               \* bound: wake-ups of bg_cv_ without a notification

ASSUME ThreadsAssumption ==
    /\ bg \notin Clients /\ None \notin Clients \cup {bg}
    /\ MaxCalls \in Nat /\ MaxFailures \in Nat /\ MaxWakes \in Nat

VARIABLES
    background, \* Options::background_compaction
    mutex,      \* the thread that holds mutex_
    pc,         \* what each thread is doing
    dirty,      \* the memtable holds entries
    overfull,   \* NeedsCompactionLocked
    requested,  \* bg_work_requested_
    stopping,   \* shutting_down_
    closed,     \* closed_
    joinable,   \* bg_thread_.joinable()
    joiner,     \* the thread inside bg_thread_.join()
    alive,      \* the object exists
    deleter,    \* the thread running the destructor
    result,     \* what the last call of each client returned
    closing,    \* history: what the Close that set closed_ returned
    calls, failures, wakes

tree    == <<dirty, overfull>>
flags   == <<requested, stopping, closed>>
thread  == <<joinable, joiner>>
object  == <<alive, deleter, background>>
budget  == <<calls, failures, wakes>>
vars    == <<mutex, pc, tree, flags, thread, object, result, closing, budget>>

\* Where a thread can be.
Steps == {"idle", "write", "flush", "close", "check", "join", "joining", "finish",
          "woken", "work", "wait", "exited"}

\* The type invariant: what the threads and the members of DB they share can hold.
TypeOK ==
    /\ mutex \in Clients \cup {bg, None}
    /\ pc \in [Clients \cup {bg} -> Steps]
    /\ background \in BOOLEAN /\ dirty \in BOOLEAN /\ overfull \in BOOLEAN
    /\ requested \in BOOLEAN /\ stopping \in BOOLEAN /\ closed \in BOOLEAN
    /\ joinable \in BOOLEAN /\ alive \in BOOLEAN
    /\ joiner \in Clients \cup {None} /\ deleter \in Clients \cup {None}
    /\ result \in [Clients -> {"none", "ok", "error", "closed", "threw"}]
    /\ closing \in {"none", "ok", "error"}
    /\ calls \in [Clients -> 0 .. MaxCalls] /\ failures \in 0 .. MaxFailures
    /\ wakes \in 0 .. MaxWakes

\* Broken variant: Open returns without having started the background thread.
Init_NotStarted ==
    /\ background \in BOOLEAN
    /\ mutex = None
    /\ pc = [t \in Clients \cup {bg} |-> IF t # bg THEN "idle" ELSE "unstarted"]
    /\ dirty \in BOOLEAN /\ overfull \in BOOLEAN
    /\ requested = FALSE /\ stopping = FALSE /\ closed = FALSE
    /\ joinable = background /\ joiner = None
    /\ alive = TRUE /\ deleter = None
    /\ result = [t \in Clients |-> "none"] /\ closing = "none"
    /\ calls = [t \in Clients |-> 0] /\ failures = 0 /\ wakes = 0

\* Open has succeeded: entries may have been replayed, levels may be overfull.
Init ==
    /\ background \in BOOLEAN
    /\ mutex = None
    /\ pc = [t \in Clients \cup {bg} |->
               IF t # bg THEN "idle" ELSE IF background THEN "woken" ELSE "exited"]
    /\ dirty \in BOOLEAN /\ overfull \in BOOLEAN
    /\ requested = FALSE /\ stopping = FALSE /\ closed = FALSE
    /\ joinable = background /\ joiner = None
    /\ alive = TRUE /\ deleter = None
    /\ result = [t \in Clients |-> "none"] /\ closing = "none"
    /\ calls = [t \in Clients |-> 0] /\ failures = 0 /\ wakes = 0

\* A client calls an operation; it has to take the mutex first.
Call(t, o) ==
    /\ alive /\ deleter = None
    /\ pc[t] = "idle" /\ calls[t] < MaxCalls
    /\ pc' = [pc EXCEPT ![t] = o]
    /\ calls' = [calls EXCEPT ![t] = @ + 1]
    /\ UNCHANGED <<mutex, tree, flags, thread, object, result, closing, failures, wakes>>

(***************************************************************************)
(* delete db: the caller sees to it that no other client is using it. The  *)
(* destructor calls Close unless closed_ is set.                           *)
(***************************************************************************)
Delete(t) ==
    /\ alive /\ deleter = None
    /\ \A u \in Clients : pc[u] = "idle"
    /\ deleter' = t
    /\ IF closed THEN alive' = FALSE /\ UNCHANGED pc
                 ELSE pc' = [pc EXCEPT ![t] = "close"] /\ UNCHANGED alive
    /\ UNCHANGED <<background, mutex, tree, flags, thread, result, closing, budget>>

\* Taking mutex_: at the start of an operation, in Close after the join, and
\* inside bg_cv_.wait when the background thread has woken up.
Lock(t) ==
    /\ mutex = None
    /\ pc[t] \in {"write", "flush", "close", "finish", "woken"}
    /\ mutex' = t
    /\ UNCHANGED <<pc, tree, flags, thread, object, result, closing, budget>>

\* The operation of client t returns status s.
Return(t, s) == result' = [result EXCEPT ![t] = s]

\* pc after client t's operation has returned, with the background thread notified or not.
Idle(t, notify) ==
    [pc EXCEPT ![t] = "idle", ![bg] = IF notify /\ @ = "wait" THEN "woken" ELSE @]

Fail == failures' = failures + 1 /\ failures' <= MaxFailures

(***************************************************************************)
(* FlushMemTableLocked (if flush), then the compaction loop, with status   *)
(* s. A flush that fails has not written the table or the manifest, or has *)
(* written both and not reopened the log. A compaction needs a level that  *)
(* is overfull; one that fails may have installed its outputs before.      *)
(***************************************************************************)
Maintain(flush, d, s) ==
    \/ s = "ok" /\ dirty' = (d /\ ~flush) /\ overfull' = FALSE /\ UNCHANGED failures
    \/ s = "error" /\ flush /\ d /\ dirty' \in BOOLEAN /\ overfull' \in BOOLEAN /\ Fail
    \/ /\ s = "error" /\ (overfull \/ (flush /\ d))
       /\ dirty' = (d /\ ~flush) /\ overfull' \in BOOLEAN /\ Fail

\* Write in background mode: the batch is applied and the thread is asked for work.
WriteRequest(t) ==
    /\ mutex = t /\ pc[t] = "write" /\ ~closed /\ background
    /\ dirty' = TRUE /\ requested' = TRUE
    /\ pc' = Idle(t, TRUE) /\ mutex' = None /\ Return(t, "ok")
    /\ UNCHANGED <<overfull, stopping, closed, thread, object, closing, budget>>

\* Write without a background thread: MaybeFlushLocked runs in the writer.
WriteInline(t) ==
    /\ mutex = t /\ pc[t] = "write" /\ ~closed /\ ~background
    /\ \E flush \in BOOLEAN, s \in {"ok", "error"} : Maintain(flush, TRUE, s) /\ Return(t, s)
    /\ pc' = Idle(t, FALSE) /\ mutex' = None
    /\ UNCHANGED <<flags, thread, object, closing, calls, wakes>>

\* Broken variant: closed_ is not looked at (as Flush does not).
WriteRefused_Accepts(t) ==
    /\ mutex = t /\ pc[t] = "write" /\ closed
    /\ dirty' = TRUE
    /\ pc' = Idle(t, FALSE) /\ mutex' = None /\ Return(t, "ok")
    /\ UNCHANGED <<overfull, flags, thread, object, closing, budget>>

WriteRefused(t) ==
    /\ mutex = t /\ pc[t] = "write" /\ closed
    /\ pc' = Idle(t, FALSE) /\ mutex' = None /\ Return(t, "closed")
    /\ UNCHANGED <<tree, flags, thread, object, closing, budget>>

\* The log cannot be written, or Iterate finds the batch malformed after applying
\* some of it: no work is asked for.
WriteFails(t) ==
    /\ mutex = t /\ pc[t] = "write" /\ ~closed
    /\ dirty' \in {dirty, TRUE} /\ Fail
    /\ pc' = Idle(t, FALSE) /\ mutex' = None /\ Return(t, "error")
    /\ UNCHANGED <<overfull, flags, thread, object, closing, calls, wakes>>

\* Flush looks neither at closed_ nor at bg_work_requested_.
Flush(t) ==
    /\ mutex = t /\ pc[t] = "flush"
    /\ \E s \in {"ok", "error"} : Maintain(TRUE, dirty, s) /\ Return(t, s)
    /\ pc' = Idle(t, FALSE) /\ mutex' = None
    /\ UNCHANGED <<flags, thread, object, closing, calls, wakes>>

-----------------------------------------------------------------------------
(* DB::Close *)

\* closed_ is set: nothing to do.
CloseAgain(t) ==
    /\ mutex = t /\ pc[t] = "close" /\ closed
    /\ pc' = Idle(t, FALSE) /\ mutex' = None /\ Return(t, "ok")
    /\ alive' = (deleter # t)
    /\ UNCHANGED <<tree, flags, thread, deleter, background, closing, budget>>

\* Broken variant: the background thread is not notified of the shutdown.
CloseBegin_NoNotify(t) ==
    /\ mutex = t /\ pc[t] = "close" /\ ~closed
    /\ stopping' = TRUE
    /\ pc' = [pc EXCEPT ![t] = "check"]
    /\ mutex' = None
    /\ UNCHANGED <<tree, requested, closed, thread, object, result, closing, budget>>

\* Broken variant: Close keeps the mutex while it joins the background thread.
CloseBegin_KeepsMutex(t) ==
    /\ mutex = t /\ pc[t] = "close" /\ ~closed
    /\ stopping' = TRUE
    /\ pc' = [Idle(t, TRUE) EXCEPT ![t] = "check"]
    /\ UNCHANGED <<mutex, tree, requested, closed, thread, object, result, closing, budget>>

\* The shutdown is announced and the mutex released.
CloseBegin(t) ==
    /\ mutex = t /\ pc[t] = "close" /\ ~closed
    /\ stopping' = TRUE
    /\ pc' = [Idle(t, TRUE) EXCEPT ![t] = "check"]
    /\ mutex' = None
    /\ UNCHANGED <<tree, requested, closed, thread, object, result, closing, budget>>

\* Broken variant: the thread is not joined.
CheckJoinable_Skips(t) ==
    /\ pc[t] = "check"
    /\ pc' = [pc EXCEPT ![t] = "finish"]
    /\ UNCHANGED <<mutex, tree, flags, thread, object, result, closing, budget>>

\* Broken variant: join without asking joinable().
CheckJoinable_Always(t) ==
    /\ pc[t] = "check"
    /\ pc' = [pc EXCEPT ![t] = "join"]
    /\ UNCHANGED <<mutex, tree, flags, thread, object, result, closing, budget>>

\* bg_thread_.joinable(), read without the mutex.
CheckJoinable(t) ==
    /\ pc[t] = "check"
    /\ pc' = [pc EXCEPT ![t] = IF joinable THEN "join" ELSE "finish"]
    /\ UNCHANGED <<mutex, tree, flags, thread, object, result, closing, budget>>

JoinBegin(t) ==
    /\ pc[t] = "join" /\ joinable /\ joiner = None
    /\ joiner' = t /\ pc' = [pc EXCEPT ![t] = "joining"]
    /\ UNCHANGED <<mutex, tree, flags, joinable, object, result, closing, budget>>

(***************************************************************************)
(* std::thread::join on a thread that another one is joining, or has       *)
(* joined since joinable() was read, throws std::system_error out of Close.*)
(***************************************************************************)
JoinThrows(t) ==
    /\ pc[t] = "join" /\ (~joinable \/ joiner # None)
    /\ pc' = Idle(t, FALSE) /\ Return(t, "threw")
    /\ UNCHANGED <<mutex, tree, flags, thread, object, closing, budget>>

JoinEnd(t) ==
    /\ pc[t] = "joining" /\ pc[bg] = "exited"
    /\ joinable' = FALSE /\ joiner' = None
    /\ pc' = [pc EXCEPT ![t] = "finish"]
    /\ UNCHANGED <<mutex, tree, flags, object, result, closing, budget>>

(***************************************************************************)
(* With the mutex again: the memtable is flushed, the log closed and the   *)
(* manifest saved. Any of them may fail; closed_ is set all the same.      *)
(***************************************************************************)
CloseFinish(t) ==
    /\ mutex = t /\ pc[t] = "finish"
    /\ \/ /\ dirty' = FALSE /\ overfull' \in (IF dirty THEN BOOLEAN ELSE {overfull})
          /\ Return(t, "ok") /\ closing' = "ok" /\ UNCHANGED failures
       \/ /\ dirty' \in (IF dirty THEN BOOLEAN ELSE {FALSE})
          /\ overfull' \in (IF dirty THEN BOOLEAN ELSE {overfull})
          /\ Return(t, "error") /\ closing' = "error" /\ Fail
    /\ closed' = TRUE /\ alive' = (deleter # t)
    /\ pc' = Idle(t, FALSE) /\ mutex' = None
    /\ UNCHANGED <<requested, stopping, thread, deleter, background, calls, wakes>>

-----------------------------------------------------------------------------
(* DB::BackgroundLoop *)

\* Broken variant: wait(lock) without a predicate, entered after every round of work.
BackgroundWait_NoPredicate ==
    /\ mutex = bg /\ pc[bg] = "woken" /\ ~stopping
    /\ pc' = [pc EXCEPT ![bg] = "wait"] /\ mutex' = None
    /\ UNCHANGED <<tree, flags, thread, object, result, closing, budget>>

\* The predicate of bg_cv_.wait does not hold: wait, releasing the mutex.
BackgroundWait ==
    /\ mutex = bg /\ pc[bg] = "woken" /\ ~stopping /\ ~requested
    /\ pc' = [pc EXCEPT ![bg] = "wait"] /\ mutex' = None
    /\ UNCHANGED <<tree, flags, thread, object, result, closing, budget>>

\* bg_cv_.wait may wake up without a notification.
SpuriousWake ==
    /\ pc[bg] = "wait"
    /\ wakes' = wakes + 1 /\ wakes' <= MaxWakes
    /\ pc' = [pc EXCEPT ![bg] = "woken"]
    /\ UNCHANGED <<mutex, tree, flags, thread, object, result, closing, calls, failures>>

BackgroundExit ==
    /\ mutex = bg /\ pc[bg] = "woken" /\ stopping
    /\ pc' = [pc EXCEPT ![bg] = "exited"] /\ mutex' = None
    /\ UNCHANGED <<tree, flags, thread, object, result, closing, budget>>

BackgroundTake ==
    /\ mutex = bg /\ pc[bg] = "woken" /\ ~stopping /\ requested
    /\ requested' = FALSE
    /\ pc' = [pc EXCEPT ![bg] = "work"]
    /\ UNCHANGED <<mutex, tree, stopping, closed, thread, object, result, closing, budget>>

\* Broken variant: the thread compacts and leaves the memtable alone.
BackgroundWork_NoFlush ==
    /\ mutex = bg /\ pc[bg] = "work"
    /\ \E s \in {"ok", "error"} : Maintain(FALSE, dirty, s)
    /\ pc' = [pc EXCEPT ![bg] = "woken"]
    /\ UNCHANGED <<mutex, flags, thread, object, result, closing, calls, wakes>>

\* The status of the work is dropped; the mutex is kept for the next test of the predicate.
BackgroundWork ==
    /\ mutex = bg /\ pc[bg] = "work"
    /\ \E s \in {"ok", "error"} : Maintain(TRUE, dirty, s)
    /\ pc' = [pc EXCEPT ![bg] = "woken"]
    /\ UNCHANGED <<mutex, flags, thread, object, result, closing, calls, wakes>>

-----------------------------------------------------------------------------
\* The next step of client t inside a call.
ClientStep(t) ==
    \/ Lock(t) \/ WriteRequest(t) \/ WriteInline(t) \/ WriteRefused(t) \/ WriteFails(t)
    \/ Flush(t) \/ CloseAgain(t) \/ CloseBegin(t) \/ CheckJoinable(t)
    \/ JoinBegin(t) \/ JoinThrows(t) \/ JoinEnd(t) \/ CloseFinish(t)

BackgroundStep ==
    Lock(bg) \/ BackgroundWait \/ BackgroundExit \/ BackgroundTake \/ BackgroundWork

Next ==
    \/ \E t \in Clients : \/ \E o \in {"write", "flush", "close"} : Call(t, o)
                          \/ Delete(t) \/ ClientStep(t)
    \/ BackgroundStep \/ SpuriousWake

Spec == Init /\ [][Next]_vars

(***************************************************************************)
(* A thread that can take a step takes it. Nothing is assumed of the order *)
(* in which waiting threads get the mutex, of spurious wake-ups, or of     *)
(* clients making further calls.                                           *)
(***************************************************************************)
FairSpec == Spec /\ WF_vars(BackgroundStep) /\ \A t \in Clients : WF_vars(ClientStep(t))

-----------------------------------------------------------------------------
(* Properties *)

(***************************************************************************)
(* No wake-up is lost: a request for background work is taken, or the      *)
(* object is shut down, also when it is made while the thread is working   *)
(* or has not started yet.                                                 *)
(***************************************************************************)
RequestsTaken == requested ~> (~requested \/ stopping)

(***************************************************************************)
(* What a write left in the memtable is flushed, together with whatever an *)
(* earlier background flush failed to write, unless this flush fails too   *)
(* or the object is shut down.                                             *)
(***************************************************************************)
RequestsFlush ==
    \A n \in 0 .. MaxFailures :
      (requested /\ dirty /\ failures = n) ~> (~dirty \/ failures > n \/ stopping)

(***************************************************************************)
(* Every call returns: Close is never left waiting for a background thread *)
(* that waits for it, and no path keeps the mutex.                         *)
(***************************************************************************)
CallsReturn == \A t \in Clients : pc[t] # "idle" ~> pc[t] = "idle"

(***************************************************************************)
(* A database whose Close returned OK has nothing left in its memtable,    *)
(* although Close releases the mutex half way and writes are still         *)
(* accepted, and acknowledged, until it has it again.                      *)
(***************************************************************************)
ClosedIsFlushed == closing = "ok" => ~dirty

(***************************************************************************)
(* The background thread never outlives the object it works on: once the   *)
(* destructor is done, or closed_ is set, it has left BackgroundLoop.      *)
(***************************************************************************)
ThreadGoneFirst == ~alive \/ closed => pc[bg] = "exited"

(***************************************************************************)
(* The background thread never sleeps through a request for work or the    *)
(* announcement of a shutdown, whether it is made before the thread enters *)
(* bg_cv_.wait, while it works, or by several clients at once.             *)
(***************************************************************************)
NoLostWakeup == pc[bg] = "wait" => ~requested /\ ~stopping

(***************************************************************************)
(* When the join of one Close throws, another Close is waiting for the     *)
(* background thread, is finishing, or has set closed_: the database is    *)
(* not left half closed by two calls that each rely on the other.          *)
(***************************************************************************)
ThrowLeavesCloser ==
    (\E t \in Clients : result[t] = "threw") =>
      closed \/ \E u \in Clients : pc[u] \in {"joining", "finish"}

\* Thread t can take its next step without another thread taking one first.
Runnable(t) ==
    \/ pc[t] \in {"check", "join"}
    \/ pc[t] \in {"write", "flush", "close", "finish", "woken", "work"} /\ mutex \in {t, None}
    \/ pc[t] = "joining" /\ pc[bg] = "exited"

(***************************************************************************)
(* The threads never all wait for each other: while a call has not         *)
(* returned, some thread can go on. Close waits for the background thread  *)
(* without the mutex, the thread waits for a notification or the mutex, and*)
(* the other calls wait for the mutex; one of them is not waiting.         *)
(***************************************************************************)
NobodyStuck ==
    (\E t \in Clients : pc[t] # "idle") => \E t \in Clients \cup {bg} : Runnable(t)

(***************************************************************************)
(* Close may be called by two threads at once, and the join of one of them *)
(* then throws; the other one goes on and closes the database. Close never *)
(* throws on its own, so calling it again, or without a background thread, *)
(* is safe.                                                                *)
(***************************************************************************)
SomeCloseFinishes == \A t \in Clients : result[t] = "threw" ~> closed

=============================================================================
