------------------------------ MODULE SendLock ------------------------------
(***************************************************************************)
(* The two-class gate of the Agent's WebSocket (src/agent/send_priority.py)*)
(*                                                                         *)
(* Every frame the Agent sends is written under PrioritySendLock.hold().   *)
(* Control receipts (accepted, started, status, result, heartbeat) and     *)
(* bulk frames (native transcript, artifact chunks) queue separately; a    *)
(* release hands the lock directly to the next live waiter, control first. *)
(*                                                                         *)
(* The code runs on one asyncio loop, so a method runs without interruption*)
(* up to its await.  What does interleave is the moment a future is        *)
(* resolved and the later moment its task resumes: a task can be cancelled *)
(* in between, when it already owns the lock but has not run yet.          *)
(***************************************************************************)
EXTENDS Naturals, SequencesExt

CONSTANTS
    Senders,   \* tasks that call send()
    Bulk       \* the senders whose frames are bulk (is_bulk(body))

VARIABLES
    locked,    \* self._locked
    control,   \* self._control: the queued control waiters, oldest first
    bulk,      \* self._bulk: the queued bulk waiters, oldest first
    future,    \* the waiter's future: pending, granted (set_result) or cancelled
    pc         \* where the task of each sender is

gateVars == <<locked, control, bulk, future, pc>>

(***************************************************************************)
(* pc[s]: "idle" outside the lock; "await" suspended on its future;        *)
(* "throw" suspended, and the loop will resume it with CancelledError;     *)
(* "hold" inside the critical section (it is writing its frame).           *)
(***************************************************************************)
TaskStates   == {"idle", "await", "throw", "hold"}
FutureStates == {"none", "pending", "granted", "cancelled"}

GateTypeOK ==
    /\ locked \in BOOLEAN
    /\ control \in Seq(Senders \ Bulk)
    /\ bulk \in Seq(Senders \cap Bulk)
    /\ future \in [Senders -> FutureStates]
    /\ pc \in [Senders -> TaskStates]

GateInit ==
    /\ locked = FALSE
    /\ control = <<>>
    /\ bulk = <<>>
    /\ future = [s \in Senders |-> "none"]
    /\ pc = [s \in Senders |-> "idle"]

Pending(queue) == \E i \in DOMAIN queue : future[queue[i]] = "pending"

(* The release loop pops every waiter that is done until it meets a pending *)
(* one: the first pending position of the queue.                            *)
FirstPending(queue, i) ==
    /\ i \in DOMAIN queue
    /\ future[queue[i]] = "pending"
    /\ \A j \in 1 .. i - 1 : future[queue[j]] # "pending"

After(queue, i) == SubSeq(queue, i + 1, Len(queue))

(* release(): hand over to the first pending control waiter, else to the    *)
(* first pending bulk waiter, else unlock.  futures is the map after the    *)
(* caller's own bookkeeping.                                                *)
HandToControl(futures) ==
    \E i \in DOMAIN control :
        /\ FirstPending(control, i)
        /\ future' = [futures EXCEPT ![control[i]] = "granted"]
        /\ control' = After(control, i)
        /\ UNCHANGED <<locked, bulk>>

HandToBulk(futures) ==
    \E i \in DOMAIN bulk :
        /\ FirstPending(bulk, i)
        /\ future' = [futures EXCEPT ![bulk[i]] = "granted"]
        /\ bulk' = After(bulk, i)
        /\ control' = <<>>
        /\ UNCHANGED locked

Unlock(futures) ==
    /\ control' = <<>>
    /\ bulk' = <<>>
    /\ locked' = FALSE
    /\ future' = futures

ReleaseBulkFirst(futures) ==   \* mutant of Release: bulk before control
    \/ \E i \in DOMAIN bulk :
          /\ FirstPending(bulk, i)
          /\ future' = [futures EXCEPT ![bulk[i]] = "granted"]
          /\ bulk' = After(bulk, i)
          /\ UNCHANGED <<locked, control>>
    \/ ~Pending(bulk) /\ HandToControl(futures)
    \/ ~Pending(bulk) /\ ~Pending(control) /\ Unlock(futures)

Release(futures) ==
    \/ HandToControl(futures)
    \/ ~Pending(control) /\ HandToBulk(futures)
    \/ ~Pending(control) /\ ~Pending(bulk) /\ Unlock(futures)

(* acquire(), fast path: the lock is free and nobody this sender must not  *)
(* overtake is waiting.                                                    *)
FastPath(s) ==
    /\ ~locked
    /\ ~Pending(control)
    /\ s \in Bulk => ~Pending(bulk)

AcquireFast(s) ==
    /\ pc[s] = "idle"
    /\ FastPath(s)
    /\ locked' = TRUE
    /\ pc' = [pc EXCEPT ![s] = "hold"]
    /\ UNCHANGED <<control, bulk, future>>

(* acquire(), slow path: append a fresh future to the class queue and      *)
(* suspend on it.                                                          *)
AcquireQueue(s) ==
    /\ pc[s] = "idle"
    /\ ~FastPath(s)
    /\ IF s \in Bulk
          THEN bulk' = Append(bulk, s) /\ UNCHANGED control
          ELSE control' = Append(control, s) /\ UNCHANGED bulk
    /\ future' = [future EXCEPT ![s] = "pending"]
    /\ pc' = [pc EXCEPT ![s] = "await"]
    /\ UNCHANGED locked

(* The loop resumes a task whose future was resolved.  release() already   *)
(* popped the waiter, so the finally block's queue.remove finds nothing.   *)
Resume(s) ==
    /\ pc[s] = "await"
    /\ future[s] = "granted"
    /\ future' = [future EXCEPT ![s] = "none"]
    /\ pc' = [pc EXCEPT ![s] = "hold"]
    /\ UNCHANGED <<locked, control, bulk>>

(* Task.cancel() on a suspended sender (heartbeat.cancel(), job.cancel(),  *)
(* shutdown).  A pending future is cancelled at once; a future that was    *)
(* already resolved stays resolved and only the task is made to throw.     *)
Cancel(s) ==
    /\ pc[s] = "await"
    /\ future' = IF future[s] = "pending" THEN [future EXCEPT ![s] = "cancelled"] ELSE future
    /\ pc' = [pc EXCEPT ![s] = "throw"]
    /\ UNCHANGED <<locked, control, bulk>>

(* queue.remove(waiter), ValueError suppressed.                             *)
Without(queue, s) ==
    IF \E i \in DOMAIN queue : queue[i] = s
       THEN RemoveAt(queue, CHOOSE i \in DOMAIN queue : queue[i] = s)
       ELSE queue

ThrowKeepsLock(s) ==    \* mutant of ThrowOwning: ownership is dropped
    /\ pc[s] = "throw"
    /\ future[s] = "granted"
    /\ future' = [future EXCEPT ![s] = "none"]
    /\ pc' = [pc EXCEPT ![s] = "idle"]
    /\ UNCHANGED <<locked, control, bulk>>

(* acquire(), except CancelledError: ownership that was already handed to  *)
(* the task is passed on; the waiter leaves its queue if it is still there.*)
ThrowOwning(s) ==
    /\ pc[s] = "throw"
    /\ future[s] = "granted"
    /\ Release([future EXCEPT ![s] = "none"])
    /\ pc' = [pc EXCEPT ![s] = "idle"]

ThrowWaiting(s) ==
    /\ pc[s] = "throw"
    /\ future[s] = "cancelled"
    /\ future' = [future EXCEPT ![s] = "none"]
    /\ control' = Without(control, s)
    /\ bulk' = Without(bulk, s)
    /\ pc' = [pc EXCEPT ![s] = "idle"]
    /\ UNCHANGED locked

(* hold(), finally: the frame is written, or the write failed or was       *)
(* cancelled; either way the lock is released.                             *)
LeaveGate(s) ==
    /\ pc[s] = "hold"
    /\ Release(future)
    /\ pc' = [pc EXCEPT ![s] = "idle"]

GateNext ==
    \E s \in Senders :
        \/ AcquireFast(s)
        \/ AcquireQueue(s)
        \/ Resume(s)
        \/ Cancel(s)
        \/ ThrowOwning(s)
        \/ ThrowWaiting(s)
        \/ LeaveGate(s)

(* The loop runs every ready task; a frame write is bounded by wait_for(4).*)
GateFairness ==
    \A s \in Senders :
        WF_gateVars(Resume(s) \/ ThrowOwning(s) \/ ThrowWaiting(s) \/ LeaveGate(s))

GateSpec     == GateInit /\ [][GateNext]_gateVars
GateFairSpec == GateSpec /\ GateFairness

-----------------------------------------------------------------------------
(* Senders that own the lock: writing, or handed the lock and not yet run. *)
Owners == {s \in Senders : pc[s] = "hold" \/ future[s] = "granted"}

(* One frame at a time is packed and written on the channel, whose cipher  *)
(* sequence number a second writer would break; a task that was handed the *)
(* lock counts as its owner before it runs.                                *)
MutualExclusion == \A s, t \in Owners : s = t

(* The lock is never marked held with no task left to release it, and     *)
(* never free while a task still waits: a cancellation between hand-off    *)
(* and resumption neither strands the lock nor the waiters behind it.      *)
NoLostHandOff ==
    /\ locked <=> Owners # {}
    /\ Pending(control) \/ Pending(bulk) => locked

(* A control receipt that waits is written or cancelled after finitely     *)
(* many frames, whatever bulk traffic does.                                *)
ControlServed ==
    \A s \in Senders \ Bulk : (future[s] = "pending") ~> (future[s] # "pending")
=============================================================================
