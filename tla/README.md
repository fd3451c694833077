# CodePier in TLA+

CodePier connects AI clients to the machines their users own.  A **Hub**
(`src/hub`, one asyncio process over one SQLite database) takes operations from
MCP clients and from its web panel and delivers each to an **Agent**
(`src/agent`, one asyncio process per machine with its own SQLite journal),
which runs it in a project directory.  The two talk over one WebSocket per
device, which the Agent opens.

This directory models the parts of both processes whose correctness depends on
the order of events: what is delivered, resent, acknowledged, cancelled and
forgotten while connections break and processes restart; who gets which claim,
slot, lease and database phase when; in which order frames leave; and what is on
disk when a rotation of keys, an upload or a send is interrupted.  TLC checks the
models on small instances, and TLAPS proves the most important invariants for
every value of the constants.

1. The system (inventory)  2. The modules and the code  3. The runs
4. Fairness  5. What is proved  6. What is only model-checked
7. Where the code and its documents disagree  8. Not modelled  9. Plan

To check a module: `tlc -config Store.cfg MCStoreWorker.tla`.
To check proofs: `tlapm LanesProofs.tla`.

## 1. The system

### Modelled parts

**Durable operation delivery** — `hub/runtime.py`, `hub/delivery_pipeline.py`
(packets), `agent/runner.py`, `agent/journal.py`, `agent/journal_retention.py`.
- State: the `operations` row at the Hub (state, attempts, accepted_at,
  cancel_requested, journal_id, result); the Agent's `calls` and `cancellations`
  tables and its journal identity; one connection with two FIFO directions.
- Operations: admit, cancel, revoke, expire; prepare and send a call, a probe, a
  cancel or a cancel_pending; receive accepted, started, status and result;
  handle, journal, execute, acknowledge, prune; recover on either side.
- Hard: frames are lost, repeated and late; either side dies between any two of
  its writes; an Agent returns with an empty journal under an old row;
  a revocation races with the start of the work; a receipt may answer a question
  older than the last one asked.
- Correct when: work with side effects runs at most once; a settled row stays as
  it is; the Agent forgets nothing the Hub has not stored; every verdict is a
  claim the execution justifies; everything is concluded once things calm down.

**Hub dispatch** — `hub/delivery_pipeline.py`, `delivery_loop` and
`deliver_device` of `hub/runtime.py`.
- State: due rows, one delivery task per device, a prefetch window of producers,
  one semaphore of preparation slots for all devices.
- Operations: look for due devices, query a device's rows, start a producer,
  acquire a slot, prepare, send the head, give slots back; cancellation; stop.
- Hard: a producer is cancelled at every await, also between the hand-over of a
  slot and its first step; preparations finish in any order; prefetch competes
  for slots with the head that must be sent first.
- Correct when: slots balance, packets of a device leave in order of
  admission, and every due row is tried.

**Agent send gate** — `agent/send_priority.py`.
- State: a lock flag and two queues of futures.  Operations: hold, release, and a
  cancellation at the await.
- Hard: between the resolution of a future and the next step of its task the lock
  belongs to a task that has not run and may be cancelled.
- Correct when: one owner, no stranded lock, no starved control frame.

**Agent resource queue** — `agent/resource_queue.py`.
- State: claims of owners and waiters with cached dependencies, a reverse index,
  who overtook whom, a timer.
- Operations: slot, try_reserve, release, cancel, reconfigure, timer.
- Hard: conflicts depend on mode, holder and stability of a claim; reads may pass
  waiters behind a root that has run for long, but only one generation of them;
  cached dependencies survive changes of mode and cancelled waiters.
- Correct when: owners never conflict, the index is what a fresh computation would
  give, order is kept where it matters, no waiter idles, overlaps are disclosed.

**Agent scheduler** — `agent/scheduler.py`, `shared/scheduler_config.py` and the
slots of `agent/runner.py`.
- State: waiting and active tickets in three lanes, turns of projects, the
  adaptive capacity limit, and a ResourceQueue of its own.
- Operations: slot (ticket with or without claims), conversion of a preflight,
  project_slot (claims only), end, release, cancellation, reconfiguration,
  memory pressure, close; a sampler that moves the limit.
- Hard: claims and capacity must be granted together; a conversion changes lane
  without the condition; limits shrink under active tickets; the limit must
  fall at once and come back slowly.
- Correct when: both budgets or none, nobody waits for what is free, no gridlock, the capacity limit leaves its range only to 0 and
  comes back.

**Hub database thread** — `hub/store_worker.py`, `hub/store.py` (`_run`,
`_settle`, `_read_phase`, `close`), `hub/db_worker.py`, `hub/store_contract.py`.
- State: two lanes of phases, a flag that a drain job exists, the burst counter,
  the callers that await, and the stages of close.
- Operations: submit, drain, settle, cancel a caller, read with audit, close.
- Hard: a phase is submitted while the drain job decides to end; control phases
  come in a stream; callers are cancelled while the phase runs; close in
  the midst of all of it; a read decides on a snapshot while what it depends on changes.
- Correct when: no phase is stranded, starved or detached from its caller, the
  connection is closed when nothing can use it any more, and a read returns only
  what is still granted when it has decided.

**Keyring** — `hub/keyring.py`.
- State: `master.key`, `master.keys.json`, the journal `rekey.json` and the staged
  ring of each rotation, the encrypted fields, the lock file, and the cipher that
  the running process loaded.
- Operations: the Hub starts, writes a field, deletes one, is killed; a rotation
  begins or resumes, makes its writes one after the other, is killed before any.
- Hard: several files and a database change one after the other; the Hub may run
  between an interrupted rotation and its resumption and writes with what it finds.
- Correct when: every field is readable with the files as they are, an interrupted
  rotation can be resumed, and a complete one has retired the old keys.

**Incoming uploads** — `agent/incoming_uploads.py`, `agent/incoming_artifacts.py`.
- State: the journal's row, the spool file with what of it is synced, the staging
  file, the destination.
- Operations: begin, status, chunk, finish, cleanup; each in steps between which it
  may fail or the Agent may die.
- Hard: an exception rolls back the journal and not the files; a power failure loses
  what was not synced; the user moves the published file away and the
  client tries again.
- Correct when: what was acknowledged is kept, an upload is published whole and
  once, and the files on disk stay within what was reserved.

**Dot outbox** — `shared/dot_outbox.py`.
- State: entries and the lane's lease in a database several processes share, the
  claim each process holds in memory, requests on their way, the Hub's receipt.
- Operations: enqueue, claim, look up the receipt, mark as sending, send, confirm,
  the two error paths, release, give up, purge.
- Hard: a process stalls past its lease between any two awaits and goes on beside its
  successor; the outcome of a send may be unknown.
- Correct when: committed means committed at the Hub, the budget of sends holds,
  and every entry settles.

**Collaboration work leases** — `hub/collaboration/coordination.py`, and the other
ways back into the queue in `delegation.py` and `room_runtime.py`.
- State: a goal with its approval and time, items with attempt, fencing token, lease
  and result, the operations admitted under an attempt, notices to assignees.
- Operations: approve, update, pause, cancel, resume, retry, create, assign, claim,
  heartbeat, execute, result, archive, reconcile.
- Hard: each request is one transaction, but they come in any order, from
  participants that hold old tokens, around operations that run on; nobody polls.
- Correct when: an effect belongs to the item's present attempt, success is true
  and stays so, and claimable work has been announced.

**Native CLI synchronisation** — `agent/native_sync_flow.py`, the loops of
`agent/native_cli.py`, the lane of `hub/native_cli.py`.
- State: offsets, packets in flight, backoffs and pauses at the Agent; the Hub's lane,
  its stored chunks and what it says of each session.
- Operations: look, send, note, acknowledge, expire, pause, probe, reconnect,
  restart; submit, coalesce, store, answer at the Hub.
- Hard: an answer may arrive between a decision and the note of it; an old Hub's
  answers carry no number; refusals outlast restarts.
- Correct when: no chunk is sent in a hot loop, and what the Hub takes gets stored.

### How they interact

A client's request becomes a row (database thread).  The dispatch prepares the due
rows of each connected device and sends packets in order over the device's socket.
The Agent journals a call, then waits for claims and capacity (scheduler over the
resource queue), executes, journals the result and sends it through the send
gate; the Hub stores it and acknowledges; the Agent may then forget it.  The
models meet where the code does: `OperationDelivery` has the dispatch as a bounded
FIFO of prepared packets and the scheduler as the waiting state of a handler;
`OrderedDelivery` has the row as due or not; the fairness that `OperationDelivery`
asks of the Agent's socket is what `SendLock` provides; `ProjectScheduler` uses the
same `ClaimQueue` operators as `ResourceQueue`; `ProjectScheduler` takes any limit
at any time, `AdaptiveCapacity` says which ones there are; an operation that
`WorkLeases` admits is one that `OperationDelivery` carries, and all it needs of it is
that it starts after a last check of the lease and ends once.  `KeyRotation`,
`IncomingUpload`, `DotOutbox` and `SyncFlow` share no state with the rest: their
packets and operations are the payload of what the others carry.

### Parts without a model

Each is listed in PROJECT.json with the reason.  In short: *candidates for a model*
— admission policy, event webhooks, mailbox and consumers, the updater and Agent
lifecycle (section 9).  *Left out* — rooms, channels and chat; the filesystem
tools; identity and authorization; the gateway; workflows; output and telemetry;
computer control; remote execution; installers and panel (section 8).

## 2. The modules and the code

| Module | Models | State → code | Actions → code |
|---|---|---|---|
| `OperationLedger` | what a caller is promised | phase, verdict, request to cancel, number of runs | Submit, Run, Ask, Conclude; abstract, no code of its own |
| `OperationDelivery` | one Hub, one Agent, their socket | `state … verdict` = the row; `prepared` = the dispatch window; `down`, `up` = the socket; `job`, `reader` = the handler's and the reader's position; `call … cancelled` = the journal | one action per handler: Admit/Cancel/Revoke/Expire (runtime), Prepare*/Send* (`_prepare_delivery`, pipeline), Receive* (the Agent socket's receive loop), Read* (Runner's dispatch), StartAccepted … Persist (`handle`), SendReceipt/SendOutbox, Stop/Crash/Recover/Restart/LoseJournal, Prune |
| `SendLock` | PrioritySendLock | `locked`, `control`, `bulk`, `future`; `pc` = each task's place | AcquireFast, AcquireQueue, Resume, Cancel, ThrowOwning, ThrowWaiting, LeaveGate |
| `ClaimQueue` | pure operators of ResourceQueue | a queue is one record: entries, active, claims, deps, dependents, bypass relations, timer | Conflicts, Enqueue, Preceding, BypassRoots, Blocked, Grant, Discard, IsPass (one drain pass as a set), Reindexed |
| `ResourceQueue` | the queue as a component | `queue`, plus a history of who waited behind whom | Slot, TryReserve, Finish, Cancel, Reconfigure, Age, TimerFires |
| `ProjectScheduler` | joint admission | `sched` (waiting, active, ticket, and `turn`: who was served no later than whom), `queue`, `limit`, `paused`, `closed`, `notify`, `pc` | Slot, Resume, Abandon, End, Release, Convert, Notified, Pressure, Reconfigure, Close, LocalSlot, LocalRelease, Age, TimerFires |
| `AdaptiveCapacity` | AdaptiveCapacity.update/configure | `config`, `limit`, `paused`, `healthy`, `since` (the cooldown), history | Tick, Update (Emergency, Reopen, Fixed, Unmetered, Shrink, Grow), Reconfigure |
| `StoreWorker` | the database thread and its callers | `normal`, `control`, `draining`, `burst`, `worker`, `pool`, `caller`, `store` | Submit, Read, ReadEnds, Audit, Begin, TakeControl, TakeNormal, GoIdle, Return, Settle, CancelCaller, Leave, CloseReads, CloseLanes, CloseDatabase |
| `OrderedDelivery` | the dispatch of all devices | `operation` (due or not), `found` (what the loop read), `pipe` (each device's task), `prod` (each producer), `slots` (semaphore) | Look, Query, Start, Enter, Acquire, FirstRun, Granted, Thrown, Prepare, HeadReady, Sent, SendFails, Postpone, Failed, Interrupted, CleanedUp, Stop, CancelLoop |
| `KeyRotation` | rotate_key and the CipherSuite of the Hub | `legacy`, `ring`, `journal`, `staged`, `rows` = the disk; `lock`, `cipher`, `pc`, `plan` = the process | HubStarts, HubWrites, HubDeletes, Killed, Rotate, Resume, RotationStep (StageRing, Record, PublishRing, Reencrypt, ReplaceLegacy, TrimRing) |
| `IncomingUpload` | IncomingUploads and AnchoredDestination | `row` = the journal; `spool`, `synced`, `copied`, `dest` = the files; `op` = the operation under the lock | Begin, Status, Chunk, Finish, Cleanup, then one action per write: Create, Open, Write, Sync, Acknowledge, …, Publish, Discard, Release; Fail, Crash, Ages, OthersWrite, OthersRemove |
| `DotOutbox` | DotOutbox | `entry`, `lane` = the database; `claim` = each process; `wire`, `remote` = the world | Enqueue, GiveUp, Claim, Found*, MarkSending, Send, Uncertain, Denied, FenceLost, End, Dies, Purge, Arrives, Lost, Taken, TimePasses |
| `WorkLeases` | Coordination, resume, retry | `goal`, `item`, `op`, `notice`, `standing` | one action per handler, and ReconcileLeases, ReconcileGoal, Start, Ends, Tick |
| `StoreReads` | _read_phase beside writers | `authority`, `version` = the database; `revision`, `writing`, `fenced` = the writer and its lock; `read` = each read thread | LockWriter, WriteRow, Commit, Rollback, CommitOutside; StartRead, EnterPass, NoteVersion, Decide, Raise, LookAgain, Accept, Retry, Refuse, WriteAudits |
| `SyncFlow` | both ends of the flow control | `offsets … saved` = the Agent; `up`, `acks` = under way; `hub`, `stored`, `echo` = the Hub | Look, Send, Sent, OnAck, Store, StoreFails, Reconnect, Restart, ChangesMind, Tick, SlowTick |

`MC*` modules give the constants values; `MCLiveness` and `MCSafety` hold several
components (section 3), and `SyncFlow` is checked as it is; `*Proofs` modules hold the
theorems (section 5).  Definitions marked `mutant of …` change one
definition the way a plausible bug would; each property that a run checks fails
under at least one of them.

Both processes are asyncio programs.  A stretch without `await` is one action; a
new action begins where another task, a thread or the other process can get in.
The abstractions, module by module:

- **OperationDelivery.** `Execute` follows the branch of `handle` for project tools,
  the one that asks for a cancellation a second time after `mark_running`.
  A result is a verdict class, not a payload.  A row that is asked for again is
  asked at any time (`next_attempt` is not kept), so every timing of probes is
  covered.  Registration and the ready frame are one step (`Connect`).  A call is
  "late" by the Agent's clock when it finds it so.  An instance has one operation:
  operations meet only in the capacity of the channel and the window.  The fence of
  `_handle_agent` on incoming receipts of another journal is modelled.
- **ClaimQueue, ResourceQueue, ProjectScheduler.** A claim is kind, name, write,
  holder and stability; namespaces are folded into the name.  Time is the one fact
  "this root has run for long" (`Age`) and an armed timer.  One drain pass is
  characterised as a set of grants.  The scheduler's capacity limit is any allowed one
  (`Pressure`).  `fail_fast`, deadlines and cancellations are `Abandon`; the tasks that
  notify the condition are one flag.  Read and remote limits stay fixed.  The check of
  `try_reserve` for an operation that already has an entry is left out.
- **AdaptiveCapacity.** A sample is the class it falls in (critical, high, middling,
  healthy, unmetered), whether it is safe, and the ceiling its free memory
  allows; the counter of good samples is capped at the three the code asks for.
- **StoreWorker.** `_lock` makes a submission, and a choice of the drain job, one
  step.  The pool of one thread is external.  The code shields the futures it awaits,
  so none is cancelled.
- **OrderedDelivery.** A row is due or it is not; preparation may find anything
  (a packet, nothing to send, an error).  The semaphore is external: asyncio's, with
  its hand-over to a waiter that has not run yet (`Woken`: who sleeps with fewer than
  n sleepers in front).
- **KeyRotation.** A key is a name and a field is the key and the format it was
  written with.  Each write of a file is atomic, as `atomic_private` makes it; the
  re-encryption is one transaction.  A rotation has the name of the key it
  generates.
- **IncomingUpload.** A file is a sequence of pieces, right or wrong; hashes compare
  them.  The spool keeps, after a power failure, what was synced and any part of the
  rest.  A revoked permission is one of the failures of a step.  Publication is
  atomic; the fallback that creates the destination exclusively and copies
  into it is left out, and so are staging files that are still empty.  The
  maintenance looks at one row at a time.
- **DotOutbox.** One lane.  Deadlines are the ticks that are left.  A lookup may
  answer that it does not know.  Quotas and encryption are left out.
- **WorkLeases.** One goal.  A fence is compared only with the fence of the last
  claim, so an item keeps how far it has moved since: 0, 1 or more.  What the approval
  takes of capabilities and memberships is one fact, `standing`, which may change at any
  time: all have it, the owner and some of the participants do, or the owner does not.
  In the second case the participants who lack it make no request and the others go on,
  until `reconcile`, which looks at every participant, pauses the goal; which of them
  act is the choice of the requests that are made.  Reminders of items that are still queued send a second notice, and are
  left out, since a first one is what is asked for.  The resumption of a goal of the
  native work bridge sends a message in place of requeueing, and is left out.
- **StoreReads.** What a decision depends on is one number, `authority`, that every
  committed security change moves.  A pass is cut at each point where a commit may
  come between; its statements see one snapshot.  A call that raises ends the
  read without a second look, as in the code.  Transactions of this process exclude
  each other by `_writer_lock`, those of other processes by SQLite.
- **SyncFlow.** A transcript is a number of chunks; a packet carries one for each
  session that has one due.  Sequence numbers are fresh among those in use, which
  the source's counter is.  Answers of a Hub that does not echo are matched
  with the oldest packet, as in `on_ack`.  Packets that wait are chosen by position
  (`Kept`, `Answered`), which `expire` and `on_ack` share.  A Hub that does not
  echo does not name what it refuses either: it gives no offset for it.

## 3. The runs

Bounds are constants of the model; the guard that applies one says so.  The sizes
are distinct states.

| Run | Instance | Properties and what they show |
|---|---|---|
| `delivery` (1.26 M) | one revocable, expirable process operation; 2 connections, 2 journals, 1 frame down, 2 up, 2 copies of a result | `AckedIsStored`, `VerdictFromJournal`, `ImplementsLedger` (runs at most once, a verdict is final and justified by what happened, nothing is killed unasked) |
| `delivery_replay` (137 k) | one replayable read, 3 connections, 1 journal | `ExecutionBound` (at most MaxInterruptedReads), `Concludes`, `OutboxDrains` |
| `delivery_unstarted` | one operation with neither deadline nor revocation, 2 connections | violated: `UnstartedMeansNotRun` (section 7) |
| `claims` (97 k) | 4 operations; run and stable look at the tree, read and write of a path, a service; one change of mode | `ExclusiveOwners`, `IndexIsExact`, `OverlapDisclosed`, `NoIdleWaiter`, `OrderKept`, `OneGeneration` |
| `sched` (383 k) | 3 operations, 3 lanes, 2 projects, both modes, limits 1 and 2 or paused, close | `JointOwnership`, `NobodyForgotten` |
| `sched_gridlock` (22 k) | a preflight that is converted, a run, a claim of the whole tree, limit 1 | `NoGridlock` |
| `sched_turns` | one slot, 3 projects | violated: `ProjectsRotate` (section 7) |
| `store` (56 k) | 2 normal, 2 control, 1 read, burst 2 | `NobodyDetached`, `ClosedIsDrained`, `EverythingSettles` |
| `flow` (167 k) | 2 sessions of one chunk, window 2, timeouts of a tick, 1 fault | `NoHotLoop`, `EverySynced` |
| `liveness` (49 k) | send gate: 2 control and 2 bulk senders; capacity: an adaptive range and a fixed limit, 8 classes of samples, cooldown of 2 ticks; outbox: 1 entry, 2 hosts, budget 2, lease 1 tick, retention 3; dispatch: 1 device, 3 rows, 1 slot, window 2 | gate: `NoLostHandOff`, `ControlServed`; capacity: `SlowReturn`, `Reopens`; outbox: `WithinBudget`, `CommittedIsTrue`, `EverySettles`; dispatch: `EveryRowTried` |
| `safety` (267 k) | keys: 3 keys, 2 fields; reads: 2 readers, 2 passes, 1 commit and 1 security write; uploads: 2 of 2 pieces, 1 path, room for 1; dispatch: 2 devices, rows 1, 3 and 2, 2 slots, window 2 | keys: `Readable`, `Resumable`, `Retired`; reads: `ReadsAreSound` (a value is current, a refusal is due to another process); uploads: `AcknowledgedKept`, `PublishedOnce`, `SpaceReserved`; dispatch: `LeasesBalance`, `SentInOrder` |
| `work` (1.81 M) | 2 items, 2 operations, 2 attempts, leases of a tick; symmetric in items and in operations | `EffectsOnce`, `SuccessIsTrue`, `NoSilentWork` |

`liveness` and `safety` hold several components that share no state.  Their variable
`scope` chooses one for the whole behaviour, and the others stand still in an initial
state, so the states explored are the sum of the components' states, not the product,
and what is found is what a run of each alone would find.

Why the bounds suffice for the cases that matter:

- *Delivery.* Operations meet only in the capacity of channel and window, so one is
  enough.  Two connections are one reconnect, with frames of the first in flight
  while the second works; two journals are one loss; two frames up let a stale
  receipt wait behind another one; two copies let a result and its
  acknowledgement cross.  One frame down loses nothing: the frames are read in
  order, and `delivery_unstarted` uses two where a call must be behind a probe.
  The replay run has a third connection, since a read may be interrupted twice.
- *Claims.* Four tokens are a long-running root, a waiter behind it, a reader that
  overtakes and a second one that must not; the conflict matrix is reached in all
  its rows by the five requests, in both modes.  Claims of the same shape are
  interchangeable, hence the symmetry over operations.  A pass in which
  granting one after the other differs from granting all at once would need five entries.
- *Scheduler.* Three tickets fill a lane, wait, and hold what the waiter needs.
  The project `a` has a cap of its own; limit 2 is the smallest at which the slot
  reserved for other projects exists; two projects share a remote target.
- *Store.* Two phases in each lane and a burst of two make a normal phase wait for a
  full burst; the audit of the read arrives while close waits for it.
- *Dispatch.* With as many slots as one device may take, the other device waits;
  with one slot, prefetch and head compete for it.
- *Keys.* Three keys are the one in use, one that an interrupted rotation generates
  and one of the rotation after it; two fields may be under different keys.
- *Reads.* Two readers contend for the fence, and the audit of one disturbs the other;
  of two passes the second is the last; a rolled-back security write disturbs the first
  pass and a commit from outside the second.
- *Uploads.* Two pieces make a partial upload, a repeated piece and a next one.  The
  second upload competes for the space that an interrupted one holds; with one path
  the second also meets what the first published.
- *Outbox.* Two hosts are the one whose lease expired and its successor.  A budget of
  two sends is the smallest with a stale send after a fresh one; the retention is long
  enough for both.  Entries of a lane meet only in its lease, and the theorems hold
  for any number of them.
- *Work.* Two items are one and the one that depends on it, or a kickoff and an item;
  two operations are a failed exploration and the one that makes it good, or an
  operation of an expired attempt and another; two attempts are one return to the
  queue and the last.
- *Flow.* Two sessions in one packet meet different fates; window and lane are as
  wide as they need to be for a packet to wait behind another one; one fault is one lost
  answer, one reconnect, one restart or one change of the Hub's mind.  `Packets`
  and `Answers` bound what is under way.

Deadlock is checked except where the system may stop: a stopped Hub and a closed
store do nothing more, the connections of `OperationDelivery` run out, in
`sched_turns` the scheduler may be closed, a rotation may have used up the keys, and
outbox and transcripts may be done.

## 4. Fairness

- **SendLock.** A task whose future is resolved or which was cancelled runs again,
  and the owner leaves the lock (a send ends, or fails with the socket).
- **OperationDelivery.** The worker looks at every active row again, both readers
  read, a dead socket is noticed on both sides, the Agent reconnects and the Hub
  restarts: weak fairness.  Sending receipts, sending the outbox and going on with
  a handler are strongly fair: they share the socket with other frames and are
  disabled while it is full, and the gate serves its waiters in order (`SendLock`).
  A started operation is assumed to return; the tools have time limits.
  `EventuallyCalm` is an assumption on the environment: from some moment on no
  connection breaks, nobody crashes, and permissions stay.  The guard `MayFail` lets a
  failure happen only while a connection is left to recover with.
- **ProjectScheduler.** The loop runs what is ready: resumed coroutines, ending
  bodies, releases, the timer, the task that notifies.  Nobody is made to arrive; and
  `NoGridlock` asks only about behaviours in which arrivals end, as `OneGeneration`
  and `NoIdleWaiter` (safety) cover the overtaken waiter.
- **AdaptiveCapacity.** Time passes and the sampler samples; from some moment on the
  samples are safe and the configuration stays.
- **StoreWorker.** The thread runs and a caller whose phase ended is resumed.  Bodies
  and reads are callers' business; nothing makes new phases arrive.
- **DotOutbox.** Time passes; a process that delivers goes on, if only by the timeout
  of its request; and the host asks again for every entry that is not settled, as the
  callers of `deliver` do.  That a process goes on does not make it live: it may
  die at any step.
- **SyncFlow.** The loop turns, the Hub works off its lane, the reader reads, and time
  passes: weak fairness.  The Hub is partially synchronous: `Tick` waits until nothing
  is under way, and a tick that passes earlier (`SlowTick`) is one of the faults,
  which are finitely many.  A Hub that is for ever slower than the Agent's timeouts
  would need more (section 7).
- **KeyRotation, IncomingUpload, WorkLeases.** Safety only: what goes on depends on an
  operator, a client or a participant who comes back.
- **StoreReads.** Safety only: a read ends after its passes, whatever they find; that its
  audit ends is `EverythingSettles` of `StoreWorker`.
- **OrderedDelivery.** The loop polls; each database phase and each send ends, well
  or badly.  No fairness makes a row due.

## 5. What is proved

All proofs are for arbitrary constants under the named assumptions, each of which
TLC evaluates on an instance.  Every safety property that a passing run checks is a
theorem.  A proof module EXTENDS the modules it is about; three of them
(`RationingProofs`, `StorageProofs`, `LanesProofs`) are about several components that
share no state, one part after the other.

**OperationDeliveryProofs** (`OpsAssumption`, `BoundsAssumption`).

- `TypeCorrect`.  `Typed` adds to `TypeOK` what handler positions say of the journal
  (`JobMatchesCall`, `FinishedHasResult`, `CrashRoom`).
- `SettledForever`: a settled row keeps its state and its verdict, in every step.
- `BoundedExecution`: once, or `MaxInterruptedReads` times for a read.  The argument
  is the inductive `Core`.  `RunsAreCounted`: an operation that was never sent has not
  run, and one that may still begin in the current journal began at most as often as
  that journal has counted interruptions of it.  `CallsAreCurrent`: whatever may start
  an operation or has started it (a task, a record, a call in flight or prepared for
  the live connection) belongs to a row that was sent to the journal the Agent has
  now.  `JournalOrder`: an intact connection leads to that journal.  So neither a
  second copy nor a new journal runs it again.
- `NothingForgotten`: an acknowledged result is stored.  `Concluded` and
  `AcksFollowRows`: a settled row has a verdict, an acknowledgement is in flight
  only for a row that has one, and verdicts do not go away.

The second part of the module, on top of `Core`:

- `VerdictIsTheJournals`: what the row says happened is what the journal recorded.
  The invariant is `Reported`.  An outcome is a claim when it is recorded (`AgentClaims`),
  and the places it then passes never disagree about it (`ReceiptsAreClaims`,
  `JournalVoice`): the journal, the task that answers a probe, the connection.  A
  cancellation under way was asked for (`CancelsAsked`).
- `TombstonesStayHome`: retention replaces an acknowledged result by a tombstone, and no
  frame is ever made from one.  The acknowledgement is the last frame of its
  connection about that operation (`AckLast`), so nobody asks again (`AckedQuiet`).
- `LedgerImplemented`: delivery implements `OperationLedger`, with the mapping of the
  module `OperationDelivery`.  The initial states map to the initial state; one lemma for
  each group of handlers shows that its step is a Submit, a Run, an Ask or a
  Conclude of one operation, or changes nothing the caller sees.

**ClaimQueueProofs**: lemmas about the claim queue, whoever drains it.  The operators of
`ClaimQueue` are total functions on one record.  The first part says field by field what
each computes.  The second shows that each keeps `Sound`, the invariant of a queue by
itself: of two entries one arrived in front of the other, the index is the fresh
comparison, owners do not conflict, a gate names owners in front of its waiter.  A pass
keeps it because a waiter is granted only when it is free of the owners and of the members
of the pass in front of it; a change of mode because the relaxed matrix is contained in
the strict one.  The two modules that follow rest on it.

**ResourceQueueProofs** (`RequestsAssumption`), the queue by itself.  It is related to its
past (`History`: a gate is within the owners remembered at the first overtake) and to the
timer (`TimerComes`).

- `OwnersAreExclusive`, `IndexHolds`, `ReadersAreTold`, `QueueTypeCorrect`.
- `NobodyIsIdle`.  Owners only stand in the way, so who is blocked at its turn of a pass
  is blocked after it; what remains is time, and `TimerComes` says that the timer is armed
  while an owner may still become long.
- `OvertakingIsOrderly`, `GenerationsHold`: action properties, from the same invariant
  and what one pass may grant.

`Roots` (`_active_roots`) is a walk along the dependencies.  It is defined as the
owners in every set that is closed under them (`Reached`), which is what the walk
computes and what a proof can use.  `Recovered` of `WorkLeases` is defined the same way.

**ProjectSchedulerProofs** (`SchedulerAssumption`), for any tickets, limits and modes:
`SchedulerTypeCorrect`, `SlotsComeWithClaims`, `NobodyIsForgotten`.  The invariant `Fit`
says that the queue is `Sound` and that of every ticket the scheduler, the queue and its
coroutine tell the same (`Placed`); in particular what is idle or in `project_slot` has no
ticket, which is what makes an arrival safe.  Each handler is shown in two halves: what it
hands to the drain is `Fit` (`Competes` for slot and conversion, `Leaves` for a release),
and the drain keeps `Fit`, arms the timer and leaves nobody who could go (`Settled`).
`GrantTickets` is a recursive function; that it exists and what holds after each of its
rounds are shown by a least counterexample (`RoundsExist`, `TicketsGranted`).  When nobody
is selected nobody is eligible, since of finitely many waiters one precedes all others
(`SomeoneFirst`, which needs the turns to be a set of pairs with a finite rank: that is
how the model keeps them).  Between a conversion and its task the queue may lack
its timer, so `Armed` is part of the invariant only while no task is pending.

**RationingProofs.**  *Send gate* (any set of senders): `GateTypeCorrect`, `SendLockMutex`,
`SendLockNoLostHandOff`.  Neither property is inductive: whether a hand-off strands
depends on who is in which queue.  `GateInv` adds `Tasks` (a task's place and the state
of its future agree), `OneOwner` (the gate is locked exactly while somebody owns it,
and at most one does), and `PendingLocked` (somebody waits only while the gate is
locked).  *Capacity* (`ConfigAssumption`, `SampleAssumption`): `CapacityInRange`; the
order of `min` and `max` never lets the limit leave the range.  `CapacityTypeCorrect`,
`CapacityReturnsSlowly`: what the code remembers of the past, a counter and a time stamp,
never claims more than what happened (`Pace`: `healthy` counts at most the good samples
at the end of the history, `since` lies within the calm), and a sample that is not
healthy or a change of configuration starts both over.  *Outbox*
(`OutboxAssumption`: finitely many hosts): `SendsAreBounded`, `CommittedIsKept`, for any
number of hosts and entries and any lease, backoff and retention.  A process whose lease
has expired goes on with what it knew.  `OutboxInv` says what keeps it from harm: only
the latest claim of an entry owns it, and it has ended once the entry is committed
(`Confirmed`); what the holder of the lane read when it claimed is still so
(`Leaseholder`, `Marking`); and a send that is marked counts as spent before it is made,
since its process may make it at any later time (`Budgeted`).  *Dispatch*
(`DispatchAssumption`: finitely many operations): `DispatchTypeCorrect`,
`LeasesAreBalanced`, `SendsInOrder`, for any devices, slots and window.  The balance
alone is not inductive: whether a slot is given back depends on where the pipeline
believes its head to be.  `DispatchInv` adds that each producer belongs to the pipeline of
its device and is at the place that pipeline acts on (`Answered`), that a pipeline is one
line in the order of creation (`Pipelines`: what it sends, what it has started, what is
to come), that a semaphore holds who waits and nobody twice (`SlotsKept`), and that the
loop starts a pipeline only where none lives (`Looked`).  The lemmas about the
semaphore say for each of its operations how many slots are free or handed over
afterwards (`Value`), and one about `ORDER BY` that a finite set has an ascending
sequence (`AllOrdered`, by a least counterexample).

**LanesProofs.**  *Database thread* (`PhasesAssumption`): `TypeCorrect`,
`AcceptedIsServed`, `DrainsDoNotPileUp`, `NormalNotStarved`, `CloseDrains`.  `IInv` adds
`Drains` (a drain job exists exactly while the flag says so, and does while a lane holds
something), `Counts` (the history is bounded by the burst counter) and `Closing` (what
each stage of close has already emptied).  `CallersStay`, with `Placed`: a phase is in one
place at most (lanes hold none twice and share none with each other or the thread), and
its caller waits exactly while it is in one.

*Transcripts* (`FlowAssumption`), for any number of sessions, chunks, packets and faults,
any window, timeout, backoff and pause, and Hubs that echo sequence numbers or do not:
`FlowTypeCorrect`, `NoHotLoopHolds`, `WindowIsKept`, `NothingIsInvented`, `FrontIsOldest`.
`NoHotLoop` counts sends on one connection, since a new one forgets the offsets and the
window; the code counts none.  Their number is bounded because every send is
answered for: a chunk was sent at most as often as packets with it still wait, or its
session is *spent*, and then it rests under a backoff or a pause (`Resting`).  A chunk is
cut only for a session that is not spent, while fewer than `WINDOW` packets wait.  What
must be shown is that rest is never ended before its time.  A packet that is given up or
answered without progress starts a rest, also when the same answer counts an older packet
as progress, because the older one comes first (`AnsweredRests`, `InOrder`).  A later
answer that is meant for an older packet would count as progress for a chunk that
was stored before; `NothingOld` says that no such answer is under way for a spent
session.  It follows from the order in which packets are sent, wait, are merged, stored
and answered (`Before`: positions on the way from the Hub's answers back to the
Agent's packets).  An old Hub's answer goes to the packet in front, which is that order
by itself.  That a spent session becomes fresh only by progress needs `Frontier` (nothing
beyond the next chunk was ever sent) and `Trail` (the Agent's offsets, each
answer's in turn, and what is stored follow each other), which also gives
`NothingIsInvented`.  `FrontIsOldest` is what lets `expire` look at the front of the
queue alone; the model gives up whoever is late.  `Kept`, `Answered` and `PauseTicks` are
recursive functions; that they exist, and what they return, is shown by a least
counterexample (`UpTo`, `IteratesExist`).

**StorageProofs.**  *Keyring* (`NoneAssumption`): `NothingLost`, `AlwaysResumable`,
`OldKeysRetired`, for any keys and fields.  `Readable` is not inductive, since
publishing replaces the ring on disk by the plan.  `RingInv` adds `HubIsCurrent` (a Hub
that runs has the keys that are on disk), `Journalled` (the staged ring that the
journal names covers every field; a kill forgets the plan, so a resume depends on
it) and `Progress` (what each place of the rotation has already reached).  `Covers` is
the notion the argument turns on: a ring may replace the one on disk when it reads
every field and holds the key that the Hub writes with.  *Reads* (`PassesAssumption`):
`ReadsTypeCorrect`, `ReadsSound`, for any number of readers, passes and commits.
`ReadsAreSound` speaks of finished reads only.  `ReadsInv` adds what holds on the way:
`Snapshots` (a snapshot is what is committed as long as the version noted before it
stands), `Exclusive` (`_writer_lock` has one holder), `LastPass` (while its fence holds,
the revision stands, and the version too unless another process commits) and
`Unsettled`.  *Uploads* (`UploadsAssumption`: finitely many uploads), for any sizes and
capacity: `AcknowledgedPiecesLast`, `PublicationHappensOnce`, `SpaceIsReserved`.
`Journal` says what the row of an upload means for its files, whatever is under way: it is
what an interruption leaves behind, so it holds at every step and not only at the end of
an operation; `UnderWay` says what the operation relies on at each of its steps.
`Covered` is the reservation.  `SpaceReserved` is a sum over a finite set, which
`MapThenSumSet` makes by a recursive function; that this function exists, and its bound,
are proved by a least counterexample (`SumsExist`, `SumBounded`), which needs the
well-foundedness of the naturals and no induction theorem with an operator.

**WorkLeasesProofs** (`LeasesAssumption`), for any items, operations, attempts and leases.

- `EffectsHappenOnce`.  `EffectsOnce` is not inductive: a claim starts a new attempt of
  whatever is queued, so what must be known is that an item with an operation is never
  queued again (`Once`), along each of the four ways back (expiry, resume, retry,
  approval).
- `ReportsAreTrue`, `SuccessIsFinal`: the evidence of a success cannot change, since
  operations that have ended stay as they are, none is added to an item that
  succeeded, and what it was built on exists (`Grounded`) and has succeeded for good.
- `NoWorkIsSilent`, with `Quiet`: nothing is queued while the goal is not active, so a
  resumed or newly approved goal finds nothing that it has not announced itself.

What each handler does to an item and to an operation is `Lawful`; lawful steps keep
the first two groups, and each handler keeps `Quiet` and `Told` by itself.

## 6. What is only model-checked

- Liveness: `ControlServed`, `Concludes`, `OutboxDrains`, `NoGridlock`, `Reopens`,
  `EverythingSettles`, `EveryRowTried`, `EverySettles`, `EverySynced`.  The installed
  provers do not reason about fairness and ENABLED.
- Where a module has a type invariant that no theorem states, it is there for the
  reader, and holds on the instance of the module's run.

The other way round, `MutualExclusion`, `SettledStays`, `LimitInRange`, `BurstBounded`,
`NoStranded` (which `EverythingSettles` implies on the instance of its run),
`NeverForgotten`, the finality of a success, `WindowKept`, `NothingInvented`,
`DeadlinesInOrder` and the type invariants with a theorem belong to no run: they hold for
every value of the constants.

## 7. Where the code and its documents disagree

**`delivery_unstarted`, `hub/runtime.py:1678`.**  The Hub takes a `missing` or
`retryable` status as the answer to its latest probe and resets `attempts` and
`accepted_at`.  Two probes can be in flight, because registering an Agent and
cancelling both make a row due at once.  The first answer requeues the operation, the
call is sent, the second answer resets the row again, and a cancellation now reports
"操作尚未投递，已取消" for an operation the Agent executes.  docs/ARCHITECTURE.md:63
forbids that translation, and the comment at runtime.py:1670 claims that it cannot
happen.  Execution itself stays bounded (`ExecutionBound` holds in the same model);
the row's verdict is what is wrong.

**`sched_turns`, `agent/scheduler.py:326`.**  `_release_owned` forgets a project's
turn with its last ticket, so a project that comes back counts as one that was never
served and precedes one that waits since its own turn.  Two projects that alternate
one-off operations in a lane with one free slot starve a third, while
`shared/scheduler_config.py:12` calls the wait "等待项目公平轮转".

*Observations without a run of their own.*

- A second cancellation in the final `gather` of `ordered_delivery`
  (`delivery_pipeline.py:59`) skips the return of prepared leases, against the comment
  at line 54.  Only a stopping Hub cancels the pipelines twice; `LeasesBalance`
  counts such leases in `dropped` and shows that this is the only way to lose one, and
  the semaphore is gone with the process.
- The Hub's full lane merges a new packet into the newest that waits and keeps the
  new one's chunks only (`_coalesce`, `hub/native_cli.py:36`), also when the new one
  carries metadata and no chunk.  The chunk that is dropped is acknowledged without
  progress and sent again after its backoff; with a lane that is for ever slower
  than the Agent's timeouts this can go on, which is why `EverySynced` counts a slow
  tick as a fault.
- A goal that was cancelled can be paused and then resumed
  (`coordination.py:380`, `room_runtime.py:717-719`), although `approve` refuses a
  cancelled goal (`coordination.py:313-314`).  No property of `WorkLeases` depends
  on it.
- `resume` also requeues items of an older approval that a pause had stopped; they
  can never be claimed.

## 8. Not modelled

In the modelled parts: output and trace frames, native and artifact frames, retention
of rows at the Hub and the branches of `handle` that are not project tools; the
128-row window, the purge of computer results and the per-device dispatch lock; how
the Agent measures memory and load and persists its configuration; the SQL, the
savepoints and callbacks of transactions; in collaboration, budgets of
messages, progress texts, teams and the presentation of goals; in the
synchronisation of transcripts, revisions of a session's metadata under a pause
(`observe_rows`), the eviction of records beyond `MAX_INFLIGHT_ENTRIES`, cleared and
deleted sessions, the deferral of stale metadata and the packet's budget of bytes; in
uploads, the Hub's side, outgoing artifacts and publication without an atomic rename.

The map covers a small share of the repository.  Most of its code is validation,
presentation, SQL over single rows, adapters to external services and packaging, in
which there is no order of events to get wrong; the modules go where there is.

Other parts: rooms, channels and chat are record keeping inside single transactions
plus adapters to external services.  The filesystem tools are sequential file I/O
under claims the queue has granted.  Identity and authorization decide over rows;
the models let a permission change at any moment.  The gateway has no state of its
own, workflows are views over operations, output and telemetry are best effort,
computer control and remote execution are process and network I/O (in the protocol
they are the executing state), installers and panel are packaging and interface.

## 9. Plan

Done, in this order: A `OperationLedger` and `OperationDelivery`; B `SendLock`;
C `ClaimQueue`, `ResourceQueue`, `ProjectScheduler`, `AdaptiveCapacity`; D
`OrderedDelivery`; E `StoreWorker`; F `KeyRotation`, `IncomingUpload`, `DotOutbox`,
`WorkLeases`, `SyncFlow`, `StoreReads`; and the proofs of section 5.

Next models, most important first, with the hazard each is for:

1. `AdmissionWindow`: the Hub's second hysteresis over reports that may be replayed
   (`admission_policy.py:119`).
2. `EventDelivery`: receipts of an older generation, fairness between owners
   (`events.py:865`).
3. `LifecycleHandoff`: a plan claimed before its helper is launched
   (`lifecycle.py:481`); the promotion of the update engine
   (`panel_update_engine.py:234`).

No safety property that a run checks is left to prove.  Each next model comes with its
own theorems; the liveness properties of section 6 wait for provers that know fairness.
