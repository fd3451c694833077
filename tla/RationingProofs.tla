------------------------ MODULE RationingProofs ------------------------
(***************************************************************************)
(* Four components that ration something: who sends next on the Agent's    *)
(* socket (SendLock), how much the Agent runs at once (AdaptiveCapacity),  *)
(* how often the outbox sends an entry (DotOutbox), and the slots of the   *)
(* Hub's dispatch (OrderedDelivery).  They share no state, and each part   *)
(* stands by itself.                                                       *)
(***************************************************************************)
EXTENDS SendLock, AdaptiveCapacity, DotOutbox, OrderedDelivery,
        SequenceTheorems, FiniteSetTheorems, TLAPS

----------------------------------------------------------------------------
(***************************************************************************)
(* Mutual exclusion and hand-off safety of the Agent's send gate, for any  *)
(* set of senders.                                                         *)
(***************************************************************************)

(* What a task that is in some state knows about its own future.           *)
Tasks ==
    \A s \in Senders :
        /\ pc[s] \in {"idle", "hold"} => future[s] = "none"
        /\ pc[s] = "await" => future[s] \in {"pending", "granted"}
        /\ pc[s] = "throw" => future[s] \in {"granted", "cancelled"}

(* The lock is held exactly while it has an owner, and it has at most one. *)
OneOwner ==
    /\ \A s, t \in Owners : s = t
    /\ locked <=> Owners # {}

(* The lock is never free while a queued task still waits for it.          *)
PendingLocked == Pending(control) \/ Pending(bulk) => locked

GateInv ==
    /\ GateTypeOK
    /\ Tasks
    /\ OneOwner
    /\ PendingLocked

(* Sequence facts used by every action that moves a queue.                 *)
LEMMA AfterType ==
    ASSUME NEW S, NEW queue \in Seq(S), NEW i \in DOMAIN queue
    PROVE  After(queue, i) \in Seq(S)
  BY SubSeqProperties DEF After

LEMMA WithoutType ==
    ASSUME NEW S, NEW queue \in Seq(S), NEW s
    PROVE  Without(queue, s) \in Seq(S)
<1>1. CASE \E i \in DOMAIN queue : queue[i] = s
  <2> DEFINE k == CHOOSE i \in DOMAIN queue : queue[i] = s
  <2>1. k \in DOMAIN queue
    BY <1>1
  <2> HIDE DEF k
  <2>2. SubSeq(queue, 1, k - 1) \in Seq(S) /\ SubSeq(queue, k + 1, Len(queue)) \in Seq(S)
    BY <2>1, SubSeqProperties, LenProperties
  <2>3. SubSeq(queue, 1, k - 1) \o SubSeq(queue, k + 1, Len(queue)) \in Seq(S)
    BY <2>2, ConcatProperties
  <2> QED BY <1>1, <2>3 DEF Without, RemoveAt, k
<1>2. CASE ~\E i \in DOMAIN queue : queue[i] = s
  BY <1>2 DEF Without
<1> QED BY <1>1, <1>2

(* Removing a waiter from a queue adds none.                               *)
LEMMA WithoutElements ==
    ASSUME NEW S, NEW queue \in Seq(S), NEW s, NEW i \in DOMAIN Without(queue, s)
    PROVE  \E j \in DOMAIN queue : Without(queue, s)[i] = queue[j]
<1>1. CASE \E j \in DOMAIN queue : queue[j] = s
  <2> DEFINE k == CHOOSE j \in DOMAIN queue : queue[j] = s
  <2>1. k \in DOMAIN queue
    BY <1>1
  <2>2. Without(queue, s) = SubSeq(queue, 1, k - 1) \o SubSeq(queue, k + 1, Len(queue))
    BY <1>1 DEF Without, RemoveAt
  <2> HIDE DEF k
  <2>3. k \in 1 .. Len(queue) /\ Len(queue) \in Nat
    BY <2>1, LenProperties
  <2> DEFINE left == SubSeq(queue, 1, k - 1)
             right == SubSeq(queue, k + 1, Len(queue))
  <2>4. /\ left \in Seq(S) /\ Len(left) = k - 1
        /\ \A j \in 1 .. k - 1 : left[j] = queue[j]
    BY <2>3, SubSeqProperties
  <2>5. /\ right \in Seq(S) /\ Len(right) = Len(queue) - k
        /\ \A j \in 1 .. Len(queue) - k : right[j] = queue[k + j]
    BY <2>3, SubSeqProperties
  <2> HIDE DEF left, right
  <2>6. /\ Len(left \o right) = Len(left) + Len(right)
        /\ DOMAIN (left \o right) = 1 .. Len(left \o right)
        /\ \A j \in 1 .. Len(left) + Len(right) :
              (left \o right)[j] = IF j <= Len(left) THEN left[j] ELSE right[j - Len(left)]
    BY <2>4, <2>5, ConcatProperties, LenProperties
  <2>9. i \in DOMAIN (left \o right)
    BY <2>2 DEF left, right
  <2>10. /\ i \in 1 .. Len(queue) - 1
         /\ (left \o right)[i] = IF i <= k - 1 THEN left[i] ELSE right[i - (k - 1)]
    BY <2>3, <2>4, <2>5, <2>6, <2>9
  <2>7. CASE i <= k - 1
    BY <2>2, <2>3, <2>4, <2>10, <2>7, LenProperties DEF left, right
  <2>8. CASE ~(i <= k - 1)
    <3>1. i - (k - 1) \in 1 .. Len(queue) - k /\ i + 1 \in DOMAIN queue
      BY <2>3, <2>10, <2>8, LenProperties
    <3>2. right[i - (k - 1)] = queue[k + (i - (k - 1))]
      BY <2>5, <3>1
    <3>3. k + (i - (k - 1)) = i + 1
      BY <2>3, <2>10
    <3> QED BY <2>2, <2>10, <2>8, <3>1, <3>2, <3>3 DEF left, right
  <2> QED BY <2>7, <2>8
<1>2. CASE ~\E j \in DOMAIN queue : queue[j] = s
  BY <1>2 DEF Without
<1> QED BY <1>1, <1>2

(* release() by a task t that owns the lock and is leaving it: the lock     *)
(* passes to exactly one waiter, or is freed with no owner left.            *)
LEMMA ReleasePasses ==
    ASSUME GateTypeOK, NEW t \in Senders, Owners = {t},
           NEW futures \in [Senders -> FutureStates],
           futures = [future EXCEPT ![t] = "none"],
           locked,
           Release(futures)
    PROVE  /\ control' \in Seq(Senders \ Bulk)
           /\ bulk' \in Seq(Senders \cap Bulk)
           /\ \/ \E w \in Senders : /\ future[w] = "pending"
                                   /\ future' = [futures EXCEPT ![w] = "granted"]
                                   /\ locked' = locked
              \/ future' = futures /\ locked' = FALSE /\ control' = <<>> /\ bulk' = <<>>
<1>1. CASE HandToControl(futures)
  <2>1. PICK i \in DOMAIN control : /\ FirstPending(control, i)
                                   /\ future' = [futures EXCEPT ![control[i]] = "granted"]
                                   /\ control' = After(control, i)
                                   /\ UNCHANGED <<locked, bulk>>
    BY <1>1 DEF HandToControl
  <2>2. control[i] \in Senders /\ future[control[i]] = "pending"
    BY <2>1, ElementOfSeq, LenProperties DEF GateTypeOK, FirstPending
  <2>3. control' \in Seq(Senders \ Bulk)
    BY <2>1, AfterType DEF GateTypeOK
  <2> QED BY <2>1, <2>2, <2>3 DEF GateTypeOK
<1>2. CASE HandToBulk(futures)
  <2>1. PICK i \in DOMAIN bulk : /\ FirstPending(bulk, i)
                                /\ future' = [futures EXCEPT ![bulk[i]] = "granted"]
                                /\ bulk' = After(bulk, i)
                                /\ control' = <<>>
                                /\ UNCHANGED locked
    BY <1>2 DEF HandToBulk
  <2>2. bulk[i] \in Senders /\ future[bulk[i]] = "pending"
    BY <2>1, ElementOfSeq, LenProperties DEF GateTypeOK, FirstPending
  <2>3. bulk' \in Seq(Senders \cap Bulk)
    BY <2>1, AfterType DEF GateTypeOK
  <2> QED BY <2>1, <2>2, <2>3, EmptySeq
<1>3. CASE Unlock(futures)
  BY <1>3, EmptySeq DEF Unlock
<1> QED BY <1>1, <1>2, <1>3 DEF Release

-----------------------------------------------------------------------------
LEMMA InitIInv == GateInit => GateInv
<1> SUFFICES ASSUME GateInit PROVE GateInv
  OBVIOUS
<1>1. GateTypeOK
  BY EmptySeq DEF GateInit, GateTypeOK, TaskStates, FutureStates
<1>2. Tasks /\ OneOwner
  BY DEF GateInit, Tasks, OneOwner, Owners
<1>3. PendingLocked
  BY EmptySeq DEF GateInit, PendingLocked, Pending
<1> QED BY <1>1, <1>2, <1>3 DEF GateInv

LEMMA StepIInv == GateInv /\ [GateNext]_gateVars => GateInv'
<1> SUFFICES ASSUME GateInv, [GateNext]_gateVars
             PROVE  GateInv'
  OBVIOUS
<1> USE DEF GateInv, TaskStates, FutureStates
<1>1. ASSUME NEW s \in Senders, AcquireFast(s)
      PROVE  GateInv'
  BY <1>1 DEF AcquireFast, FastPath, GateTypeOK, Tasks, OneOwner, Owners, PendingLocked
<1>2. ASSUME NEW s \in Senders, AcquireQueue(s)
      PROVE  GateInv'
  <2>1. GateTypeOK'
    <3>1. CASE s \in Bulk
      <4>1. bulk \in Seq(Senders \cap Bulk)
        BY DEF GateTypeOK
      <4>2. Append(bulk, s) \in Seq(Senders \cap Bulk)
        BY <3>1, <4>1, AppendProperties
      <4> QED BY <1>2, <3>1, <4>2 DEF AcquireQueue, GateTypeOK
    <3>2. CASE s \notin Bulk
      <4>1. control \in Seq(Senders \ Bulk)
        BY DEF GateTypeOK
      <4>2. Append(control, s) \in Seq(Senders \ Bulk)
        BY <3>2, <4>1, AppendProperties
      <4> QED BY <1>2, <3>2, <4>2 DEF AcquireQueue, GateTypeOK
    <3> QED BY <3>1, <3>2
  <2>2. Tasks' /\ Owners' = Owners
    BY <1>2 DEF AcquireQueue, GateTypeOK, Tasks, Owners
  <2>3. locked
    BY <1>2 DEF AcquireQueue, FastPath, PendingLocked
  <2> QED BY <1>2, <2>1, <2>2, <2>3 DEF OneOwner, AcquireQueue, PendingLocked
<1>3. ASSUME NEW s \in Senders, Resume(s)
      PROVE  GateInv'
  <2>1. Owners' = Owners
    BY <1>3 DEF Resume, GateTypeOK, Owners
  <2>2. locked
    BY <1>3 DEF Resume, OneOwner, Owners
  <2> QED BY <1>3, <2>1, <2>2 DEF Resume, GateTypeOK, Tasks, OneOwner, PendingLocked
<1>4. ASSUME NEW s \in Senders, Cancel(s)
      PROVE  GateInv'
  <2>1. Owners' = Owners
    BY <1>4 DEF Cancel, GateTypeOK, Owners
  <2>2. \A t : future'[t] = "pending" => future[t] = "pending"
    BY <1>4 DEF Cancel, GateTypeOK
  <2>3. PendingLocked'
    BY <1>4, <2>2 DEF Cancel, PendingLocked, Pending
  <2> QED BY <1>4, <2>1, <2>3 DEF Cancel, GateTypeOK, Tasks, OneOwner
<1>5. ASSUME NEW s \in Senders, pc[s] = "hold" \/ future[s] = "granted",
             Release([future EXCEPT ![s] = "none"]),
             pc[s] \in {"hold", "throw"},
             pc' = [pc EXCEPT ![s] = "idle"]
      PROVE  GateInv'
  <2>1. Owners = {s} /\ locked
    BY <1>5 DEF OneOwner, Owners
  <2> DEFINE futures == [future EXCEPT ![s] = "none"]
  <2>2. futures \in [Senders -> FutureStates]
    BY DEF GateTypeOK
  <2>3. /\ control' \in Seq(Senders \ Bulk)
        /\ bulk' \in Seq(Senders \cap Bulk)
        /\ \/ \E w \in Senders : /\ future[w] = "pending"
                                /\ future' = [futures EXCEPT ![w] = "granted"]
                                /\ locked' = locked
           \/ future' = futures /\ locked' = FALSE /\ control' = <<>> /\ bulk' = <<>>
    BY <1>5, <2>1, <2>2, ReleasePasses
  <2>4. CASE future' = futures /\ locked' = FALSE /\ control' = <<>> /\ bulk' = <<>>
    <3>1. Owners' = {}
      BY <1>5, <2>1, <2>4 DEF Owners, GateTypeOK
    <3>2. PendingLocked'
      BY <2>4, EmptySeq DEF PendingLocked, Pending
    <3> QED BY <1>5, <2>3, <2>4, <3>1, <3>2 DEF GateTypeOK, Tasks, OneOwner
  <2>5. ASSUME NEW w \in Senders, future[w] = "pending",
               future' = [futures EXCEPT ![w] = "granted"], locked' = locked
        PROVE  GateInv'
    <3>1. w # s /\ pc[w] = "await"
      BY <1>5, <2>5 DEF Tasks, GateTypeOK
    <3>2. Owners' = {w}
      BY <1>5, <2>1, <2>5, <3>1 DEF Owners, GateTypeOK
    <3> QED BY <1>5, <2>1, <2>3, <2>5, <3>1, <3>2 DEF GateTypeOK, Tasks, OneOwner, PendingLocked
  <2> QED BY <2>3, <2>4, <2>5
<1>6. ASSUME NEW s \in Senders, ThrowOwning(s)
      PROVE  GateInv'
  BY <1>5, <1>6 DEF ThrowOwning
<1>7. ASSUME NEW s \in Senders, ThrowWaiting(s)
      PROVE  GateInv'
  <2>1. Owners' = Owners
    BY <1>7 DEF ThrowWaiting, GateTypeOK, Owners
  <2>2. GateTypeOK'
    BY <1>7, WithoutType DEF ThrowWaiting, GateTypeOK
  <2>3. \A t : future'[t] = "pending" => future[t] = "pending"
    BY <1>7 DEF ThrowWaiting, GateTypeOK
  <2>4. Pending(control)' => Pending(control)
    BY <1>7, <2>3, WithoutElements DEF ThrowWaiting, GateTypeOK, Pending
  <2>5. Pending(bulk)' => Pending(bulk)
    BY <1>7, <2>3, WithoutElements DEF ThrowWaiting, GateTypeOK, Pending
  <2>6. PendingLocked'
    BY <1>7, <2>4, <2>5 DEF ThrowWaiting, PendingLocked
  <2> QED BY <1>7, <2>1, <2>2, <2>6 DEF ThrowWaiting, GateTypeOK, Tasks, OneOwner
<1>8. ASSUME NEW s \in Senders, LeaveGate(s)
      PROVE  GateInv'
  <2>1. future[s] = "none"
    BY <1>8 DEF LeaveGate, Tasks
  <2>2. future = [future EXCEPT ![s] = "none"]
    BY <2>1 DEF GateTypeOK
  <2> QED BY <1>5, <1>8, <2>2 DEF LeaveGate
<1>9. CASE UNCHANGED gateVars
  BY <1>9 DEF gateVars, GateTypeOK, Tasks, OneOwner, Owners, PendingLocked, Pending
<1> QED BY <1>1, <1>2, <1>3, <1>4, <1>6, <1>7, <1>8, <1>9 DEF GateNext

(* GateSpec => []GateInv, the inductive strengthening of the theorems below.   *)
THEOREM GateInvariance == GateSpec => []GateInv
  BY InitIInv, StepIInv, PTL DEF GateSpec

(* Every reachable state of the gate is well-typed: the queues hold only    *)
(* waiters of their own class.                                              *)
THEOREM GateTypeCorrect == GateSpec => []GateTypeOK
  BY GateInvariance, PTL DEF GateInv

(* Never two owners of the Agent's channel, with any number of senders and  *)
(* any pattern of cancellation (PrioritySendLock.acquire and release).      *)
THEOREM SendLockMutex == GateSpec => []MutualExclusion
<1>1. GateInv => MutualExclusion
  BY DEF GateInv, OneOwner, MutualExclusion
<1> QED BY <1>1, GateInvariance, PTL

(* A cancelled sender never strands the lock or the waiters behind it: the  *)
(* lock is held iff some task owns it, and no task waits for a free lock    *)
(* (the except CancelledError branch of acquire).                           *)
THEOREM SendLockNoLostHandOff == GateSpec => []NoLostHandOff
<1>1. GateInv => NoLostHandOff
  BY DEF GateInv, OneOwner, PendingLocked, NoLostHandOff
<1> QED BY <1>1, GateInvariance, PTL

----------------------------------------------------------------------------
(***************************************************************************)
(* The limit never leaves what the configuration allows, for every         *)
(* configuration and every sequence of samples.  The range is inductive    *)
(* together with the types; the sample thresholds play no part in it.      *)
(***************************************************************************)

Inv ==
    /\ config \in Configs
    /\ paused \in BOOLEAN
    /\ limit \in Nat
    /\ LimitInRange

LEMMA ConfigTypes ==
    ASSUME NEW c \in Configs
    PROVE  /\ c.minimum \in Nat /\ c.initial \in Nat /\ c.maximum \in Nat
           /\ c.minimum <= c.initial /\ c.initial <= c.maximum
           /\ c.adaptive \in BOOLEAN
BY ConfigAssumption

LEMMA InitInv == CapacityInit => Inv
<1> SUFFICES ASSUME CapacityInit PROVE Inv
    OBVIOUS
<1>1. config \in Configs /\ limit = config.initial /\ paused = FALSE
    BY DEF CapacityInit
<1>2. /\ config.minimum \in Nat /\ config.initial \in Nat /\ config.maximum \in Nat
      /\ config.minimum <= config.initial /\ config.initial <= config.maximum
    BY <1>1, ConfigTypes
<1>3. config.initial \in config.minimum..config.maximum
    BY <1>2
<1>4. LimitInRange
    BY <1>1, <1>3 DEF LimitInRange
<1> QED BY <1>1, <1>2, <1>4 DEF Inv

(* One sample.                                                              *)
LEMMA UpdateInv ==
    ASSUME Inv, NEW s \in Samples, Update(s)
    PROVE  Inv'
<1>1. /\ config.minimum \in Nat /\ config.initial \in Nat /\ config.maximum \in Nat
      /\ config.minimum <= config.initial /\ config.initial <= config.maximum
      /\ config.adaptive \in BOOLEAN
    BY ConfigTypes DEF Inv
<1>2. config' = config /\ config \in Configs /\ limit \in Nat
    BY DEF Update, Inv
<1>3. CASE Emergency(s)
    BY <1>1, <1>2, <1>3 DEF Emergency, Inv, LimitInRange
<1>4. CASE Reopen(s)
  <2>1. CASE Enough(s.safe)
    <3>1. paused' = FALSE /\ limit' = IF config.adaptive THEN config.minimum ELSE config.initial
        BY <1>4, <2>1 DEF Reopen
    <3>2. config.minimum \in config.minimum..config.maximum
        BY <1>1
    <3>3. LimitInRange'
        BY <1>1, <1>2, <3>1, <3>2 DEF LimitInRange
    <3> QED BY <1>1, <1>2, <3>1, <3>3 DEF Inv
  <2>2. CASE ~Enough(s.safe)
    <3>1. paused' = paused /\ limit' = limit
        BY <1>4, <2>2 DEF Reopen
    <3> QED BY <1>2, <3>1 DEF Inv, LimitInRange
  <2> QED BY <2>1, <2>2
<1>5. CASE Fixed(s)
    BY <1>1, <1>2, <1>5 DEF Fixed, Inv, LimitInRange
<1>6. ASSUME Adapting(s), paused' = paused, limit' \in config.minimum..config.maximum
      PROVE  Inv'
    BY <1>1, <1>2, <1>6 DEF Adapting, Inv, LimitInRange
<1>7. Adapting(s) => limit \in config.minimum..config.maximum
    BY <1>1 DEF Adapting, Inv, LimitInRange
<1>8. CASE Unmetered(s)
  <2>1. limit' \in config.minimum..config.maximum
      BY <1>1, <1>2, <1>7, <1>8 DEF Unmetered, Blind, Least, Most
  <2> QED BY <1>6, <1>8, <2>1 DEF Unmetered
<1>9. CASE Shrink(s)
  <2>1. limit \div 4 \in Nat
      BY <1>2
  <2>2. limit' \in config.minimum..config.maximum
      BY <1>1, <1>2, <1>7, <1>9, <2>1 DEF Shrink, Most
  <2> QED BY <1>6, <1>9, <2>2 DEF Shrink
<1>10. CASE Grow(s)
  <2>1. s.ceiling \in Nat
      BY SampleAssumption
  <2>2. limit' \in config.minimum..config.maximum
      BY <1>1, <1>2, <1>7, <1>10, <2>1 DEF Grow, Least, Most
  <2> QED BY <1>6, <1>10, <2>2 DEF Grow
<1> QED BY <1>3, <1>4, <1>5, <1>8, <1>9, <1>10 DEF Update

LEMMA ReconfigureInv ==
    ASSUME Inv, NEW c \in Configs, Reconfigure(c)
    PROVE  Inv'
<1>1. /\ c.minimum \in Nat /\ c.initial \in Nat /\ c.maximum \in Nat
      /\ c.minimum <= c.initial /\ c.initial <= c.maximum
      /\ c.adaptive \in BOOLEAN
    BY ConfigTypes
<1>2. limit \in Nat /\ paused \in BOOLEAN /\ config' = c /\ paused' = paused
    BY DEF Inv, Reconfigure
<1>3. limit' \in IF paused THEN {0} ELSE IF ~c.adaptive THEN {c.initial} ELSE c.minimum..c.maximum
    BY <1>1, <1>2 DEF Reconfigure, Least, Most
<1> QED BY <1>1, <1>2, <1>3 DEF Inv, LimitInRange

(* The inductive invariant.                                                 *)
THEOREM CapacityInvariance == CapacitySpec => []Inv
<1>1. Inv /\ [CapacityNext]_capacityVars => Inv'
  <2> SUFFICES ASSUME Inv, [CapacityNext]_capacityVars PROVE Inv'
      OBVIOUS
  <2>1. CASE Tick
      BY <2>1 DEF Tick, Inv, LimitInRange
  <2>2. ASSUME NEW s \in Samples, Update(s) PROVE Inv'
      BY <2>2, UpdateInv
  <2>3. ASSUME NEW c \in Configs, Reconfigure(c) PROVE Inv'
      BY <2>3, ReconfigureInv
  <2>4. CASE UNCHANGED capacityVars
      BY <2>4 DEF capacityVars, Inv, LimitInRange
  <2> QED BY <2>1, <2>2, <2>3, <2>4 DEF CapacityNext
<1> QED BY <1>1, InitInv, PTL DEF CapacitySpec

(* The capacity of the Agent is always one its owner configured, or none    *)
(* while memory is critical (scheduler.py:56-113, 225-233).                 *)
THEOREM CapacityInRange == CapacitySpec => []LimitInRange
<1>1. Inv => LimitInRange
    BY DEF Inv
<1> QED BY <1>1, CapacityInvariance, PTL

----------------------------------------------------------------------------
(***************************************************************************)
(* Capacity comes back slowly.  `healthy` and `since` are the code's own   *)
(* memory of the machine; `recent` and `calm` are what really happened.    *)
(* The argument is that the former never claim more than the latter.       *)
(***************************************************************************)

(* The samples that count towards growth, or towards the end of an          *)
(* emergency.                                                               *)
GoodSamples(emergency) == {s \in Samples : IF emergency THEN s.safe ELSE s.kind = "healthy"}

(* At least the last n samples of a row are good.                           *)
EndsWell(row, n, good) ==
    /\ n <= Len(row)
    /\ \A i \in 1..Len(row) : i > Len(row) - n => row[i] \in good

(* The samples of a row with one more, no more than three.                  *)
OneMore(row, s) == Append(IF Len(row) = 3 THEN Tail(row) ELSE row, s)

Pace ==
    /\ CapacityTypeOK
    /\ EndsWell(recent, healthy, GoodSamples(paused))
    /\ since <= calm
    /\ ~paused /\ ~config.adaptive => healthy = 0

LEMMA FullRow ==
    ASSUME NEW S, NEW row \in Seq(S), Len(row) = 3
    PROVE  /\ Tail(row) \in Seq(S) /\ Len(Tail(row)) = 2
           /\ \A i \in 1..2 : Tail(row)[i] = row[i + 1]
<1>1. row # <<>>
  OBVIOUS
<1> QED BY <1>1, HeadTailProperties

LEMMA RowIsSamples ==
    ASSUME NEW row \in Seq(Samples), Len(row) <= 3, NEW s \in Samples
    PROVE  OneMore(row, s) \in Seq(Samples) /\ Len(OneMore(row, s)) <= 3
<1>1. PICK m \in Nat : m = Len(row)
  BY LenProperties
<1>2. m <= 3
  BY <1>1
<1>3. CASE m = 3
  <2>1. Tail(row) \in Seq(Samples) /\ Len(Tail(row)) = 2
    BY <1>1, <1>3, FullRow
  <2>2. Append(Tail(row), s) \in Seq(Samples) /\ Len(Append(Tail(row), s)) = 3
    BY <2>1, AppendProperties
  <2>3. OneMore(row, s) = Append(Tail(row), s)
    BY <1>1, <1>3 DEF OneMore
  <2> QED BY <2>2, <2>3
<1>4. CASE m # 3
  <2>1. Append(row, s) \in Seq(Samples) /\ Len(Append(row, s)) = m + 1
    BY <1>1, AppendProperties
  <2>2. m + 1 <= 3
    BY <1>2, <1>4
  <2>3. OneMore(row, s) = Append(row, s)
    BY <1>1, <1>4 DEF OneMore
  <2> QED BY <2>1, <2>2, <2>3
<1> QED BY <1>3, <1>4

(* A good sample makes the good end of the row one longer.                  *)
LEMMA RowGrows ==
    ASSUME NEW good \in SUBSET Samples, NEW row \in Seq(Samples), Len(row) <= 3,
           NEW n \in 0..3, EndsWell(row, n, good), NEW s \in good
    PROVE  EndsWell(OneMore(row, s), Least(n + 1, 3), good)
<1>1. PICK m \in Nat : m = Len(row)
  BY LenProperties
<1>2. s \in Samples /\ m <= 3 /\ n <= m /\ \A i \in 1..m : i > m - n => row[i] \in good
  BY <1>1 DEF EndsWell
<1>3. CASE m = 3
  <2> DEFINE kept == Tail(row)
             more == Append(kept, s)
             k    == Least(n + 1, 3)
  <2>1. OneMore(row, s) = more
    BY <1>1, <1>3 DEF OneMore
  <2>2. kept \in Seq(Samples) /\ Len(kept) = 2 /\ \A i \in 1..2 : kept[i] = row[i + 1]
    BY <1>1, <1>3, FullRow
  <2> HIDE DEF kept
  <2>3. /\ Len(more) = Len(kept) + 1 /\ more[Len(kept) + 1] = s
        /\ \A i \in 1..Len(kept) : more[i] = kept[i]
    <3>1. kept \in Seq(Samples) /\ s \in Samples
      BY <1>2, <2>2
    <3> QED BY <3>1, AppendProperties
  <2> HIDE DEF more
  <2>4. Len(more) = 3 /\ more[3] = s /\ \A i \in 1..2 : more[i] = row[i + 1]
    BY <2>2, <2>3
  <2>5. k \in 0..3 /\ k <= n + 1
    BY DEF Least
  <2> HIDE DEF k
  <2>6. ASSUME NEW i \in 1..3, i > 3 - k
        PROVE  more[i] \in good
    <3>1. CASE i = 3
      BY <2>4, <3>1
    <3>2. CASE i \in 1..2
      <4>1. i + 1 \in 1..m /\ i + 1 > m - n
        BY <1>3, <2>5, <2>6, <3>2
      <4>2. row[i + 1] \in good
        BY <1>2, <4>1
      <4> QED BY <2>4, <3>2, <4>2
    <3>3. i = 3 \/ i \in 1..2
      OBVIOUS
    <3> QED BY <3>1, <3>2, <3>3
  <2>7. EndsWell(more, k, good)
    BY <2>4, <2>5, <2>6 DEF EndsWell
  <2> QED BY <2>1, <2>7 DEF k
<1>4. CASE m # 3
  <2> DEFINE more == Append(row, s)
  <2>1. OneMore(row, s) = more
    BY <1>1, <1>4 DEF OneMore
  <2>2. Len(more) = m + 1 /\ more[m + 1] = s /\ \A i \in 1..m : more[i] = row[i]
    BY <1>1, <1>2, AppendProperties
  <2> HIDE DEF more
  <2>3. Least(n + 1, 3) = n + 1
    BY <1>2, <1>4 DEF Least
  <2>4. ASSUME NEW i \in 1..(m + 1), i > m + 1 - (n + 1)
        PROVE  more[i] \in good
    <3>1. CASE i = m + 1
      BY <2>2, <3>1
    <3>2. CASE i \in 1..m
      <4>1. i > m - n
        BY <2>4, <3>2
      <4> QED BY <1>2, <2>2, <3>2, <4>1
    <3>3. i = m + 1 \/ i \in 1..m
      OBVIOUS
    <3> QED BY <3>1, <3>2, <3>3
  <2>5. EndsWell(more, n + 1, good)
    BY <1>2, <2>2, <2>4 DEF EndsWell
  <2> QED BY <2>1, <2>3, <2>5
<1> QED BY <1>3, <1>4

LEMMA NothingGood ==
    ASSUME NEW row \in Seq(Samples), NEW good
    PROVE  EndsWell(row, 0, good)
BY DEF EndsWell

(* A step that forgets the row or starts counting again, and the clock with *)
(* it.                                                                      *)
LEMMA StartsOver ==
    ASSUME CapacityTypeOK', healthy' = 0, since' = 0
    PROVE  Pace'
<1>1. recent' \in Seq(Samples) /\ calm' \in 0..Cooldown
  BY DEF CapacityTypeOK
<1>2. EndsWell(recent', 0, GoodSamples(paused'))
  BY <1>1, NothingGood
<1> QED BY <1>1, <1>2, SampleAssumption DEF Pace

(* A step that counts one more sample and leaves the limit.                 *)
LEMMA CountsOne ==
    ASSUME Pace, CapacityTypeOK', NEW s \in Samples, NEW good \in BOOLEAN,
           good => s \in GoodSamples(paused),
           healthy' = Counted(good), since' = since, paused' = paused, calm' = calm,
           recent' = OneMore(recent, s), config' = config, paused \/ config.adaptive
    PROVE  Pace'
<1>1. /\ recent \in Seq(Samples) /\ Len(recent) <= 3 /\ healthy \in 0..3
      /\ EndsWell(recent, healthy, GoodSamples(paused)) /\ since <= calm
  BY DEF Pace, CapacityTypeOK
<1>2. GoodSamples(paused) \in SUBSET Samples
  BY DEF GoodSamples
<1>3. EndsWell(recent', healthy', GoodSamples(paused'))
  <2>1. CASE good
    <3>1. EndsWell(OneMore(recent, s), Least(healthy + 1, 3), GoodSamples(paused))
      BY <1>1, <1>2, <2>1, RowGrows
    <3> QED BY <2>1, <3>1 DEF Counted
  <2>2. CASE ~good
    <3>1. EndsWell(OneMore(recent, s), 0, GoodSamples(paused))
      BY <1>1, RowIsSamples, NothingGood
    <3> QED BY <2>2, <3>1 DEF Counted
  <2> QED BY <2>1, <2>2
<1> QED BY <1>1, <1>3 DEF Pace

(* The types, of a sample and of a new configuration.                       *)
LEMMA UpdateTypes ==
    ASSUME Inv, CapacityTypeOK, NEW s \in Samples, Update(s)
    PROVE  CapacityTypeOK'
<1>1. limit' \in Nat /\ paused' \in BOOLEAN /\ config' \in Configs
  BY UpdateInv DEF Inv
<1>2. Cooldown \in Nat /\ healthy \in 0..3 /\ since \in 0..Cooldown /\ calm \in 0..Cooldown
  BY SampleAssumption DEF CapacityTypeOK
<1>3. \A good \in BOOLEAN : Counted(good) \in 0..3
  BY <1>2 DEF Counted, Least
<1>4. healthy' \in 0..3 /\ since' \in 0..Cooldown
  <2>1. CASE Emergency(s) \/ Unmetered(s) \/ Shrink(s)
    BY <1>2, <2>1 DEF Emergency, Unmetered, Shrink
  <2>2. CASE Fixed(s)
    BY <1>2, <2>2 DEF Fixed
  <2>3. CASE Reopen(s)
    <3>1. Counted(s.safe) \in 0..3
      BY <1>3, SampleAssumption
    <3>2. CASE Enough(s.safe)
      BY <1>2, <2>3, <3>2 DEF Reopen
    <3>3. CASE ~Enough(s.safe)
      BY <1>2, <2>3, <3>1, <3>3 DEF Reopen
    <3> QED BY <3>2, <3>3
  <2>4. CASE Grow(s)
    <3>1. (s.kind = "healthy") \in BOOLEAN
      OBVIOUS
    <3>2. Counted(s.kind = "healthy") \in 0..3
      BY <1>3, <3>1
    <3> QED BY <1>2, <2>4, <3>2 DEF Grow
  <2> QED BY <2>1, <2>2, <2>3, <2>4 DEF Update
<1>5. recent' \in Seq(Samples) /\ Len(recent') <= 3 /\ calm' \in 0..Cooldown
  <2>1. Record(s)
    BY DEF Update
  <2>2. CASE limit' # limit \/ s.kind = "critical"
    <3>1. recent' = <<>> /\ calm' = 0
      BY <2>1, <2>2 DEF Record, Forget
    <3> QED BY <1>2, <3>1, EmptySeq
  <2>3. CASE ~(limit' # limit \/ s.kind = "critical")
    <3>1. recent' = OneMore(recent, s) /\ calm' = calm
      BY <2>1, <2>3 DEF Record, OneMore
    <3> QED BY <1>2, <3>1, RowIsSamples DEF CapacityTypeOK
  <2> QED BY <2>2, <2>3
<1>6. sample' \in Samples \cup {NoSample}
  BY DEF Update
<1> QED BY <1>1, <1>4, <1>5, <1>6 DEF CapacityTypeOK

LEMMA UpdatePace ==
    ASSUME Inv, Pace, NEW s \in Samples, Update(s)
    PROVE  Pace'
<1>1. CapacityTypeOK'
  BY UpdateTypes DEF Pace
<1>2. CASE Emergency(s) \/ Unmetered(s) \/ Shrink(s)
  BY <1>1, <1>2, StartsOver DEF Emergency, Unmetered, Shrink
<1>3. ASSUME limit' = limit, s.kind # "critical"
      PROVE  recent' = OneMore(recent, s) /\ calm' = calm
  BY <1>3 DEF Update, Record, OneMore
<1>4. config' = config
  BY DEF Update
<1>5. CASE Reopen(s)
  <2>1. s.safe \in BOOLEAN /\ paused /\ (s.safe => s \in GoodSamples(paused))
    BY <1>5, SampleAssumption DEF Reopen, GoodSamples
  <2>2. CASE Enough(s.safe)
    BY <1>1, <1>5, <2>2, StartsOver DEF Reopen
  <2>3. CASE ~Enough(s.safe)
    <3>1. /\ healthy' = Counted(s.safe) /\ limit' = limit /\ paused' = paused
          /\ since' = since /\ s.kind # "critical"
      BY <1>5, <2>3 DEF Reopen
    <3> QED BY <1>1, <1>3, <1>4, <2>1, <3>1, CountsOne
  <2> QED BY <2>2, <2>3
<1>6. CASE Fixed(s)
  <2>1. /\ ~paused /\ ~config.adaptive /\ s.kind # "critical" /\ limit' = config.initial
        /\ paused' = paused /\ healthy' = healthy /\ since' = since
    BY <1>6 DEF Fixed
  <2>2. limit' = limit
    BY <2>1 DEF Inv, LimitInRange
  <2>3. healthy' = 0 /\ calm' = calm
    BY <1>3, <2>1, <2>2 DEF Pace
  <2>4. recent' \in Seq(Samples)
    BY <1>1 DEF CapacityTypeOK
  <2>5. EndsWell(recent', healthy', GoodSamples(paused'))
    BY <2>3, <2>4, NothingGood
  <2> QED BY <1>1, <2>1, <2>3, <2>5 DEF Pace
<1>7. CASE Grow(s)
  <2> DEFINE good == s.kind = "healthy"
  <2>1. good \in BOOLEAN /\ ~paused /\ config.adaptive /\ (good => s \in GoodSamples(paused))
        /\ s.kind # "critical"
    BY <1>7 DEF Grow, Adapting, GoodSamples
  <2>2. CASE Enough(good)
    BY <1>1, <1>7, <2>2, StartsOver DEF Grow
  <2>3. CASE ~Enough(good)
    <3>1. healthy' = Counted(good) /\ limit' = limit /\ paused' = paused /\ since' = since
      BY <1>7, <2>3 DEF Grow
    <3>2. recent' = OneMore(recent, s) /\ calm' = calm
      BY <1>3, <2>1, <3>1
    <3> HIDE DEF good
    <3> QED BY <1>1, <1>4, <2>1, <3>1, <3>2, CountsOne
  <2> QED BY <2>2, <2>3
<1> QED BY <1>2, <1>5, <1>6, <1>7 DEF Update

LEMMA ReconfigurePace ==
    ASSUME Inv, Pace, NEW c \in Configs, Reconfigure(c)
    PROVE  Pace'
<1>1. limit' \in Nat /\ paused' \in BOOLEAN /\ config' \in Configs
  BY ReconfigureInv DEF Inv
<1>2. recent' = <<>> /\ calm' = 0 /\ sample' = sample /\ healthy' = 0 /\ since' = 0
  BY DEF Reconfigure, Forget
<1>3. Cooldown \in Nat /\ 0 \in 0..Cooldown /\ sample \in Samples \cup {NoSample}
  BY SampleAssumption DEF Pace, CapacityTypeOK
<1>4. CapacityTypeOK'
  BY <1>1, <1>2, <1>3 DEF CapacityTypeOK
<1> QED BY <1>2, <1>4, StartsOver

LEMMA TickPace ==
    ASSUME Pace, Tick
    PROVE  Pace'
<1>1. /\ Cooldown \in Nat /\ since \in 0..Cooldown /\ calm \in 0..Cooldown /\ since <= calm
  BY SampleAssumption DEF Pace, CapacityTypeOK
<1>2. since' \in 0..Cooldown /\ calm' \in 0..Cooldown /\ since' <= calm'
  BY <1>1 DEF Tick, Least
<1>3. UNCHANGED <<config, limit, paused, healthy, sample, recent>>
  BY DEF Tick
<1> QED BY <1>2, <1>3 DEF Pace, CapacityTypeOK, GoodSamples

LEMMA CapacityPace == CapacitySpec => []Pace
<1>1. CapacityInit => Pace
  <2> SUFFICES ASSUME CapacityInit PROVE Pace
    OBVIOUS
  <2>1. config \in Configs /\ config.initial \in Nat /\ Cooldown \in Nat
    BY ConfigTypes, SampleAssumption DEF CapacityInit
  <2>2. CapacityTypeOK
    <3>1. recent \in Seq(Samples) /\ Len(recent) <= 3
      BY EmptySeq DEF CapacityInit
    <3>2. /\ limit \in Nat /\ healthy \in 0..3 /\ config \in Configs
          /\ sample \in Samples \cup {NoSample}
      BY <2>1 DEF CapacityInit
    <3>4. paused \in BOOLEAN
      BY DEF CapacityInit
    <3>3. since \in 0..Cooldown /\ calm \in 0..Cooldown
      BY <2>1 DEF CapacityInit
    <3> QED BY <3>1, <3>2, <3>3, <3>4 DEF CapacityTypeOK
  <2>3. EndsWell(recent, 0, GoodSamples(paused))
    BY <2>2, NothingGood DEF CapacityTypeOK
  <2> QED BY <2>2, <2>3 DEF CapacityInit, Pace
<1>2. Inv /\ Pace /\ [CapacityNext]_capacityVars => Pace'
  <2> SUFFICES ASSUME Inv, Pace, [CapacityNext]_capacityVars PROVE Pace'
    OBVIOUS
  <2>1. CASE Tick
    BY <2>1, TickPace
  <2>2. ASSUME NEW s \in Samples, Update(s) PROVE Pace'
    BY <2>2, UpdatePace
  <2>3. ASSUME NEW c \in Configs, Reconfigure(c) PROVE Pace'
    BY <2>3, ReconfigurePace
  <2>4. CASE UNCHANGED capacityVars
    BY <2>4 DEF capacityVars, Pace, CapacityTypeOK, GoodSamples
  <2> QED BY <2>1, <2>2, <2>3, <2>4 DEF CapacityNext
<1> QED BY <1>1, <1>2, CapacityInvariance, PTL DEF CapacitySpec

(* The types, the two histories among them.                                 *)
THEOREM CapacityTypeCorrect == CapacitySpec => []CapacityTypeOK
<1>1. Pace => CapacityTypeOK
  BY DEF Pace
<1> QED BY <1>1, CapacityPace, PTL

(* While one configuration stands, the limit goes up only with the third    *)
(* good sample in a row, a full cooldown after it last moved or memory was  *)
(* critical, and by one (AdaptiveCapacity.update, scheduler.py:56-113).     *)
THEOREM CapacityReturnsSlowly == CapacitySpec => SlowReturn
<1> DEFINE Slow ==
      (limit' > limit /\ UNCHANGED config) =>
          /\ calm = Cooldown
          /\ Len(recent) >= 2
          /\ GoodEnough(sample')
          /\ \A i \in DOMAIN recent : i > Len(recent) - 2 => GoodEnough(recent[i])
          /\ paused \/ limit' = limit + 1
<1>1. Inv /\ Pace /\ [CapacityNext]_capacityVars => [Slow]_capacityVars
  <2> SUFFICES ASSUME Inv, Pace, CapacityNext, limit' > limit, config' = config
               PROVE  Slow
    OBVIOUS
  <2>1. /\ limit \in Nat /\ paused \in BOOLEAN /\ config \in Configs
        /\ recent \in Seq(Samples) /\ Len(recent) <= 3
        /\ healthy \in 0..3 /\ since \in 0..Cooldown /\ calm \in 0..Cooldown
        /\ Cooldown \in Nat
        /\ since <= calm /\ EndsWell(recent, healthy, GoodSamples(paused))
    BY SampleAssumption DEF Inv, Pace, CapacityTypeOK
  <2>2. /\ config.minimum \in Nat /\ config.initial \in Nat /\ config.maximum \in Nat
        /\ config.minimum <= config.initial /\ config.initial <= config.maximum
        /\ config.adaptive \in BOOLEAN
    BY <2>1, ConfigTypes
  <2>3. ~Tick
    BY <2>1 DEF Tick
  <2>4. ~\E c \in Configs : Reconfigure(c)
    <3> SUFFICES ASSUME NEW c \in Configs, Reconfigure(c) PROVE FALSE
      OBVIOUS
    <3>1. c = config /\ limit' = IF paused THEN 0 ELSE IF ~c.adaptive THEN c.initial
                                 ELSE Most(c.minimum, Least(limit, c.maximum))
      BY DEF Reconfigure
    <3> QED BY <2>1, <2>2, <3>1 DEF Inv, LimitInRange, Most, Least
  <2>5. PICK s \in Samples : Update(s)
    BY <2>3, <2>4 DEF CapacityNext
  <2>6. ~Emergency(s) /\ ~Fixed(s) /\ ~Unmetered(s) /\ ~Shrink(s)
    <3>1. ~Emergency(s)
      BY <2>1 DEF Emergency
    <3>2. ~Fixed(s)
      BY <2>1 DEF Fixed, Inv, LimitInRange
    <3>3. ~Unmetered(s)
      BY <2>1, <2>2 DEF Unmetered, Blind, Least, Most
    <3>4. ASSUME Shrink(s) PROVE FALSE
      <4>1. limit \div 4 \in Nat
        BY <2>1
      <4>2. limit >= config.minimum
        BY <2>1, <2>2, <3>4 DEF Shrink, Adapting, Inv, LimitInRange
      <4>3. Most(1, limit \div 4) \in Nat /\ Most(1, limit \div 4) >= 1
        BY <4>1 DEF Most
      <4>4. limit' = Most(config.minimum, limit - Most(1, limit \div 4))
        BY <3>4 DEF Shrink
      <4> HIDE DEF Most
      <4> QED BY <2>1, <2>2, <4>2, <4>3, <4>4 DEF Most
    <3> QED BY <3>1, <3>2, <3>3, <3>4
  <2>7. sample' = s
    BY <2>5 DEF Update
  <2>8. ASSUME NEW good \in BOOLEAN, Enough(good), good => s \in GoodSamples(paused)
        PROVE  /\ calm = Cooldown /\ Len(recent) >= 2 /\ GoodEnough(s)
               /\ \A i \in DOMAIN recent : i > Len(recent) - 2 => GoodEnough(recent[i])
    <3>1. good /\ since = Cooldown /\ healthy >= 2
      BY <2>1, <2>8 DEF Enough, Counted, Least
    <3>2. calm = Cooldown /\ Len(recent) >= 2
      BY <2>1, <3>1 DEF EndsWell
    <3>3. \A t \in GoodSamples(paused) : GoodEnough(t)
      BY DEF GoodSamples, GoodEnough
    <3>4. \A i \in 1..Len(recent) : i > Len(recent) - 2 => recent[i] \in GoodSamples(paused)
      BY <2>1, <3>1 DEF EndsWell
    <3>5. DOMAIN recent = 1..Len(recent)
      BY <2>1
    <3> QED BY <2>8, <3>1, <3>2, <3>3, <3>4, <3>5
  <2>9. CASE Reopen(s)
    <3>1. paused /\ (~Enough(s.safe) => limit' = limit)
      BY <2>9 DEF Reopen
    <3>3. Enough(s.safe)
      BY <2>1, <3>1
    <3>2. s.safe \in BOOLEAN /\ (s.safe => s \in GoodSamples(paused))
      BY <3>1, SampleAssumption DEF GoodSamples
    <3>4. /\ calm = Cooldown /\ Len(recent) >= 2 /\ GoodEnough(s)
          /\ \A i \in DOMAIN recent : i > Len(recent) - 2 => GoodEnough(recent[i])
      BY <2>8, <3>2, <3>3
    <3> QED BY <2>7, <3>1, <3>4 DEF GoodEnough
  <2>10. CASE Grow(s)
    <3> DEFINE good == s.kind = "healthy"
    <3>1. /\ ~paused /\ config.adaptive /\ Enough(good)
          /\ limit' = Least(Least(config.maximum, Most(config.minimum, s.ceiling)),
                            Most(config.minimum, limit + 1))
      BY <2>1, <2>10 DEF Grow, Adapting
    <3>2. good \in BOOLEAN /\ (good => s \in GoodSamples(paused))
      BY <3>1 DEF GoodSamples
    <3>3. s.ceiling \in Nat /\ limit >= config.minimum
      BY <2>1, <2>2, <3>1, SampleAssumption DEF Inv, LimitInRange
    <3>4. limit' = limit + 1
      BY <2>1, <2>2, <3>1, <3>3 DEF Least, Most
    <3> HIDE DEF good
    <3>5. /\ calm = Cooldown /\ Len(recent) >= 2 /\ GoodEnough(s)
          /\ \A i \in DOMAIN recent : i > Len(recent) - 2 => GoodEnough(recent[i])
      BY <2>8, <3>1, <3>2
    <3> QED BY <2>7, <3>4, <3>5 DEF GoodEnough
  <2> QED BY <2>5, <2>6, <2>9, <2>10 DEF Update
<1> QED BY <1>1, CapacityInvariance, CapacityPace, PTL DEF CapacitySpec, SlowReturn

----------------------------------------------------------------------------
(* Whatever the number of processes and entries: an entry that counts as     *)
(* committed is committed on the other side and stays so, and no entry is    *)
(* sent more often than its budget says.                                     *)
(*                                                                           *)
(* Neither is inductive.  A process whose lease has expired goes on with     *)
(* what it knew; what keeps it from harm is that only the latest claim of    *)
(* an entry owns it (Confirmed), that only the latest claim of the lane may  *)
(* mark a send, and that what it read when it claimed is then still so       *)
(* (Leaseholder, Marking).  A send that was marked counts as spent before it *)
(* is made, since its process may make it at any later time.                 *)

Sending(e) == {h \in Hosts : Doing(h, "send") /\ claim[h].entry = e}
Spent(e)   == sent[e] + Cardinality(Sending(e))

Confirmed ==
    \A e \in Entries : (entry[e] # None /\ entry[e].state = "committed") =>
        /\ remote[e] = "same"
        /\ \A h \in Hosts : (claim[h] # None /\ claim[h].entry = e /\ entry[e].owner = h) =>
            claim[h].pc = "end"

Leaseholder ==
    \A h \in Hosts : (lane.owner = h /\ (Doing(h, "lookup") \/ Doing(h, "mark"))) =>
        Mine(h) /\ entry[claim[h].entry].attempts = claim[h].attempts

Marking ==
    \A h \in Hosts : Doing(h, "mark") =>
        /\ claim[h].attempts < Budget
        /\ lane.owner = h => Spent(claim[h].entry) <= claim[h].attempts

Budgeted ==
    \A e \in Entries :
        /\ Spent(e) <= Budget
        /\ (entry[e] = None /\ remote[e] = "absent") => Sending(e) = {}
        /\ (entry[e] # None /\ remote[e] = "absent") => Spent(e) <= entry[e].attempts

OutboxInv == OutboxTypeOK /\ Confirmed /\ Leaseholder /\ Marking /\ Budgeted

----------------------------------------------------------------------------
(* The sends that are marked and not made yet can be counted.                *)
LEMMA SpentIsNat ==
    ASSUME OutboxTypeOK, NEW e \in Entries
    PROVE  /\ IsFiniteSet(Sending(e)) /\ Cardinality(Sending(e)) \in Nat
           /\ Spent(e) \in Nat
<1>1. Sending(e) \subseteq Hosts
    BY DEF Sending
<1>2. IsFiniteSet(Sending(e)) /\ Cardinality(Sending(e)) \in Nat
    BY <1>1, FS_Subset, FS_CardinalityType, OutboxAssumption
<1> QED BY <1>2 DEF Spent, OutboxTypeOK

LEMMA SpentShrinks ==
    ASSUME OutboxTypeOK, OutboxTypeOK', NEW e \in Entries,
           sent'[e] <= sent[e], Sending(e)' \subseteq Sending(e)
    PROVE  Spent(e)' <= Spent(e) /\ Spent(e) \in Nat /\ Spent(e)' \in Nat
<1>1. IsFiniteSet(Sending(e)) /\ Cardinality(Sending(e)) \in Nat
    BY SpentIsNat
<1>2. Cardinality(Sending(e)') <= Cardinality(Sending(e))
    BY <1>1, FS_Subset
<1>3. Cardinality(Sending(e)') \in Nat
    BY <1>1, FS_Subset, FS_CardinalityType
<1> QED BY <1>1, <1>2, <1>3 DEF Spent, OutboxTypeOK

LEMMA GoesOn ==
    ASSUME OutboxTypeOK, NEW h \in Hosts, NEW p \in Places, claim[h] # None, Goes(h, p)
    PROVE  /\ claim' \in [Hosts -> ClaimRec \cup {None}]
           /\ \A g \in Hosts \ {h} : claim'[g] = claim[g]
           /\ claim'[h] \in ClaimRec /\ claim'[h] # None
           /\ claim'[h].entry = claim[h].entry /\ claim'[h].attempts = claim[h].attempts
           /\ claim'[h].pc = p
<1>1. claim[h] \in ClaimRec
    BY DEF OutboxTypeOK
<1>2. claim'[h] = [claim[h] EXCEPT !.pc = p]
    BY DEF OutboxTypeOK, Goes
<1>3. claim'[h] \in ClaimRec
    BY <1>1, <1>2 DEF ClaimRec
<1>4. claim'[h] # None
    BY <1>3, OutboxAssumption
<1>5. /\ claim'[h].entry = claim[h].entry /\ claim'[h].attempts = claim[h].attempts
      /\ claim'[h].pc = p
    BY <1>1, <1>2 DEF ClaimRec
<1>6. \A g \in Hosts \ {h} : claim'[g] = claim[g]
    BY DEF OutboxTypeOK, Goes
<1>7. claim' \in [Hosts -> ClaimRec \cup {None}]
    BY <1>3, <1>6 DEF OutboxTypeOK, Goes
<1> QED BY <1>3, <1>4, <1>5, <1>6, <1>7

(* Whatever a process records, it records on the entry that it owns.         *)
LEMMA Records ==
    ASSUME OutboxTypeOK, NEW h \in Hosts, NEW s \in States, NEW w \in Nat, claim[h] # None,
           Becomes(h, s, w) \/ UNCHANGED entry
    PROVE  /\ entry' \in [Entries -> EntryRec \cup {None}]
           /\ \A e \in Entries :
                \/ entry'[e] = entry[e]
                \/ /\ e = claim[h].entry /\ entry[e] # None /\ entry[e].owner = h
                   /\ entry'[e] # None /\ entry'[e].state = s
                   /\ entry'[e].owner = h /\ entry'[e].attempts = entry[e].attempts
<1>1. CASE UNCHANGED entry
    BY <1>1 DEF OutboxTypeOK
<1>2. CASE Becomes(h, s, w) /\ Mine(h)
    <2> DEFINE mine == claim[h].entry
    <2>1. mine \in Entries /\ entry[mine] \in EntryRec /\ entry[mine].owner = h
        BY <1>2 DEF OutboxTypeOK, ClaimRec, Mine
    <2>2. entry' = [entry EXCEPT ![mine] = [entry[mine] EXCEPT !.state = s, !.wait = w]]
        BY <1>2 DEF Becomes, OutboxTypeOK
    <2>3. entry'[mine] = [entry[mine] EXCEPT !.state = s, !.wait = w]
        BY <2>1, <2>2 DEF OutboxTypeOK
    <2>4. entry'[mine] \in EntryRec
        BY <2>1, <2>3 DEF EntryRec
    <2>5. entry'[mine] # None
        BY <2>4, OutboxAssumption
    <2>6. /\ entry'[mine].state = s /\ entry'[mine].owner = h
          /\ entry'[mine].attempts = entry[mine].attempts
        BY <2>1, <2>3 DEF EntryRec
    <2>7. \A e \in Entries \ {mine} : entry'[e] = entry[e]
        BY <2>2 DEF OutboxTypeOK
    <2>8. entry' \in [Entries -> EntryRec \cup {None}]
        BY <2>1, <2>2, <2>4, <2>3 DEF OutboxTypeOK
    <2>9. entry[mine] # None
        BY <1>2 DEF Mine
    <2> QED BY <2>1, <2>5, <2>6, <2>7, <2>8, <2>9
<1> QED BY <1>1, <1>2 DEF Becomes

----------------------------------------------------------------------------
(* Every way in which a delivery ends: its outcome is on the entry or, when  *)
(* the entry has another owner, nowhere.                                     *)
LEMMA OutcomeKeeps ==
    ASSUME OutboxInv, NEW h \in Hosts, NEW s \in States, NEW w \in Nat,
           claim[h] # None, claim[h].pc # "end", Goes(h, "end"),
           Becomes(h, s, w) \/ UNCHANGED entry,
           s = "committed" => remote[claim[h].entry] = "same",
           UNCHANGED <<lane, wire, remote, sent>>
    PROVE  OutboxInv'
<1> USE DEF OutboxInv
<1>1. /\ claim' \in [Hosts -> ClaimRec \cup {None}]
      /\ \A g \in Hosts \ {h} : claim'[g] = claim[g]
      /\ claim'[h] # None /\ claim'[h].pc = "end"
    BY GoesOn DEF Places
<1>2. /\ entry' \in [Entries -> EntryRec \cup {None}]
      /\ \A e \in Entries :
            \/ entry'[e] = entry[e]
            \/ /\ e = claim[h].entry /\ entry[e] # None /\ entry[e].owner = h
               /\ entry'[e] # None /\ entry'[e].state = s
               /\ entry'[e].owner = h /\ entry'[e].attempts = entry[e].attempts
    BY Records
<1>3. OutboxTypeOK'
    BY <1>1, <1>2 DEF OutboxTypeOK
<1>4. Confirmed'
    BY <1>1, <1>2 DEF Confirmed
<1>5. \A e \in Entries : /\ (entry'[e] = None) <=> (entry[e] = None)
                         /\ entry[e] # None => /\ entry'[e].owner = entry[e].owner
                                               /\ entry'[e].attempts = entry[e].attempts
    BY <1>2
<1>6. \A g \in Hosts : (claim[g] # None) => claim[g].entry \in Entries
    BY DEF OutboxTypeOK, ClaimRec
<1>7. Leaseholder'
    BY <1>1, <1>5, <1>6 DEF Leaseholder, Doing, Mine
<1>8. \A e \in Entries : Sending(e)' \subseteq Sending(e)
    BY <1>1 DEF Sending, Doing
<1>9. \A e \in Entries : Spent(e)' <= Spent(e) /\ Spent(e) \in Nat /\ Spent(e)' \in Nat
    BY <1>3, <1>8, SpentShrinks DEF OutboxTypeOK
<1>10. Marking'
    BY <1>1, <1>6, <1>9, OutboxAssumption DEF Marking, Doing, OutboxTypeOK, ClaimRec
<1>11. Budgeted'
    BY <1>5, <1>8, <1>9, OutboxAssumption DEF Budgeted, OutboxTypeOK, EntryRec
<1> QED BY <1>3, <1>4, <1>7, <1>10, <1>11

----------------------------------------------------------------------------
(* A process that ends or dies takes what it had not sent with it.           *)
LEMMA GoneKeeps ==
    ASSUME OutboxInv, NEW h \in Hosts, claim' = [claim EXCEPT ![h] = None],
           lane' = lane \/ lane' = [lane EXCEPT !.left = 0],
           UNCHANGED <<entry, wire, remote, sent>>
    PROVE  OutboxInv'
<1> USE DEF OutboxInv
<1>1. \A g \in Hosts : claim'[g] = IF g = h THEN None ELSE claim[g]
    BY DEF OutboxTypeOK
<1>2. lane'.owner = lane.owner
    BY DEF OutboxTypeOK
<1>3. OutboxTypeOK'
    BY DEF OutboxTypeOK
<1>4. Confirmed' /\ Leaseholder'
    BY <1>1, <1>2 DEF Confirmed, Leaseholder, Doing, Mine
<1>5. \A e \in Entries : Sending(e)' \subseteq Sending(e)
    BY <1>1 DEF Sending, Doing
<1>6. \A e \in Entries : Spent(e)' <= Spent(e) /\ Spent(e) \in Nat /\ Spent(e)' \in Nat
    BY <1>3, <1>5, SpentShrinks DEF OutboxTypeOK
<1>7. Marking'
    BY <1>1, <1>2, <1>6, OutboxAssumption DEF Marking, Doing, OutboxTypeOK, ClaimRec
<1>8. Budgeted'
    BY <1>5, <1>6, OutboxAssumption DEF Budgeted, OutboxTypeOK, EntryRec
<1> QED BY <1>3, <1>4, <1>7, <1>8

(* The claim: what it reads is what the entry says, and nobody else may      *)
(* mark a send from now on.                                                  *)
LEMMA ClaimKeeps == ASSUME NEW h \in Hosts, NEW e \in Entries PROVE OutboxInv /\ Claim(h, e) => OutboxInv'
<1> SUFFICES ASSUME OutboxInv, Claim(h, e) PROVE OutboxInv'
    OBVIOUS
<1> USE DEF OutboxInv, Claim, World
<1>1. entry[e] \in EntryRec /\ entry[e].state \notin Terminal
    BY DEF OutboxTypeOK, Deliverable
<1> DEFINE claimed == [entry[e] EXCEPT !.state = "checking_receipt", !.owner = h]
           new     == [entry |-> e, attempts |-> entry[e].attempts, pc |-> "lookup"]
<1>2. /\ claimed \in EntryRec /\ claimed.state = "checking_receipt" /\ claimed.owner = h
      /\ claimed.attempts = entry[e].attempts
    BY <1>1 DEF EntryRec, States
<1>3. new \in ClaimRec
    BY <1>1 DEF ClaimRec, EntryRec, Places
<1>4. entry' = [entry EXCEPT ![e] = claimed] /\ claim' = [claim EXCEPT ![h] = new]
    BY DEF OutboxTypeOK
<1>5. /\ new.entry = e /\ new.attempts = entry[e].attempts /\ new.pc = "lookup"
      /\ lane'.owner = h
    OBVIOUS
<1> HIDE DEF claimed, new
<1>6. claimed # None /\ new # None
    BY <1>2, <1>3, OutboxAssumption
<1>7. \A f \in Entries : entry'[f] = IF f = e THEN claimed ELSE entry[f]
    BY <1>4 DEF OutboxTypeOK
<1>8. \A g \in Hosts : claim'[g] = IF g = h THEN new ELSE claim[g]
    BY <1>4 DEF OutboxTypeOK
<1>9. OutboxTypeOK'
    <2>1. entry' \in [Entries -> EntryRec \cup {None}]
        BY <1>2, <1>4 DEF OutboxTypeOK
    <2>2. claim' \in [Hosts -> ClaimRec \cup {None}]
        BY <1>3, <1>4 DEF OutboxTypeOK
    <2>3. lane' \in [owner : Hosts \cup {None}, left : Nat]
        BY OutboxAssumption
    <2> QED BY <2>1, <2>2, <2>3 DEF OutboxTypeOK
<1>10. Confirmed'
    <2> SUFFICES ASSUME NEW f \in Entries, entry'[f] # None, entry'[f].state = "committed"
                 PROVE  /\ remote'[f] = "same"
                        /\ \A g \in Hosts : (claim'[g] # None /\ claim'[g].entry = f
                                              /\ entry'[f].owner = g) => claim'[g].pc = "end"
        BY DEF Confirmed
    <2>1. f # e /\ entry'[f] = entry[f]
        BY <1>2, <1>7
    <2> QED BY <1>5, <1>8, <2>1 DEF Confirmed
<1>11. Leaseholder'
    <2> SUFFICES ASSUME NEW g \in Hosts, lane'.owner = g
                 PROVE  Mine(g)' /\ entry'[claim'[g].entry].attempts = claim'[g].attempts
        BY DEF Leaseholder
    <2>1. g = h /\ claim'[g] = new /\ entry'[e] = claimed
        BY <1>5, <1>7, <1>8
    <2>2. claim'[g].entry = e /\ claim'[g].attempts = entry[e].attempts
        BY <1>5, <2>1
    <2> QED BY <1>2, <1>6, <2>1, <2>2 DEF Mine
<1>12. \A f \in Entries : Sending(f)' \subseteq Sending(f)
    BY <1>5, <1>8 DEF Sending, Doing
<1>13. \A f \in Entries : Spent(f)' <= Spent(f) /\ Spent(f) \in Nat /\ Spent(f)' \in Nat
    BY <1>9, <1>12, SpentShrinks DEF OutboxTypeOK
<1>14. Marking'
    BY <1>5, <1>8 DEF Marking, Doing
<1>15. \A f \in Entries : /\ (entry'[f] = None) <=> (entry[f] = None)
                          /\ entry'[f] # None => entry'[f].attempts = entry[f].attempts
    BY <1>2, <1>6, <1>7, <1>1, OutboxAssumption
<1>16. Budgeted'
    BY <1>12, <1>13, <1>15, OutboxAssumption DEF Budgeted, OutboxTypeOK, EntryRec
<1> QED BY <1>9, <1>10, <1>11, <1>14, <1>16

(* The lookup has found nothing, and the budget is not used up.              *)
LEMMA AbsentKeeps ==
    ASSUME OutboxInv, NEW h \in Hosts, Doing(h, "lookup"), remote[claim[h].entry] = "absent",
           ~(claim[h].attempts >= Budget), Goes(h, "mark"),
           UNCHANGED <<entry, lane, wire, remote, sent>>
    PROVE  OutboxInv'
<1> USE DEF OutboxInv
<1>1. /\ claim' \in [Hosts -> ClaimRec \cup {None}]
      /\ \A g \in Hosts \ {h} : claim'[g] = claim[g]
      /\ claim'[h] # None /\ claim'[h].entry = claim[h].entry
      /\ claim'[h].attempts = claim[h].attempts /\ claim'[h].pc = "mark"
    BY GoesOn DEF Places, Doing
<1>2. OutboxTypeOK'
    BY <1>1 DEF OutboxTypeOK
<1>3. claim[h].entry \in Entries /\ claim[h].attempts \in Nat /\ Budget \in Nat
    BY OutboxAssumption DEF Doing, OutboxTypeOK, ClaimRec
<1>4. Confirmed' /\ Leaseholder'
    BY <1>1 DEF Confirmed, Leaseholder, Doing, Mine
<1>5. \A e \in Entries : Sending(e)' \subseteq Sending(e)
    BY <1>1 DEF Sending, Doing
<1>6. \A e \in Entries : Spent(e)' <= Spent(e) /\ Spent(e) \in Nat /\ Spent(e)' \in Nat
    BY <1>2, <1>5, SpentShrinks DEF OutboxTypeOK
<1>7. lane.owner = h => Spent(claim[h].entry) <= claim[h].attempts
    BY <1>3 DEF Leaseholder, Budgeted, Mine
<1>8. Marking'
    <2> SUFFICES ASSUME NEW g \in Hosts, Doing(g, "mark")'
                 PROVE  /\ claim'[g].attempts < Budget
                        /\ lane'.owner = g =>
                            \A e \in Entries : e = claim'[g].entry => Spent(e)' <= claim'[g].attempts
        BY <1>1 DEF Marking, OutboxTypeOK, Doing, ClaimRec
    <2>1. CASE g = h
        BY <1>1, <1>3, <1>6, <1>7, <2>1
    <2>2. CASE g # h
        <3>1. claim'[g] = claim[g] /\ Doing(g, "mark") /\ claim[g].attempts \in Nat
            BY <1>1, <2>2 DEF Doing, OutboxTypeOK, ClaimRec
        <3> QED BY <1>6, <3>1 DEF Marking
    <2> QED BY <2>1, <2>2
<1>9. Budgeted'
    BY <1>3, <1>5, <1>6 DEF Budgeted, OutboxTypeOK, EntryRec
<1> QED BY <1>2, <1>4, <1>8, <1>9

(* A send is marked under the lease: the entry is this process's, and no     *)
(* other process can mark one.                                               *)
LEMMA MarkSendingKeeps == ASSUME NEW h \in Hosts PROVE OutboxInv /\ MarkSending(h) => OutboxInv'
<1> SUFFICES ASSUME OutboxInv, MarkSending(h) PROVE OutboxInv'
    OBVIOUS
<1> USE DEF OutboxInv, MarkSending, World
<1> DEFINE mine == claim[h].entry
<1>1. /\ claim' \in [Hosts -> ClaimRec \cup {None}]
      /\ \A g \in Hosts \ {h} : claim'[g] = claim[g]
      /\ claim'[h] # None /\ claim'[h].entry = claim[h].entry
      /\ claim'[h].attempts = claim[h].attempts /\ claim'[h].pc = "send"
    BY GoesOn DEF Places, Doing
<1>2. /\ mine \in Entries /\ claim[h].attempts \in Nat /\ Budget \in Nat
      /\ claim[h].attempts < Budget /\ Spent(mine) <= claim[h].attempts
      /\ lane.owner = h /\ Mine(h) /\ entry[mine].attempts = claim[h].attempts
    BY OutboxAssumption DEF Doing, OutboxTypeOK, ClaimRec, Marking, Leaseholder, Current
<1>3. entry[mine] \in EntryRec /\ entry[mine].owner = h
    BY <1>2 DEF OutboxTypeOK, Mine
<1> DEFINE n      == entry[mine].attempts + 1
           marked == [entry[mine] EXCEPT !.state = "sending", !.attempts = n]
<1>4. /\ marked \in EntryRec /\ marked.state = "sending" /\ marked.owner = h
      /\ marked.attempts = claim[h].attempts + 1
    <2>1. n \in Nat
        BY <1>3 DEF EntryRec
    <2>2. n = claim[h].attempts + 1
        BY <1>2
    <2> HIDE DEF n
    <2>3. marked \in EntryRec
        BY <1>3, <2>1 DEF EntryRec, States
    <2>4. /\ marked.state = "sending" /\ marked.owner = entry[mine].owner
          /\ marked.attempts = n
        BY <1>3 DEF EntryRec
    <2> QED BY <1>3, <2>2, <2>3, <2>4
<1>5. entry' = [entry EXCEPT ![mine] = marked]
    BY <1>2 DEF OutboxTypeOK
<1> HIDE DEF marked
<1>6. marked # None /\ entry[mine] # None
    BY <1>2, <1>4, OutboxAssumption DEF Mine
<1>7. \A e \in Entries : entry'[e] = IF e = mine THEN marked ELSE entry[e]
    BY <1>2, <1>5 DEF OutboxTypeOK
<1>8. OutboxTypeOK'
    BY <1>1, <1>4, <1>5 DEF OutboxTypeOK
<1> HIDE DEF mine
<1>9. Confirmed'
    <2> SUFFICES ASSUME NEW e \in Entries, entry'[e] # None, entry'[e].state = "committed"
                 PROVE  /\ remote'[e] = "same"
                        /\ \A g \in Hosts : (claim'[g] # None /\ claim'[g].entry = e
                                              /\ entry'[e].owner = g) => claim'[g].pc = "end"
        BY DEF Confirmed
    <2>1. e # mine /\ entry'[e] = entry[e]
        BY <1>4, <1>7
    <2> QED BY <1>1, <2>1 DEF Confirmed, mine
<1>10. Leaseholder'
    BY <1>1, <1>2 DEF Leaseholder, Doing
<1>11. \A e \in Entries \ {mine} : Spent(e)' = Spent(e) /\ Sending(e)' = Sending(e)
    <2>1. \A e \in Entries \ {mine} : Sending(e)' = Sending(e)
        BY <1>1 DEF Sending, Doing, mine
    <2> QED BY <2>1 DEF Spent
<1>12. Spent(mine)' = Spent(mine) + 1
    <2>1. Sending(mine)' = Sending(mine) \cup {h} /\ h \notin Sending(mine)
        BY <1>1 DEF Sending, Doing, mine
    <2>2. IsFiniteSet(Sending(mine)) /\ Cardinality(Sending(mine)) \in Nat
        BY <1>2, SpentIsNat DEF mine
    <2>3. Cardinality(Sending(mine)') = Cardinality(Sending(mine)) + 1
        BY <2>1, <2>2, FS_AddElement
    <2>4. sent[mine] \in Nat /\ sent' = sent
        BY <1>2 DEF OutboxTypeOK, mine
    <2>5. mine' = mine
        BY <1>1 DEF mine
    <2> QED BY <2>2, <2>3, <2>4, <2>5 DEF Spent
<1>13. \A e \in Entries : Spent(e) \in Nat
    BY SpentIsNat
<1>16. mine' = mine
    BY <1>1 DEF mine
<1>14. Marking'
    BY <1>1, <1>2 DEF Marking, Doing
<1>15. Budgeted'
    <2> SUFFICES ASSUME NEW e \in Entries
                 PROVE  /\ Spent(e)' <= Budget
                        /\ (entry'[e] = None /\ remote'[e] = "absent") => Sending(e)' = {}
                        /\ (entry'[e] # None /\ remote'[e] = "absent") =>
                            Spent(e)' <= entry'[e].attempts
        BY DEF Budgeted
    <2>1. CASE e = mine
        <3>1. Spent(mine) + 1 <= Budget /\ Spent(mine) + 1 <= claim[h].attempts + 1
            BY <1>2, <1>13 DEF mine
        <3>2. Spent(e)' = Spent(mine) + 1
            BY <1>12, <1>16, <2>1
        <3>3. entry'[e] = marked
            BY <1>7, <2>1
        <3> QED BY <1>4, <1>6, <3>1, <3>2, <3>3
    <2>2. CASE e # mine
        BY <1>7, <1>11, <2>2 DEF Budgeted
    <2> QED BY <2>1, <2>2
<1> QED BY <1>8, <1>9, <1>10, <1>14, <1>15

(* The send itself may be late; it was spent when it was marked.             *)
LEMMA SendKeeps == ASSUME NEW h \in Hosts PROVE OutboxInv /\ Send(h) => OutboxInv'
<1> SUFFICES ASSUME OutboxInv, Send(h) PROVE OutboxInv'
    OBVIOUS
<1> USE DEF OutboxInv, Send
<1> DEFINE mine == claim[h].entry
<1>1. /\ claim' \in [Hosts -> ClaimRec \cup {None}]
      /\ \A g \in Hosts \ {h} : claim'[g] = claim[g]
      /\ claim'[h] # None /\ claim'[h].entry = claim[h].entry
      /\ claim'[h].attempts = claim[h].attempts /\ claim'[h].pc = "confirm"
    BY GoesOn DEF Places, Doing
<1>2. mine \in Entries
    BY DEF Doing, OutboxTypeOK, ClaimRec
<1>3. OutboxTypeOK'
    BY <1>1, <1>2 DEF OutboxTypeOK
<1>4. Confirmed' /\ Leaseholder'
    BY <1>1 DEF Confirmed, Leaseholder, Doing, Mine
<1>5. \A e \in Entries \ {mine} : Sending(e)' = Sending(e) /\ sent'[e] = sent[e]
    BY <1>1, <1>2 DEF Sending, Doing, OutboxTypeOK
<1>6. Sending(mine)' = Sending(mine) \ {h} /\ h \in Sending(mine)
    BY <1>1 DEF Sending, Doing
<1>7. mine' = mine
    BY <1>1
<1>8. sent'[mine] = sent[mine] + 1 /\ sent[mine] \in Nat
    BY <1>2 DEF OutboxTypeOK
<1>9. IsFiniteSet(Sending(mine)) /\ Cardinality(Sending(mine)) \in Nat
    BY <1>2, SpentIsNat
<1> HIDE DEF mine
<1>10. Spent(mine)' = Spent(mine)
    <2>1. Cardinality(Sending(mine)') = Cardinality(Sending(mine)) - 1
        BY <1>6, <1>9, FS_RemoveElement
    <2> QED BY <1>7, <1>8, <1>9, <2>1 DEF Spent
<1>11. \A e \in Entries : Spent(e)' = Spent(e) /\ Sending(e)' \subseteq Sending(e)
    BY <1>5, <1>6, <1>7, <1>10 DEF Spent
<1>12. Marking'
    BY <1>1, <1>11 DEF Marking, Doing, OutboxTypeOK, ClaimRec
<1>13. Budgeted'
    BY <1>11 DEF Budgeted
<1> QED BY <1>3, <1>4, <1>12, <1>13

----------------------------------------------------------------------------
(* What the other side, the user and the clock do.                           *)
LEMMA EnqueueKeeps == ASSUME NEW e \in Entries PROVE OutboxInv /\ Enqueue(e) => OutboxInv'
<1> SUFFICES ASSUME OutboxInv, Enqueue(e) PROVE OutboxInv'
    OBVIOUS
<1> USE DEF OutboxInv, Enqueue, World
<1> DEFINE new == [state |-> "pending", attempts |-> 0, wait |-> 0,
                   left |-> Retention, owner |-> None]
<1>1. /\ new \in EntryRec /\ new.state = "pending" /\ new.owner = None /\ new.attempts = 0
    BY OutboxAssumption DEF EntryRec, States
<1>2. entry' = [entry EXCEPT ![e] = new]
    OBVIOUS
<1> HIDE DEF new
<1>3. \A f \in Entries : entry'[f] = IF f = e THEN new ELSE entry[f]
    BY <1>2 DEF OutboxTypeOK
<1>4. OutboxTypeOK'
    BY <1>1, <1>2 DEF OutboxTypeOK
<1>5. Confirmed'
    <2> SUFFICES ASSUME NEW f \in Entries, entry'[f] # None, entry'[f].state = "committed"
                 PROVE  /\ remote'[f] = "same"
                        /\ \A g \in Hosts : (claim'[g] # None /\ claim'[g].entry = f
                                              /\ entry'[f].owner = g) => claim'[g].pc = "end"
        BY DEF Confirmed
    <2>1. f # e /\ entry'[f] = entry[f]
        BY <1>1, <1>3
    <2> QED BY <2>1 DEF Confirmed
<1>6. Leaseholder'
    <2> SUFFICES ASSUME NEW g \in Hosts, lane.owner = g, Doing(g, "lookup") \/ Doing(g, "mark")
                 PROVE  Mine(g)' /\ entry'[claim[g].entry].attempts = claim[g].attempts
        BY DEF Leaseholder, Doing
    <2>1. Mine(g) /\ entry[claim[g].entry].attempts = claim[g].attempts
          /\ claim[g].entry \in Entries
        BY DEF Leaseholder, Doing, OutboxTypeOK, ClaimRec
    <2>2. entry'[claim[g].entry] = entry[claim[g].entry]
        BY <1>3, <2>1 DEF Mine
    <2> QED BY <2>1, <2>2 DEF Mine
<1>7. \A f \in Entries : Sending(f)' = Sending(f)
    BY DEF Sending, Doing
<1>8. \A f \in Entries : sent'[f] <= sent[f] /\ sent[f] \in Nat /\ sent'[f] \in Nat
    BY DEF OutboxTypeOK
<1>9. \A f \in Entries : Spent(f)' <= Spent(f) /\ Spent(f) \in Nat /\ Spent(f)' \in Nat
    BY <1>4, <1>7, <1>8, SpentShrinks
<1>10. Marking'
    BY <1>9, OutboxAssumption DEF Marking, Doing, OutboxTypeOK, ClaimRec
<1>11. Budgeted'
    <2> SUFFICES ASSUME NEW f \in Entries
                 PROVE  /\ Spent(f)' <= Budget
                        /\ (entry'[f] = None /\ remote'[f] = "absent") => Sending(f)' = {}
                        /\ (entry'[f] # None /\ remote'[f] = "absent") =>
                            Spent(f)' <= entry'[f].attempts
        BY DEF Budgeted
    <2>1. Spent(f)' <= Budget
        BY <1>9, OutboxAssumption DEF Budgeted
    <2>2. CASE f # e
        BY <1>3, <1>7, <1>9, <2>1, <2>2 DEF Budgeted, OutboxTypeOK, EntryRec
    <2>3. CASE f = e
        <3>1. remote[f] = "absent" => Sending(f)' = {}
            BY <1>7, <2>3 DEF Budgeted
        <3>2. Sending(f)' = {} => Spent(f)' = 0
            BY <2>3, FS_EmptySet DEF Spent, OutboxTypeOK
        <3> QED BY <1>1, <1>3, <2>1, <2>3, <3>1, <3>2
    <2> QED BY <2>2, <2>3
<1> QED BY <1>4, <1>5, <1>6, <1>10, <1>11

(* A step that leaves what the deliveries rest on alone, whatever it does    *)
(* to the wire, and to a key that was free on the other side.                *)
LEMMA ElsewhereKeeps ==
    ASSUME OutboxInv, UNCHANGED <<entry, lane, claim, sent>>, wire' \subseteq Entries,
           remote' \in [Entries -> {"absent", "same", "other"}],
           \A e \in Entries : remote'[e] = remote[e] \/ (remote[e] = "absent" /\ remote'[e] # "absent")
    PROVE  OutboxInv'
<1> USE DEF OutboxInv
<1>1. OutboxTypeOK'
    BY DEF OutboxTypeOK
<1>2. Confirmed' /\ Leaseholder'
    BY DEF Confirmed, Leaseholder, Doing, Mine
<1>3. \A e \in Entries : Sending(e)' = Sending(e) /\ Spent(e)' = Spent(e)
    BY DEF Sending, Doing, Spent
<1>4. Marking'
    BY <1>3 DEF Marking, Doing, OutboxTypeOK, ClaimRec
<1>5. Budgeted'
    BY <1>3 DEF Budgeted
<1> QED BY <1>1, <1>2, <1>4, <1>5

(* The clock, an entry that is given up and one that is removed: no owner    *)
(* and no count of attempts changes.                                         *)
LEMMA EntriesAge ==
    ASSUME OutboxInv, UNCHANGED <<claim, wire, remote, sent>>,
           entry' \in [Entries -> EntryRec \cup {None}],
           \A e \in Entries :
              /\ entry[e] = None => entry'[e] = None
              /\ entry'[e] # None => /\ entry'[e].owner = entry[e].owner
                                     /\ entry'[e].attempts = entry[e].attempts
                                     /\ entry'[e].state \in {entry[e].state, "attention"}
              /\ (entry[e] # None /\ entry'[e] = None) => entry[e].state = "committed",
           lane' \in [owner : Hosts \cup {None}, left : Nat], lane'.owner = lane.owner
    PROVE  OutboxInv'
<1> USE DEF OutboxInv
<1>1. OutboxTypeOK'
    BY DEF OutboxTypeOK
<1>2. Confirmed'
    BY DEF Confirmed
<1>3. Leaseholder'
    <2> SUFFICES ASSUME NEW g \in Hosts, lane.owner = g, Doing(g, "lookup") \/ Doing(g, "mark")
                 PROVE  Mine(g)' /\ entry'[claim[g].entry].attempts = claim[g].attempts
        BY DEF Leaseholder, Doing
    <2>1. Mine(g) /\ entry[claim[g].entry].attempts = claim[g].attempts
          /\ claim[g].entry \in Entries /\ claim[g] # None /\ claim[g].pc # "end"
        BY DEF Leaseholder, Doing, OutboxTypeOK, ClaimRec
    <2>2. entry[claim[g].entry].state # "committed"
        BY <2>1 DEF Confirmed, Mine
    <2>3. entry'[claim[g].entry] # None
        BY <2>1, <2>2 DEF Mine
    <2> QED BY <2>1, <2>3 DEF Mine
<1>4. \A e \in Entries : Sending(e)' = Sending(e) /\ Spent(e)' = Spent(e)
    BY DEF Sending, Doing, Spent
<1>5. Marking'
    BY <1>4 DEF Marking, Doing, OutboxTypeOK, ClaimRec
<1>6. Budgeted'
    BY <1>4 DEF Budgeted, Confirmed
<1> QED BY <1>1, <1>2, <1>3, <1>5, <1>6

----------------------------------------------------------------------------
LEMMA InitHolds == OutboxInit => OutboxInv
<1> SUFFICES ASSUME OutboxInit PROVE OutboxInv
    OBVIOUS
<1> USE DEF OutboxInit
<1>1. OutboxTypeOK
    BY DEF OutboxTypeOK
<1>2. Confirmed /\ Leaseholder /\ Marking
    BY DEF Confirmed, Leaseholder, Marking, Doing
<1>3. \A e \in Entries : Sending(e) = {}
    BY DEF Sending, Doing
<1>4. \A e \in Entries : Spent(e) = 0
    BY <1>3, FS_EmptySet DEF Spent
<1>5. Budgeted
    BY <1>3, <1>4, OutboxAssumption DEF Budgeted
<1> QED BY <1>1, <1>2, <1>5 DEF OutboxInv

(* The ways a delivery goes on.                                              *)
LEMMA ProceedsKeeps == ASSUME NEW h \in Hosts PROVE OutboxInv /\ Proceeds(h) => OutboxInv'
<1> SUFFICES ASSUME OutboxInv, Proceeds(h) PROVE OutboxInv'
    OBVIOUS
<1> USE OutboxAssumption DEF World, States
<1>1. CASE FoundCommitted(h)
    <2>1. claim[h] # None /\ claim[h].pc # "end" /\ remote[claim[h].entry] = "same"
        BY <1>1 DEF FoundCommitted, Doing
    <2> QED BY <1>1, <2>1, OutcomeKeeps DEF FoundCommitted, State
<1>2. CASE FoundOther(h)
    BY <1>2, OutcomeKeeps DEF FoundOther, State, Doing
<1>3. CASE FoundUnclear(h)
    <2>1. claim[h] # None /\ claim[h].pc # "end"
        BY <1>3 DEF FoundUnclear, Doing
    <2> QED BY <1>3, <2>1, OutcomeKeeps DEF FoundUnclear, State
<1>4. CASE FoundAbsent(h)
    <2>1. Doing(h, "lookup") /\ claim[h] # None /\ claim[h].pc # "end"
        BY <1>4 DEF FoundAbsent, Doing
    <2>2. CASE claim[h].attempts >= Budget
        BY <1>4, <2>1, <2>2, OutcomeKeeps DEF FoundAbsent, State
    <2>3. CASE ~(claim[h].attempts >= Budget)
        BY <1>4, <2>1, <2>3, AbsentKeeps DEF FoundAbsent
    <2> QED BY <2>2, <2>3
<1>5. CASE MarkSending(h)
    BY <1>5, MarkSendingKeeps
<1>6. CASE Send(h)
    BY <1>6, SendKeeps
<1>7. CASE Uncertain(h)
    BY <1>7, OutcomeKeeps DEF Uncertain, ErrorState
<1>8. CASE Denied(h)
    BY <1>8, OutcomeKeeps DEF Denied, ErrorState
<1>9. CASE FenceLost(h)
    BY <1>9, OutcomeKeeps DEF FenceLost, ErrorState
<1>10. CASE End(h)
    BY <1>10, GoneKeeps DEF End
<1> QED BY <1>1, <1>2, <1>3, <1>4, <1>5, <1>6, <1>7, <1>8, <1>9, <1>10 DEF Proceeds

(* The ways an entry changes outside a delivery.                             *)
LEMMA GiveUpKeeps == ASSUME NEW e \in Entries PROVE OutboxInv /\ GiveUp(e) => OutboxInv'
<1> SUFFICES ASSUME OutboxInv, GiveUp(e) PROVE OutboxInv'
    OBVIOUS
<1> USE DEF GiveUp, World, OutboxInv, OutboxTypeOK
<1>1. entry[e] \in EntryRec
    BY DEF Deliverable
<1> DEFINE given == [entry[e] EXCEPT !.state = "attention"]
<1>2. /\ given \in EntryRec /\ given.state = "attention"
      /\ given.owner = entry[e].owner /\ given.attempts = entry[e].attempts
    BY <1>1 DEF EntryRec, States
<1>3. entry' = [entry EXCEPT ![e] = given]
    OBVIOUS
<1> HIDE DEF given
<1>4. \A f \in Entries : entry'[f] = IF f = e THEN given ELSE entry[f]
    BY <1>3
<1>5. entry' \in [Entries -> EntryRec \cup {None}]
    BY <1>2, <1>3
<1>6. given # None /\ entry[e] # None
    BY <1>1, <1>2, OutboxAssumption
<1> QED BY <1>2, <1>4, <1>5, <1>6, EntriesAge

LEMMA PurgeKeeps == ASSUME NEW e \in Entries PROVE OutboxInv /\ Purge(e) => OutboxInv'
<1> SUFFICES ASSUME OutboxInv, Purge(e) PROVE OutboxInv'
    OBVIOUS
<1> USE DEF Purge, World, OutboxInv, OutboxTypeOK
<1>1. \A f \in Entries : entry'[f] = IF f = e THEN None ELSE entry[f]
    OBVIOUS
<1> QED BY <1>1, EntriesAge

LEMMA TimePassesKeeps == OutboxInv /\ TimePasses => OutboxInv'
<1> SUFFICES ASSUME OutboxInv, TimePasses PROVE OutboxInv'
    OBVIOUS
<1>1. \A n \in Nat : Less(n) \in Nat
    BY DEF Less
<1>6. lane' \in [owner : Hosts \cup {None}, left : Nat] /\ lane'.owner = lane.owner
    <2> DEFINE l == Less(lane.left)
    <2>1. lane \in [owner : Hosts \cup {None}, left : Nat]
        BY DEF OutboxInv, OutboxTypeOK
    <2>2. lane' = [lane EXCEPT !.left = l]
        BY DEF TimePasses
    <2>3. l \in Nat
        BY <1>1, <2>1
    <2> HIDE DEF l
    <2> QED BY <2>1, <2>2, <2>3
<1> USE DEF TimePasses, World, OutboxInv, OutboxTypeOK
<1> DEFINE older(e) == [entry[e] EXCEPT !.wait = Less(@), !.left = Less(@)]
<1>2. \A e \in Entries : entry'[e] = IF entry[e] = None THEN None ELSE older(e)
    OBVIOUS
<1>3. ASSUME NEW e \in Entries, entry[e] # None
      PROVE  /\ older(e) \in EntryRec /\ older(e).state = entry[e].state
             /\ older(e).owner = entry[e].owner /\ older(e).attempts = entry[e].attempts
    <2>1. entry[e] \in EntryRec
        BY <1>3
    <2>2. Less(entry[e].wait) \in Nat /\ Less(entry[e].left) \in Nat
        BY <1>1, <2>1 DEF EntryRec
    <2> HIDE DEF Less
    <2> QED BY <2>1, <2>2 DEF EntryRec
<1> HIDE DEF older
<1>4. \A e \in Entries : entry[e] # None => older(e) # None
    BY <1>3, OutboxAssumption
<1>5. entry' \in [Entries -> EntryRec \cup {None}]
    <2>1. entry' = [e \in Entries |-> IF entry[e] = None THEN None ELSE older(e)]
        BY DEF older
    <2> QED BY <1>3, <2>1
<1> HIDE DEF TimePasses, World, OutboxTypeOK, OutboxInv
<1>7. \A e \in Entries :
        /\ entry[e] = None => entry'[e] = None
        /\ entry'[e] # None => /\ entry'[e].owner = entry[e].owner
                               /\ entry'[e].attempts = entry[e].attempts
                               /\ entry'[e].state \in {entry[e].state, "attention"}
        /\ (entry[e] # None /\ entry'[e] = None) => entry[e].state = "committed"
    BY <1>2, <1>3, <1>4
<1>8. UNCHANGED <<claim, wire, remote, sent>>
    BY DEF TimePasses, World
<1> QED BY <1>5, <1>6, <1>7, <1>8, EntriesAge

LEMMA Inductive == OutboxInv /\ [OutboxNext]_outboxVars => OutboxInv'
<1> SUFFICES ASSUME OutboxInv, [OutboxNext]_outboxVars PROVE OutboxInv'
    OBVIOUS
<1>0. wire \subseteq Entries /\ remote \in [Entries -> {"absent", "same", "other"}]
    BY DEF OutboxInv, OutboxTypeOK
<1>1. ASSUME NEW e \in Entries, Enqueue(e) PROVE OutboxInv'
    BY <1>1, EnqueueKeeps
<1>2. ASSUME NEW e \in Entries, Asked(e) PROVE OutboxInv'
    BY <1>2, GiveUpKeeps, ClaimKeeps DEF Asked
<1>3. ASSUME NEW e \in Entries, Purge(e) PROVE OutboxInv'
    BY <1>3, PurgeKeeps
<1>4. ASSUME NEW e \in Entries, Arrives(e) PROVE OutboxInv'
    <2>1. /\ wire' \subseteq Entries /\ remote' \in [Entries -> {"absent", "same", "other"}]
          /\ \A f \in Entries : remote'[f] = remote[f] \/ (remote[f] = "absent" /\ remote'[f] # "absent")
        BY <1>0, <1>4 DEF Arrives
    <2> QED BY <1>4, <2>1, ElsewhereKeeps DEF Arrives
<1>5. ASSUME NEW e \in Entries, Lost(e) PROVE OutboxInv'
    <2>1. /\ wire' \subseteq Entries /\ remote' \in [Entries -> {"absent", "same", "other"}]
          /\ \A f \in Entries : remote'[f] = remote[f] \/ (remote[f] = "absent" /\ remote'[f] # "absent")
        BY <1>0, <1>5 DEF Lost
    <2> QED BY <1>5, <2>1, ElsewhereKeeps DEF Lost
<1>6. ASSUME NEW e \in Entries, Taken(e) PROVE OutboxInv'
    <2>1. /\ wire' \subseteq Entries /\ remote' \in [Entries -> {"absent", "same", "other"}]
          /\ \A f \in Entries : remote'[f] = remote[f] \/ (remote[f] = "absent" /\ remote'[f] # "absent")
        BY <1>0, <1>6 DEF Taken
    <2> QED BY <1>6, <2>1, ElsewhereKeeps DEF Taken
<1>7. ASSUME NEW h \in Hosts, Proceeds(h) PROVE OutboxInv'
    BY <1>7, ProceedsKeeps
<1>8. ASSUME NEW h \in Hosts, Dies(h) PROVE OutboxInv'
    BY <1>8, GoneKeeps DEF Dies, World
<1>9. CASE TimePasses
    BY <1>9, TimePassesKeeps
<1>10. CASE UNCHANGED outboxVars
    <2>1. UNCHANGED <<entry, lane, claim, sent, wire, remote>>
        BY <1>10 DEF outboxVars
    <2> QED BY <1>0, <2>1, ElsewhereKeeps
<1> QED BY <1>1, <1>2, <1>3, <1>4, <1>5, <1>6, <1>7, <1>8, <1>9, <1>10 DEF OutboxNext

LEMMA Invariant == OutboxSpec => []OutboxInv
<1> QED BY InitHolds, Inductive, PTL DEF OutboxSpec

(* The budget is kept: however the leases expire and the processes stall     *)
(* and die, no entry is sent more often (dot_outbox.py:229-238).             *)
THEOREM SendsAreBounded == OutboxSpec => []WithinBudget
<1>1. OutboxInv => WithinBudget
    <2> SUFFICES ASSUME OutboxInv, NEW e \in Entries PROVE sent[e] <= Budget
        BY DEF WithinBudget
    <2>1. Cardinality(Sending(e)) \in Nat
        BY SpentIsNat DEF OutboxInv
    <2> QED BY <2>1, OutboxAssumption DEF Spent, OutboxInv, Budgeted, OutboxTypeOK
<1> QED BY <1>1, Invariant, PTL

----------------------------------------------------------------------------
(* A step of the outbox never takes a confirmed entry back, and removes no   *)
(* entry that was not confirmed.                                             *)
Lasting(e) ==
    /\ (entry[e] # None /\ entry[e].state = "committed") =>
            entry'[e] = None \/ entry'[e].state = "committed"
    /\ (entry[e] # None /\ entry'[e] = None) => remote[e] = "same"

(* What a delivery records: the entry is its own, so it is not confirmed.    *)
LEMMA OutcomeLasts ==
    ASSUME OutboxInv, NEW h \in Hosts, NEW s \in States, NEW w \in Nat,
           claim[h] # None, claim[h].pc # "end", Becomes(h, s, w) \/ UNCHANGED entry,
           NEW e \in Entries
    PROVE  Lasting(e)
<1>1. \/ entry'[e] = entry[e]
      \/ /\ e = claim[h].entry /\ entry[e] # None /\ entry[e].owner = h
         /\ entry'[e] # None
    BY Records DEF OutboxInv
<1> QED BY <1>1 DEF Lasting, OutboxInv, Confirmed

LEMMA ProceedsLasts == ASSUME OutboxInv, NEW h \in Hosts, Proceeds(h), NEW e \in Entries
                       PROVE  Lasting(e)
<1> USE OutboxAssumption DEF States
<1>1. CASE FoundCommitted(h)
    BY <1>1, OutcomeLasts DEF FoundCommitted, State, Doing
<1>2. CASE FoundOther(h)
    BY <1>2, OutcomeLasts DEF FoundOther, State, Doing
<1>3. CASE FoundUnclear(h)
    BY <1>3, OutcomeLasts DEF FoundUnclear, State, Doing
<1>4. CASE FoundAbsent(h)
    BY <1>4, OutcomeLasts DEF FoundAbsent, State, Doing
<1>5. CASE MarkSending(h)
    <2>1. claim[h] # None /\ claim[h].pc # "end"
        BY <1>5 DEF MarkSending, Doing
    <2>2. CASE Mine(h) /\ claim[h].entry = e
        <3>1. entry[e] # None /\ entry[e].state # "committed"
            BY <2>1, <2>2 DEF OutboxInv, Confirmed, Mine
        <3>2. entry[e] \in EntryRec
            BY <3>1 DEF OutboxInv, OutboxTypeOK
        <3> DEFINE n == entry[e].attempts + 1
        <3>3. entry'[e] = [entry[e] EXCEPT !.state = "sending", !.attempts = n]
            BY <1>5, <2>2 DEF MarkSending, OutboxInv, OutboxTypeOK
        <3>4. n \in Nat
            BY <3>2 DEF EntryRec
        <3> HIDE DEF n
        <3>5. entry'[e] \in EntryRec
            BY <3>2, <3>3, <3>4 DEF EntryRec
        <3>6. entry'[e] # None
            BY <3>5
        <3> QED BY <3>1, <3>6 DEF Lasting
    <2>3. CASE ~(Mine(h) /\ claim[h].entry = e)
        BY <1>5, <2>3 DEF MarkSending, Lasting, OutboxInv, OutboxTypeOK
    <2> QED BY <2>2, <2>3
<1>6. CASE Send(h)
    BY <1>6 DEF Send, Lasting
<1>7. CASE Uncertain(h)
    BY <1>7, OutcomeLasts DEF Uncertain, ErrorState
<1>8. CASE Denied(h)
    BY <1>8, OutcomeLasts DEF Denied, ErrorState
<1>9. CASE FenceLost(h)
    BY <1>9, OutcomeLasts DEF FenceLost, ErrorState
<1>10. CASE End(h)
    BY <1>10 DEF End, Lasting
<1> QED BY <1>1, <1>2, <1>3, <1>4, <1>5, <1>6, <1>7, <1>8, <1>9, <1>10 DEF Proceeds

LEMMA StepLasts == ASSUME OutboxInv, [OutboxNext]_outboxVars, NEW e \in Entries PROVE Lasting(e)
<1> DEFINE known == entry[e] # None => entry[e] \in EntryRec
<1>0. known
    BY DEF OutboxInv, OutboxTypeOK
<1>1. ASSUME NEW f \in Entries, Enqueue(f) PROVE Lasting(e)
    <2>1. entry[e] # None => entry'[e] = entry[e]
        BY <1>1 DEF Enqueue, OutboxInv, OutboxTypeOK
    <2> QED BY <2>1 DEF Lasting
<1>2. ASSUME NEW f \in Entries, GiveUp(f) PROVE Lasting(e)
    <2>1. CASE e # f
        BY <1>2, <2>1 DEF GiveUp, Lasting, OutboxInv, OutboxTypeOK
    <2>2. CASE e = f
        <3>1. entry'[e] = [entry[e] EXCEPT !.state = "attention"] /\ entry[e] \in EntryRec
              /\ entry[e].state # "committed"
            BY <1>2, <2>2 DEF GiveUp, Deliverable, Terminal, OutboxInv, OutboxTypeOK
        <3>2. entry'[e] \in EntryRec
            BY <3>1 DEF EntryRec, States
        <3> QED BY <3>1, <3>2, OutboxAssumption DEF Lasting
    <2> QED BY <2>1, <2>2
<1>3. ASSUME NEW f \in Entries, NEW h \in Hosts, Claim(h, f) PROVE Lasting(e)
    <2>1. CASE e # f
        BY <1>3, <2>1 DEF Claim, Lasting, OutboxInv, OutboxTypeOK
    <2>2. CASE e = f
        <3>1. entry'[e] = [entry[e] EXCEPT !.state = "checking_receipt", !.owner = h]
              /\ entry[e] \in EntryRec /\ entry[e].state # "committed"
            BY <1>3, <2>2 DEF Claim, Deliverable, Terminal, OutboxInv, OutboxTypeOK
        <3>2. entry'[e] \in EntryRec
            BY <3>1 DEF EntryRec, States
        <3> QED BY <3>1, <3>2, OutboxAssumption DEF Lasting
    <2> QED BY <2>1, <2>2
<1>4. ASSUME NEW f \in Entries, Purge(f) PROVE Lasting(e)
    BY <1>4 DEF Purge, Lasting, OutboxInv, OutboxTypeOK, Confirmed
<1>5. ASSUME NEW f \in Entries, Arrives(f) \/ Lost(f) \/ Taken(f) PROVE Lasting(e)
    BY <1>5 DEF Arrives, Lost, Taken, Lasting
<1>6. ASSUME NEW h \in Hosts, Proceeds(h) PROVE Lasting(e)
    BY <1>6, ProceedsLasts
<1>7. ASSUME NEW h \in Hosts, Dies(h) PROVE Lasting(e)
    BY <1>7 DEF Dies, Lasting
<1>8. CASE TimePasses
    <2>1. CASE entry[e] = None
        BY <2>1 DEF Lasting
    <2>2. CASE entry[e] # None
        <3> DEFINE w == Less(entry[e].wait)
                   l == Less(entry[e].left)
        <3>1. entry'[e] = [entry[e] EXCEPT !.wait = w, !.left = l]
            BY <1>8, <2>2 DEF TimePasses
        <3>2. entry[e] \in EntryRec /\ w \in Nat /\ l \in Nat
            BY <1>0, <2>2 DEF EntryRec, Less
        <3> HIDE DEF w, l
        <3>3. entry'[e] \in EntryRec /\ entry'[e].state = entry[e].state
            BY <3>1, <3>2 DEF EntryRec
        <3> QED BY <3>3, OutboxAssumption DEF Lasting
    <2> QED BY <2>1, <2>2
<1>9. CASE UNCHANGED outboxVars
    BY <1>9 DEF outboxVars, Lasting
<1> QED BY <1>1, <1>2, <1>3, <1>4, <1>5, <1>6, <1>7, <1>8, <1>9 DEF OutboxNext, Asked

(* The outbox forgets nothing: what counts as committed is committed on the  *)
(* other side under this very body, no late writer takes that back, and      *)
(* nothing else is ever removed (dot_outbox.py:176-195, 223-244, 271-276).   *)
THEOREM CommittedIsKept == OutboxSpec => CommittedIsTrue
<1>1. OutboxInv /\ OutboxInv' /\ [OutboxNext]_outboxVars =>
        [\A e \in Entries :
          /\ (entry'[e] # None /\ entry'[e].state = "committed") => remote'[e] = "same"
          /\ (entry[e] # None /\ entry[e].state = "committed") =>
                entry'[e] = None \/ entry'[e].state = "committed"
          /\ (entry[e] # None /\ entry'[e] = None) => remote[e] = "same"]_outboxVars
    BY StepLasts DEF Lasting, OutboxInv, Confirmed
<1> QED BY <1>1, Invariant, PTL DEF OutboxSpec, CommittedIsTrue

----------------------------------------------------------------------------
(***************************************************************************)
(* The slots of the Hub's dispatch: their balance through every            *)
(* cancellation, and the order in which a device's requests are sent, for  *)
(* any set of devices and operations and any number of slots.  The         *)
(* argument: a pipeline is a line of requests in the order of creation,    *)
(* a producer is where its pipeline believes it to be, and what the        *)
(* semaphore has, what it has handed over and what requests hold make up   *)
(* all the slots.                                                          *)
(***************************************************************************)

(* A set of naturals has a least member.                                    *)
LEMMA LeastOf ==
    ASSUME NEW T, T \subseteq Nat, T # {}
    PROVE  \E n \in T : \A m \in T : n <= m
<1>1. PICK n \in T : \A m \in T : <<m, n>> \notin OpToRel(<, Nat)
    BY NatLessThanWellFounded, WFMin
<1>2. \A m \in T : ~(m < n)
    BY <1>1 DEF OpToRel
<1> QED BY <1>2

(* A semaphore: nobody waits twice, and only who waits was handed a slot.   *)
Semaphore == [free : Nat, waiters : Seq(Ids), handed : SUBSET Ids]
Sound(s) ==
    /\ s \in Semaphore
    /\ \A m, n \in DOMAIN s.waiters : m # n => s.waiters[m] # s.waiters[n]
    /\ s.handed \subseteq ToSet(s.waiters)

(* The slots that are free or on their way to a waiter.                     *)
Value(s) == s.free + Cardinality(s.handed)

LEMMA ValueType ==
    ASSUME NEW s, Sound(s)
    PROVE  /\ IsFiniteSet(s.handed) /\ Cardinality(s.handed) \in Nat /\ s.free \in Nat
           /\ Value(s) \in Nat
<1>1. s.handed \subseteq Ids /\ s.free \in Nat
    BY DEF Sound, Semaphore
<1>2. IsFiniteSet(s.handed) /\ Cardinality(s.handed) \in Nat
    BY <1>1, DispatchAssumption, FS_Subset, FS_CardinalityType
<1> QED BY <1>1, <1>2 DEF Value

(* No more than n of those who sleep have fewer than n before them.         *)
LEMMA WokenBound ==
    ASSUME NEW s, Sound(s), NEW n \in Nat
    PROVE  /\ IsFiniteSet(Woken(s, n)) /\ Woken(s, n) \subseteq Sleeping(s)
           /\ Cardinality(Woken(s, n)) \in Nat /\ Cardinality(Woken(s, n)) <= n
<1> DEFINE W == Woken(s, n)
           q == s.waiters
<1>1. s.waiters \in Seq(Ids) /\ Sleeping(s) \subseteq Ids
    BY DEF Sound, Semaphore, Sleeping, ToSet
<1>2. W \subseteq Sleeping(s) /\ IsFiniteSet(Sleeping(s)) /\ IsFiniteSet(W) /\ Cardinality(W) \in Nat
    BY <1>1, DispatchAssumption, FS_Subset, FS_CardinalityType DEF Woken
<1>3. CASE W = {}
    BY <1>2, <1>3, FS_EmptySet
<1>4. CASE W # {}
    <2> DEFINE P == {m \in DOMAIN q : q[m] \in W}
    <2>1. P \subseteq Nat /\ P # {} /\ \A m \in P : m <= Len(q)
        BY <1>1, <1>2, <1>4, LenProperties DEF Sleeping, ToSet
    <2>2. PICK m \in P : \A k \in P : k <= m
        <3> DEFINE T == {Len(q) - k : k \in P}
        <3>1. T \subseteq Nat /\ T # {}
            <4>1. Len(q) \in Nat
                BY <1>1, LenProperties
            <4>2. \A k \in P : Len(q) - k \in Nat
                BY <4>1, <2>1
            <4> QED BY <2>1, <4>2
        <3>2. PICK t \in T : \A k \in T : t <= k
            BY <3>1, LeastOf
        <3>3. PICK m \in P : t = Len(q) - m
            BY <3>2
        <3>4. \A k \in P : Len(q) - m <= Len(q) - k
            BY <3>2, <3>3
        <3> QED BY <1>1, <2>1, <3>4, LenProperties
    <2>3. PICK i : i = q[m]
        OBVIOUS
    <2> DEFINE B == {j \in Sleeping(s) : Before(q, j, i)}
    <2>4. i \in W /\ Cardinality(B) < n
        BY <2>2, <2>3 DEF Woken
    <2>5. W \ {i} \subseteq B
        <3>1. ASSUME NEW j \in W \ {i} PROVE j \in B
            <4>1. PICK k \in DOMAIN q : q[k] = j
                BY <1>2 DEF Sleeping, ToSet
            <4>2. k \in P /\ k # m
                BY <2>3, <3>1, <4>1
            <4>3. k < m
                BY <2>1, <2>2, <4>2
            <4> QED BY <1>2, <2>2, <2>3, <4>1, <4>3 DEF Before
        <3> QED BY <3>1
    <2>6. IsFiniteSet(B) /\ Cardinality(B) \in Nat
        BY <1>2, FS_Subset, FS_CardinalityType
    <2>7. Cardinality(W \ {i}) <= Cardinality(B) /\ Cardinality(W \ {i}) = Cardinality(W) - 1
        BY <1>2, <2>4, <2>5, <2>6, FS_Subset, FS_RemoveElement
    <2> QED BY <1>2, <2>4, <2>6, <2>7
<1> QED BY <1>3, <1>4, <1>2

LEMMA WakeUpKeeps ==
    ASSUME NEW s, Sound(s), NEW n \in Nat, n <= s.free
    PROVE  /\ Sound(WakeUp(s, n)) /\ Value(WakeUp(s, n)) = Value(s)
           /\ WakeUp(s, n).waiters = s.waiters
<1>1. PICK W : W = Woken(s, n)
    OBVIOUS
<1>2. /\ IsFiniteSet(W) /\ W \subseteq Sleeping(s) /\ Cardinality(W) \in Nat
      /\ Cardinality(W) <= n
    BY <1>1, WokenBound
<1>3. s \in Semaphore /\ s.handed \subseteq Ids /\ W \subseteq ToSet(s.waiters) /\ W \cap s.handed = {}
      /\ ToSet(s.waiters) \subseteq Ids
    BY <1>2 DEF Sound, Semaphore, Sleeping, ToSet
<1>4. PICK t : t = WakeUp(s, n)
    OBVIOUS
<1>5. /\ t.waiters = s.waiters /\ t.free = s.free - Cardinality(W) /\ t.handed = s.handed \cup W
      /\ t = [free |-> s.free - Cardinality(W), waiters |-> s.waiters, handed |-> s.handed \cup W]
    BY <1>1, <1>3, <1>4 DEF WakeUp, Semaphore
<1>6. /\ IsFiniteSet(s.handed) /\ Cardinality(s.handed) \in Nat /\ s.free \in Nat
    BY ValueType
<1>7. Cardinality(s.handed \cup W) = Cardinality(s.handed) + Cardinality(W)
    <2>1. Cardinality(s.handed \cup W)
            = Cardinality(s.handed) + Cardinality(W) - Cardinality(s.handed \cap W)
        BY <1>2, <1>6, FS_Union
    <2>2. s.handed \cap W = {}
        BY <1>3
    <2>3. Cardinality(s.handed \cap W) = 0
        BY <2>2, FS_EmptySet
    <2> QED BY <1>2, <1>6, <2>1, <2>3
<1>8. Sound(t)
    BY <1>2, <1>3, <1>5, <1>6 DEF Sound, Semaphore
<1>9. Value(t) = Value(s)
    BY <1>2, <1>5, <1>6, <1>7 DEF Value
<1> QED BY <1>4, <1>5, <1>8, <1>9

LEMMA GiveBackAdds ==
    ASSUME NEW s, Sound(s), NEW n \in Nat
    PROVE  /\ Sound(GiveBack(s, n)) /\ Value(GiveBack(s, n)) = Value(s) + n
           /\ GiveBack(s, n).waiters = s.waiters
<1>1. PICK t : t = [s EXCEPT !.free = @ + n]
    OBVIOUS
<1>2. /\ s \in Semaphore /\ s.free \in Nat /\ s.waiters \in Seq(Ids) /\ s.handed \in SUBSET Ids
      /\ Cardinality(s.handed) \in Nat
    BY ValueType DEF Sound, Semaphore
<1>3. PICK f : f = s.free + n
    OBVIOUS
<1>5. t = [free |-> f, waiters |-> s.waiters, handed |-> s.handed]
    BY <1>1, <1>2, <1>3 DEF Semaphore
<1>6. f \in Nat
    BY <1>2, <1>3
<1>7. /\ t.waiters = s.waiters /\ t.free = s.free + n /\ t.handed = s.handed
      /\ t \in Semaphore
    BY <1>2, <1>3, <1>5, <1>6 DEF Semaphore
<1>4. Sound(t) /\ Value(t) = Value(s) + n /\ n <= t.free
    BY <1>2, <1>7 DEF Sound, Value
<1> QED BY <1>1, <1>7, <1>4, WakeUpKeeps DEF GiveBack

(* What is left of a queue that i has left.                                 *)
Single(q) == \A m, n \in DOMAIN q : m # n => q[m] # q[n]

LEMMA WithoutOne ==
    ASSUME NEW q \in Seq(Ids), Single(q), NEW k \in DOMAIN q
    PROVE  /\ RemoveAt(q, k) \in Seq(Ids) /\ Single(RemoveAt(q, k))
           /\ ToSet(RemoveAt(q, k)) = ToSet(q) \ {q[k]}
<1>1. k \in 1..Len(q) /\ Len(q) \in Nat /\ DOMAIN q = 1..Len(q)
    BY LenProperties
<1>2. PICK left : left = SubSeq(q, 1, k - 1)
    OBVIOUS
<1>3. PICK right : right = SubSeq(q, k + 1, Len(q))
    OBVIOUS
<1>4. /\ left \in Seq(Ids) /\ Len(left) = k - 1
      /\ \A j \in 1..k - 1 : left[j] = q[j]
    BY <1>1, <1>2, SubSeqProperties
<1>5. /\ right \in Seq(Ids) /\ Len(right) = Len(q) - k
      /\ \A j \in 1..Len(q) - k : right[j] = q[k + j]
    BY <1>1, <1>3, SubSeqProperties
<1>6. PICK r : r = left \o right
    OBVIOUS
<1>7. r = RemoveAt(q, k)
    BY <1>2, <1>3, <1>6 DEF RemoveAt
<1>8. /\ r \in Seq(Ids) /\ DOMAIN r = 1..Len(q) - 1
      /\ \A j \in 1..Len(q) - 1 : r[j] = IF j < k THEN q[j] ELSE q[j + 1]
    <2>1. /\ r \in Seq(Ids) /\ Len(r) = Len(q) - 1
          /\ \A j \in 1..Len(left) + Len(right) :
                r[j] = IF j <= Len(left) THEN left[j] ELSE right[j - Len(left)]
        <3>1. Len(left) + Len(right) = Len(q) - 1
            BY <1>1, <1>4, <1>5
        <3>2. /\ left \o right \in Seq(Ids) /\ Len(left \o right) = Len(left) + Len(right)
              /\ \A j \in 1..Len(left) + Len(right) :
                    (left \o right)[j] = IF j <= Len(left) THEN left[j] ELSE right[j - Len(left)]
            <4>1. left \in Seq(Ids) /\ right \in Seq(Ids)
                BY <1>4, <1>5
            <4> QED BY <4>1, ConcatProperties
        <3> QED BY <1>6, <3>1, <3>2
    <2>2. DOMAIN r = 1..Len(q) - 1
        BY <2>1, LenProperties
    <2>3. ASSUME NEW j \in 1..Len(q) - 1 PROVE r[j] = IF j < k THEN q[j] ELSE q[j + 1]
        <3>1. CASE j < k
            <4>1. j \in 1..k - 1 /\ j \in 1..Len(left) + Len(right) /\ j <= Len(left)
                BY <1>1, <1>4, <1>5, <2>3, <3>1
            <4> QED BY <1>4, <2>1, <3>1, <4>1
        <3>2. CASE ~(j < k)
            <4>1. /\ j \in 1..Len(left) + Len(right) /\ ~(j <= Len(left))
                  /\ j - Len(left) \in 1..Len(q) - k /\ k + (j - Len(left)) = j + 1
                BY <1>1, <1>4, <1>5, <2>3, <3>2
            <4>2. right[j - Len(left)] = q[k + (j - Len(left))]
                BY <1>5, <4>1
            <4> QED BY <2>1, <3>2, <4>1, <4>2
        <3> QED BY <3>1, <3>2
    <2> QED BY <2>1, <2>2, <2>3
<1> DEFINE at(j) == IF j < k THEN j ELSE j + 1
<1>9. \A j \in 1..Len(q) - 1 : at(j) \in 1..Len(q) /\ at(j) # k /\ r[j] = q[at(j)]
    BY <1>1, <1>8
<1>10. Single(r)
    <2>1. ASSUME NEW m \in DOMAIN r, NEW n \in DOMAIN r, m # n PROVE r[m] # r[n]
        <3>1. m \in 1..Len(q) - 1 /\ n \in 1..Len(q) - 1 /\ at(m) # at(n)
            BY <1>1, <1>8, <2>1
        <3>2. q[at(m)] # q[at(n)]
            BY <1>1, <1>9, <3>1 DEF Single
        <3> QED BY <1>9, <3>1, <3>2
    <2> QED BY <2>1 DEF Single
<1>11. ToSet(r) = ToSet(q) \ {q[k]}
    <2>1. ASSUME NEW x \in ToSet(r) PROVE x \in ToSet(q) \ {q[k]}
        <3>1. PICK j \in 1..Len(q) - 1 : x = r[j]
            BY <1>8 DEF ToSet
        <3>2. x = q[at(j)] /\ at(j) \in 1..Len(q) /\ at(j) # k
            BY <1>9, <3>1
        <3> QED BY <1>1, <3>2 DEF ToSet, Single
    <2>2. ASSUME NEW x \in ToSet(q) \ {q[k]} PROVE x \in ToSet(r)
        <3>1. PICK n \in 1..Len(q) : x = q[n] /\ n # k
            BY <1>1 DEF ToSet
        <3>2. CASE n < k
            BY <1>1, <1>8, <3>1, <3>2 DEF ToSet
        <3>3. CASE n > k
            <4>1. n - 1 \in 1..Len(q) - 1 /\ ~(n - 1 < k) /\ (n - 1) + 1 = n
                BY <1>1, <3>1, <3>3
            <4>2. r[n - 1] = x
                BY <1>8, <3>1, <4>1
            <4> QED BY <1>8, <4>1, <4>2 DEF ToSet
        <3> QED BY <1>1, <3>1, <3>2, <3>3
    <2> QED BY <2>1, <2>2
<1> QED BY <1>7, <1>8, <1>10, <1>11

LEMMA NoLongerKeeps ==
    ASSUME NEW s, Sound(s), NEW i \in ToSet(s.waiters)
    PROVE  /\ Sound(NoLonger(s, i)) /\ NoLonger(s, i).free = s.free
           /\ ToSet(NoLonger(s, i).waiters) = ToSet(s.waiters) \ {i}
           /\ Value(NoLonger(s, i)) = Value(s) - (IF i \in s.handed THEN 1 ELSE 0)
<1>1. /\ s \in Semaphore /\ s.free \in Nat /\ s.waiters \in Seq(Ids) /\ s.handed \in SUBSET Ids
      /\ s.handed \subseteq ToSet(s.waiters) /\ Single(s.waiters)
    BY DEF Sound, Semaphore, Single
<1>2. PICK k : k = CHOOSE n \in DOMAIN s.waiters : s.waiters[n] = i
    OBVIOUS
<1>3. k \in DOMAIN s.waiters /\ s.waiters[k] = i
    BY <1>2 DEF ToSet
<1>4. PICK r : r = RemoveAt(s.waiters, k)
    OBVIOUS
<1>5. r \in Seq(Ids) /\ Single(r) /\ ToSet(r) = ToSet(s.waiters) \ {i}
    BY <1>1, <1>3, <1>4, WithoutOne
<1>6. PICK t : t = NoLonger(s, i)
    OBVIOUS
<1>7. t = [free |-> s.free, waiters |-> r, handed |-> s.handed \ {i}]
    BY <1>1, <1>2, <1>4, <1>6 DEF NoLonger, Semaphore
<1>8. t.free = s.free /\ t.waiters = r /\ t.handed = s.handed \ {i} /\ t \in Semaphore
    BY <1>1, <1>5, <1>7 DEF Semaphore
<1>9. Sound(t)
    BY <1>1, <1>5, <1>8 DEF Sound, Single
<1>10. Value(t) = Value(s) - (IF i \in s.handed THEN 1 ELSE 0)
    <2>1. IsFiniteSet(s.handed) /\ Cardinality(s.handed) \in Nat
        BY ValueType
    <2>2. CASE i \in s.handed
        <3>1. Cardinality(s.handed \ {i}) = Cardinality(s.handed) - 1
            BY <2>1, <2>2, FS_RemoveElement
        <3> QED BY <1>1, <1>8, <2>1, <2>2, <3>1 DEF Value
    <2>3. CASE i \notin s.handed
        <3>1. s.handed \ {i} = s.handed
            BY <2>3
        <3>2. t.handed = s.handed
            BY <1>8, <3>1
        <3>3. Value(t) = Value(s)
            BY <1>8, <3>2 DEF Value
        <3>4. Value(s) \in Nat
            BY ValueType
        <3> QED BY <2>3, <3>3, <3>4
    <2> QED BY <2>2, <2>3
<1> QED BY <1>5, <1>6, <1>8, <1>9, <1>10

LEMMA ResumedKeeps ==
    ASSUME NEW s, Sound(s), NEW i \in s.handed
    PROVE  /\ Sound(Resumed(s, i)) /\ Value(Resumed(s, i)) = Value(s) - 1
           /\ ToSet(Resumed(s, i).waiters) = ToSet(s.waiters) \ {i}
<1>1. PICK t : t = NoLonger(s, i)
    OBVIOUS
<1>2. /\ i \in ToSet(s.waiters) /\ Sound(t) /\ Value(t) = Value(s) - 1
      /\ ToSet(t.waiters) = ToSet(s.waiters) \ {i}
    BY <1>1, NoLongerKeeps DEF Sound
<1>3. CASE t.free > 0
    <2>1. 1 <= t.free
        BY <1>2, <1>3, ValueType
    <2> QED BY <1>1, <1>2, <1>3, <2>1, WakeUpKeeps DEF Resumed
<1>4. CASE ~(t.free > 0)
    BY <1>1, <1>2, <1>4 DEF Resumed
<1> QED BY <1>3, <1>4

LEMMA WithdrawnKeeps ==
    ASSUME NEW s, Sound(s), NEW i \in ToSet(s.waiters)
    PROVE  /\ Sound(Withdrawn(s, i)) /\ Value(Withdrawn(s, i)) = Value(s)
           /\ ToSet(Withdrawn(s, i).waiters) = ToSet(s.waiters) \ {i}
<1>1. PICK t : t = NoLonger(s, i)
    OBVIOUS
<1>2. /\ Sound(t) /\ Value(t) = Value(s) - (IF i \in s.handed THEN 1 ELSE 0)
      /\ ToSet(t.waiters) = ToSet(s.waiters) \ {i}
    BY <1>1, NoLongerKeeps
<1>3. Value(s) \in Nat /\ Value(t) \in Nat
    BY <1>2, ValueType
<1>4. CASE i \in s.handed
    <2>1. Withdrawn(s, i) = GiveBack(t, 1)
        BY <1>1, <1>4 DEF Withdrawn
    <2>2. PICK w : w = GiveBack(t, 1)
        OBVIOUS
    <2>3. Sound(w) /\ Value(w) = Value(t) + 1 /\ w.waiters = t.waiters
        BY <1>2, <2>2, GiveBackAdds
    <2>4. Value(w) = Value(s)
        BY <1>2, <1>3, <1>4, <2>3
    <2> QED BY <1>2, <2>1, <2>2, <2>3, <2>4
<1>5. CASE i \notin s.handed
    BY <1>1, <1>2, <1>3, <1>5 DEF Withdrawn
<1> QED BY <1>4, <1>5

(* One more in the queue.                                                   *)
LEMMA QueuedKeeps ==
    ASSUME NEW s, Sound(s), NEW i \in Ids, i \notin ToSet(s.waiters)
    PROVE  LET t == [s EXCEPT !.waiters = Append(@, i)]
           IN Sound(t) /\ Value(t) = Value(s) /\ ToSet(t.waiters) = ToSet(s.waiters) \cup {i}
<1>1. /\ s \in Semaphore /\ s.free \in Nat /\ s.waiters \in Seq(Ids) /\ s.handed \in SUBSET Ids
      /\ s.handed \subseteq ToSet(s.waiters) /\ Single(s.waiters)
    BY DEF Sound, Semaphore, Single
<1>2. PICK r : r = Append(s.waiters, i)
    OBVIOUS
<1>3. Len(s.waiters) \in Nat /\ DOMAIN s.waiters = 1..Len(s.waiters)
    BY <1>1, LenProperties
<1>4. /\ r \in Seq(Ids) /\ Len(r) = Len(s.waiters) + 1 /\ DOMAIN r = 1..Len(s.waiters) + 1
      /\ \A j \in 1..Len(s.waiters) : r[j] = s.waiters[j]
      /\ r[Len(s.waiters) + 1] = i
    BY <1>1, <1>2, <1>3, AppendProperties, LenProperties
<1>5. ToSet(r) = ToSet(s.waiters) \cup {i}
    <2>1. \A j \in DOMAIN r : j \in DOMAIN s.waiters \/ j = Len(s.waiters) + 1
        BY <1>3, <1>4
    <2>2. DOMAIN s.waiters \subseteq DOMAIN r /\ Len(s.waiters) + 1 \in DOMAIN r
        BY <1>3, <1>4
    <2> QED BY <1>3, <1>4, <2>1, <2>2 DEF ToSet
<1>6. Single(r)
    <2>1. \A j \in DOMAIN s.waiters : s.waiters[j] # i
        BY DEF ToSet
    <2>2. ASSUME NEW m \in DOMAIN r, NEW n \in DOMAIN r, m # n PROVE r[m] # r[n]
        <3>1. CASE m \in DOMAIN s.waiters /\ n \in DOMAIN s.waiters
            <4>1. r[m] = s.waiters[m] /\ r[n] = s.waiters[n]
                BY <1>3, <1>4, <3>1
            <4> QED BY <1>1, <2>2, <3>1, <4>1 DEF Single
        <3>2. CASE m \in DOMAIN s.waiters /\ n \notin DOMAIN s.waiters
            <4>1. r[m] = s.waiters[m] /\ n = Len(s.waiters) + 1
                BY <1>3, <1>4, <2>2, <3>2
            <4> QED BY <1>4, <2>1, <3>2, <4>1
        <3>3. CASE m \notin DOMAIN s.waiters
            <4>1. m = Len(s.waiters) + 1 /\ n \in DOMAIN s.waiters
                BY <1>3, <1>4, <2>2, <3>3
            <4>2. r[n] = s.waiters[n]
                BY <1>3, <1>4, <4>1
            <4> QED BY <1>4, <2>1, <4>1, <4>2
        <3> QED BY <3>1, <3>2, <3>3
    <2> QED BY <2>2 DEF Single
<1>7. PICK t : t = [s EXCEPT !.waiters = Append(@, i)]
    OBVIOUS
<1>8. t = [free |-> s.free, waiters |-> r, handed |-> s.handed]
    BY <1>1, <1>2, <1>7 DEF Semaphore
<1>9. t.free = s.free /\ t.waiters = r /\ t.handed = s.handed /\ t \in Semaphore
    BY <1>1, <1>4, <1>8 DEF Semaphore
<1>10. Sound(t) /\ Value(t) = Value(s)
    BY <1>1, <1>5, <1>6, <1>9 DEF Sound, Single, Value
<1> QED BY <1>5, <1>7, <1>9, <1>10

LEMMA TakenKeeps ==
    ASSUME NEW s, Sound(s), s.free > 0
    PROVE  LET t == [s EXCEPT !.free = @ - 1]
           IN Sound(t) /\ Value(t) = Value(s) - 1 /\ t.waiters = s.waiters
<1>1. /\ s \in Semaphore /\ s.free \in Nat /\ s.waiters \in Seq(Ids) /\ s.handed \in SUBSET Ids
      /\ Cardinality(s.handed) \in Nat
    BY ValueType DEF Sound, Semaphore
<1>2. PICK t : t = [s EXCEPT !.free = @ - 1]
    OBVIOUS
<1>3. PICK f : f = s.free - 1
    OBVIOUS
<1>4. t = [free |-> f, waiters |-> s.waiters, handed |-> s.handed] /\ f \in Nat
    BY <1>1, <1>2, <1>3 DEF Semaphore
<1>5. t.free = s.free - 1 /\ t.waiters = s.waiters /\ t.handed = s.handed /\ t \in Semaphore
    BY <1>1, <1>3, <1>4 DEF Semaphore
<1>6. Sound(t) /\ Value(t) = Value(s) - 1
    BY <1>1, <1>5 DEF Sound, Value
<1> QED BY <1>2, <1>5, <1>6

----------------------------------------------------------------------------
(* A pipeline: what it has taken on and what is still to come, in order.    *)
PipePlaces == {"none", "new", "head", "sending", "failing", "closing"}
AtHead == {"head", "sending", "failing"}
Pipeline == [place : PipePlaces, rest : Seq(Ids), pending : Seq(Ids), head : Ids \cup {NoId}]

Line(p) == p.pending \o p.rest

Orderly(p, d) ==
    /\ p \in Pipeline
    /\ p.head # NoId <=> p.place \in AtHead
    /\ p.place = "none" => p = NoPipe
    /\ p.place = "new" => p.pending = <<>>
    /\ Ascends(Line(p))
    /\ \A i \in ToSet(Line(p)) : Device[i] = d /\ (p.head # NoId => p.head < i)
    /\ p.head # NoId => Device[p.head] = d

(* Requests that have a slot of their own.                                  *)
Keeps == {"preparing", "taken"} \cup Leased
Held  == {i \in Ids : prod[i] \in Keeps}

DispatchTypes ==
    /\ loop \in {"top", "reading", "read", "waiting", "closing", "ended"}
    /\ operation \in [Ids -> RowStates]
    /\ found \in [Devices -> Seq(Ids)]
    /\ pipe \in [Devices -> Pipeline]
    /\ prod \in [Ids -> ProdStates]
    /\ doomed \subseteq Ids /\ active \subseteq Devices /\ cut \subseteq Devices
    /\ {stopping, cancelled} \subseteq BOOLEAN /\ dropped \in Nat

Pipelines == \A d \in Devices : Orderly(pipe[d], d)

(* Each producer has a pipeline that answers for it, and is where that      *)
(* pipeline believes it to be.                                              *)
Answered ==
    \A i \in Ids :
        LET p == pipe[Device[i]] IN
        /\ prod[i] # "idle" <=> i \in Started(p)
        /\ prod[i] = "taken" => p.head = i /\ p.place \in {"sending", "failing"}
        /\ p.head = i /\ p.place = "sending" => prod[i] = "taken"
        /\ p.head = i /\ p.place = "failing" => prod[i] \in {"taken", "failed"}

SlotsKept ==
    /\ Sound(slots) /\ ToSet(slots.waiters) = {i \in Ids : prod[i] = "waiting"}
    /\ Value(slots) + Cardinality(Held) + dropped = Slots

(* A device whose pipeline lives is active; what the loop has found is for  *)
(* devices that are not.                                                    *)
Looked ==
    /\ \A d \in Devices : pipe[d].place # "none" => d \in active
    /\ loop = "read" => \A d \in Devices :
            /\ found[d] # <<>> => d \notin active
            /\ Ascends(found[d]) /\ \A i \in ToSet(found[d]) : Device[i] = d

Stops == (cancelled \/ cut # {} \/ dropped > 0) => stopping

DispatchInv == DispatchTypes /\ Pipelines /\ Answered /\ SlotsKept /\ Looked /\ Stops

----------------------------------------------------------------------------
LEMMA SetOf ==
    ASSUME NEW S, NEW s \in Seq(S)
    PROVE  ToSet(s) \subseteq S
BY LenProperties DEF ToSet

LEMMA SetOfBoth ==
    ASSUME NEW S, NEW s \in Seq(S), NEW t \in Seq(S)
    PROVE  ToSet(s \o t) = ToSet(s) \cup ToSet(t)
<1>1. PICK r : r = s \o t
    OBVIOUS
<1>2. /\ r \in Seq(S) /\ Len(r) = Len(s) + Len(t)
      /\ \A i \in 1..Len(s) + Len(t) : r[i] = IF i <= Len(s) THEN s[i] ELSE t[i - Len(s)]
    BY <1>1, ConcatProperties
<1>3. /\ Len(s) \in Nat /\ Len(t) \in Nat /\ DOMAIN s = 1..Len(s) /\ DOMAIN t = 1..Len(t)
      /\ DOMAIN r = 1..Len(s) + Len(t)
    BY <1>2, LenProperties
<1>4. ASSUME NEW x \in ToSet(r) PROVE x \in ToSet(s) \cup ToSet(t)
    <2>1. PICK i \in 1..Len(s) + Len(t) : x = r[i]
        BY <1>3, <1>4 DEF ToSet
    <2>2. CASE i <= Len(s)
        BY <1>2, <1>3, <2>1, <2>2 DEF ToSet
    <2>3. CASE ~(i <= Len(s))
        <3>1. i - Len(s) \in 1..Len(t)
            BY <1>3, <2>1, <2>3
        <3> QED BY <1>2, <1>3, <2>1, <2>3, <3>1 DEF ToSet
    <2> QED BY <2>2, <2>3
<1>5. ASSUME NEW x \in ToSet(s) PROVE x \in ToSet(r)
    <2>1. PICK i \in 1..Len(s) : x = s[i]
        BY <1>3, <1>5 DEF ToSet
    <2>2. i \in 1..Len(s) + Len(t) /\ i <= Len(s)
        BY <1>3, <2>1
    <2> QED BY <1>2, <1>3, <2>1, <2>2 DEF ToSet
<1>6. ASSUME NEW x \in ToSet(t) PROVE x \in ToSet(r)
    <2>1. PICK i \in 1..Len(t) : x = t[i]
        BY <1>3, <1>6 DEF ToSet
    <2>2. Len(s) + i \in 1..Len(s) + Len(t) /\ ~(Len(s) + i <= Len(s)) /\ (Len(s) + i) - Len(s) = i
        BY <1>3, <2>1
    <2>3. r[Len(s) + i] = t[i]
        BY <1>2, <2>2
    <2> QED BY <1>3, <2>1, <2>2, <2>3 DEF ToSet
<1> QED BY <1>1, <1>4, <1>5, <1>6

(* Producers are started in the order of the line, which stays as it was.   *)
LEMMA FilledIs ==
    ASSUME NEW p \in Pipeline
    PROVE  LET f == Filled(p) IN
           /\ f \in Pipeline /\ f.place = p.place /\ f.head = p.head
           /\ Line(f) = Line(p) /\ ToSet(p.pending) \subseteq ToSet(f.pending)
<1>1. PICK n : n = IF stopping \/ Len(p.pending) >= Prefetch THEN 0
                   ELSE Smaller(Prefetch - Len(p.pending), Len(p.rest))
    OBVIOUS
<1>2. /\ p.rest \in Seq(Ids) /\ p.pending \in Seq(Ids) /\ Len(p.rest) \in Nat
      /\ Len(p.pending) \in Nat /\ p.place \in PipePlaces /\ p.head \in Ids \cup {NoId}
    BY LenProperties DEF Pipeline
<1>3. n \in 0..Len(p.rest)
    <2>1. CASE stopping \/ Len(p.pending) >= Prefetch
        BY <1>1, <1>2, <2>1
    <2>2. CASE ~(stopping \/ Len(p.pending) >= Prefetch)
        <3>1. Prefetch \in Nat
            BY DispatchAssumption
        <3>2. Prefetch - Len(p.pending) \in Nat
            BY <1>2, <2>2, <3>1
        <3> QED BY <1>1, <1>2, <2>2, <3>2 DEF Smaller
    <2> QED BY <2>1, <2>2
<1>4. PICK a : a = SubSeq(p.rest, 1, n)
    OBVIOUS
<1>5. PICK b : b = SubSeq(p.rest, n + 1, Len(p.rest))
    OBVIOUS
<1>6. a \in Seq(Ids) /\ b \in Seq(Ids) /\ a \o b = p.rest
    <2>1. \A i \in 1..Len(p.rest) : p.rest[i] \in Ids
        BY <1>2, ElementOfSeq
    <2>2. a \in Seq(Ids)
        BY <1>2, <1>3, <1>4, <2>1, SubSeqProperties
    <2>3. b \in Seq(Ids)
        BY <1>2, <1>3, <1>5, <2>1, SubSeqProperties
    <2>4. a \o b = SubSeq(p.rest, 1, Len(p.rest))
        <3>1. /\ 1 \in 1..Len(p.rest) + 1 /\ n \in 1 - 1..Len(p.rest)
              /\ Len(p.rest) \in n..Len(p.rest)
            BY <1>2, <1>3
        <3> QED BY <1>2, <1>4, <1>5, <3>1, ConcatAdjacentSubSeq
    <2> QED BY <1>2, <2>2, <2>3, <2>4, SubSeqFull
<1>7. p.pending \o a \in Seq(Ids) /\ (p.pending \o a) \o b = p.pending \o (a \o b)
    <2>1. PICK c : c = p.pending
        OBVIOUS
    <2>2. c \in Seq(Ids) /\ a \in Seq(Ids) /\ b \in Seq(Ids)
        BY <1>2, <1>6, <2>1
    <2>3. c \o a \in Seq(Ids)
        BY <2>2, ConcatProperties
    <2>4. (c \o a) \o b = c \o (a \o b)
        BY <2>2, ConcatAssociative
    <2> QED BY <2>1, <2>3, <2>4
<1>8. PICK f : f = Filled(p)
    OBVIOUS
<1>9. f = [place |-> p.place, rest |-> b, pending |-> p.pending \o a, head |-> p.head]
    BY <1>1, <1>2, <1>4, <1>5, <1>8 DEF Filled, Pipeline
<1>10. f \in Pipeline /\ f.place = p.place /\ f.head = p.head /\ Line(f) = Line(p)
    BY <1>2, <1>6, <1>7, <1>9 DEF Pipeline, Line
<1>11. ToSet(p.pending) \subseteq ToSet(f.pending)
    <2>1. f.pending = p.pending \o a
        BY <1>9
    <2> QED BY <1>2, <1>6, <2>1, SetOfBoth
<1> QED BY <1>8, <1>10, <1>11

(* The first of a line goes out, and the others come after it.              *)
LEMMA FirstOut ==
    ASSUME NEW a \in Seq(Ids), NEW b \in Seq(Ids), a # <<>>, Ascends(a \o b)
    PROVE  /\ Head(a) \in ToSet(a) /\ Head(a) \in Ids /\ Tail(a) \in Seq(Ids)
           /\ Ascends(Tail(a) \o b)
           /\ \A i \in ToSet(Tail(a) \o b) : Head(a) < i /\ i \in ToSet(a \o b)
           /\ ToSet(a) = ToSet(Tail(a)) \cup {Head(a)}
<1>1. PICK t : t = Tail(a)
    OBVIOUS
<1>2. Len(a) \in Nat /\ Len(b) \in Nat /\ Len(a) > 0 /\ DOMAIN a = 1..Len(a)
    BY LenProperties, EmptySeq
<1>3. /\ t \in Seq(Ids) /\ Len(t) = Len(a) - 1 /\ \A i \in 1..Len(a) - 1 : t[i] = a[i + 1]
      /\ Head(a) = a[1] /\ DOMAIN t = 1..Len(a) - 1
    BY <1>1, <1>2, HeadTailProperties, LenProperties
<1>4. PICK l : l = a \o b
    OBVIOUS
<1>5. PICK r : r = t \o b
    OBVIOUS
<1>6. /\ l \in Seq(Ids) /\ DOMAIN l = 1..Len(a) + Len(b)
      /\ \A i \in 1..Len(a) + Len(b) : l[i] = IF i <= Len(a) THEN a[i] ELSE b[i - Len(a)]
    <2>1. /\ l \in Seq(Ids) /\ Len(l) = Len(a) + Len(b)
          /\ \A i \in 1..Len(a) + Len(b) : l[i] = IF i <= Len(a) THEN a[i] ELSE b[i - Len(a)]
        BY <1>4, ConcatProperties
    <2> QED BY <2>1, LenProperties
<1>7. /\ r \in Seq(Ids) /\ Len(r) = Len(t) + Len(b) /\ DOMAIN r = 1..Len(t) + Len(b)
      /\ \A i \in 1..Len(t) + Len(b) : r[i] = IF i <= Len(t) THEN t[i] ELSE b[i - Len(t)]
    <2>1. /\ r \in Seq(Ids) /\ Len(r) = Len(t) + Len(b)
          /\ \A i \in 1..Len(t) + Len(b) : r[i] = IF i <= Len(t) THEN t[i] ELSE b[i - Len(t)]
        BY <1>3, <1>5, ConcatProperties
    <2> QED BY <2>1, LenProperties
<1>8. ASSUME NEW i \in DOMAIN r PROVE i + 1 \in DOMAIN l /\ r[i] = l[i + 1]
    <2>1. i \in 1..Len(a) + Len(b) - 1 /\ i + 1 \in 1..Len(a) + Len(b)
        BY <1>2, <1>3, <1>7
    <2>2. CASE i <= Len(t)
        <3>1. i \in 1..Len(a) - 1 /\ i + 1 <= Len(a)
            BY <1>2, <1>3, <2>1, <2>2
        <3> QED BY <1>3, <1>6, <1>7, <2>1, <2>2, <3>1
    <2>3. CASE ~(i <= Len(t))
        <3>1. ~(i + 1 <= Len(a)) /\ (i + 1) - Len(a) = i - Len(t)
            BY <1>2, <1>3, <2>1, <2>3
        <3> QED BY <1>6, <1>7, <2>1, <2>3, <3>1
    <2> QED BY <2>2, <2>3
<1>9. Ascends(r)
    <2>1. ASSUME NEW m \in DOMAIN r, NEW n \in DOMAIN r, m < n PROVE r[m] < r[n]
        <3>1. m + 1 \in DOMAIN l /\ n + 1 \in DOMAIN l /\ m + 1 < n + 1
            BY <1>3, <1>7, <1>8, <2>1
        <3> QED BY <1>4, <1>8, <3>1 DEF Ascends
    <2> QED BY <2>1 DEF Ascends
<1>10. ASSUME NEW i \in ToSet(r) PROVE Head(a) < i /\ i \in ToSet(l)
    <2>1. PICK n \in DOMAIN r : i = r[n]
        BY <1>10 DEF ToSet
    <2>2. n + 1 \in DOMAIN l /\ i = l[n + 1] /\ 1 < n + 1 /\ 1 \in DOMAIN l /\ l[1] = a[1]
        BY <1>2, <1>6, <1>7, <1>8, <2>1
    <2> QED BY <1>3, <1>4, <2>2 DEF Ascends, ToSet
<1>11. ToSet(a) = ToSet(t) \cup {Head(a)}
    <2>1. ASSUME NEW i \in ToSet(a) PROVE i \in ToSet(t) \cup {Head(a)}
        <3>1. PICK n \in 1..Len(a) : i = a[n]
            BY <1>2, <2>1 DEF ToSet
        <3>2. CASE n # 1
            <4>1. n - 1 \in 1..Len(a) - 1 /\ (n - 1) + 1 = n
                BY <1>2, <3>1, <3>2
            <4> QED BY <1>3, <3>1, <4>1 DEF ToSet
        <3> QED BY <1>3, <3>1, <3>2
    <2>2. ASSUME NEW i \in ToSet(t) PROVE i \in ToSet(a)
        <3>1. PICK n \in 1..Len(a) - 1 : i = t[n]
            BY <1>3, <2>2 DEF ToSet
        <3>2. n + 1 \in 1..Len(a)
            BY <1>2, <3>1
        <3> QED BY <1>2, <1>3, <3>1, <3>2 DEF ToSet
    <2>3. Head(a) \in ToSet(a)
        BY <1>2, <1>3 DEF ToSet
    <2> QED BY <2>1, <2>2, <2>3
<1>12. Head(a) \in Ids
    BY <1>2, <1>3, ElementOfSeq
<1> QED BY <1>1, <1>3, <1>4, <1>5, <1>9, <1>10, <1>11, <1>12

(* A turn of the loop.                                                      *)
LEMMA TurnIs ==
    ASSUME NEW d \in Devices, NEW p, Orderly(p, d)
    PROVE  LET t == Turn(p) IN
           /\ Orderly(t, d) /\ t.place \in {"head", "closing"}
           /\ ToSet(p.pending) \subseteq Started(t) /\ Started(t) \subseteq ToSet(Line(p))
<1>1. PICK f : f = Filled(p)
    OBVIOUS
<1>2. p \in Pipeline
    BY DEF Orderly
<1>3. /\ f \in Pipeline /\ f.place = p.place /\ f.head = p.head
      /\ Line(f) = Line(p) /\ ToSet(p.pending) \subseteq ToSet(f.pending)
    BY <1>1, <1>2, FilledIs
<1>4. /\ f.pending \in Seq(Ids) /\ f.rest \in Seq(Ids) /\ Line(f) = f.pending \o f.rest
      /\ ToSet(f.pending) \subseteq ToSet(Line(p))
    <2>1. f.pending \in Seq(Ids) /\ f.rest \in Seq(Ids) /\ Line(f) = f.pending \o f.rest
        BY <1>3 DEF Pipeline, Line
    <2> QED BY <1>3, <2>1, SetOfBoth
<1>5. PICK t : t = Turn(p)
    OBVIOUS
<1>6. CASE f.pending # <<>> /\ ~stopping
    <2>1. t = [place |-> "head", rest |-> f.rest, pending |-> Tail(f.pending),
               head |-> Head(f.pending)]
        BY <1>1, <1>3, <1>5, <1>6 DEF Turn, Pipeline
    <2>2. /\ Head(f.pending) \in Ids /\ Tail(f.pending) \in Seq(Ids)
          /\ Ascends(Tail(f.pending) \o f.rest)
          /\ \A i \in ToSet(Tail(f.pending) \o f.rest) : Head(f.pending) < i /\ i \in ToSet(Line(p))
          /\ ToSet(f.pending) = ToSet(Tail(f.pending)) \cup {Head(f.pending)}
        BY <1>3, <1>4, <1>6, FirstOut DEF Orderly
    <2>3. t \in Pipeline /\ Line(t) = Tail(f.pending) \o f.rest /\ t.place = "head"
          /\ t.head = Head(f.pending) /\ t.pending = Tail(f.pending)
        BY <1>4, <2>1, <2>2 DEF Pipeline, PipePlaces, Line
    <2>4. Started(t) = ToSet(f.pending) /\ t.head # NoId
        BY <2>2, <2>3, DispatchAssumption DEF Started
    <2>5. t.head \in ToSet(Line(p))
        BY <1>4, <2>2, <2>3
    <2>6. Orderly(t, d)
        BY <2>2, <2>3, <2>4, <2>5 DEF Orderly, AtHead
    <2> QED BY <1>3, <1>4, <1>5, <2>3, <2>4, <2>6
<1>7. CASE ~(f.pending # <<>> /\ ~stopping)
    <2>1. t = [place |-> "closing", rest |-> f.rest, pending |-> f.pending, head |-> NoId]
        BY <1>1, <1>3, <1>5, <1>7 DEF Turn, Pipeline
    <2>2. t \in Pipeline /\ Line(t) = Line(p) /\ t.place = "closing" /\ t.head = NoId
          /\ t.pending = f.pending
        BY <1>3, <1>4, <2>1 DEF Pipeline, PipePlaces, Line
    <2>3. Started(t) = ToSet(f.pending)
        BY <2>2 DEF Started
    <2>4. Orderly(t, d)
        BY <2>2 DEF Orderly, AtHead
    <2> QED BY <1>3, <1>4, <1>5, <2>2, <2>3, <2>4
<1> QED BY <1>6, <1>7

----------------------------------------------------------------------------
LEMMA HeldFinite ==
    ASSUME DispatchInv
    PROVE  IsFiniteSet(Held) /\ Cardinality(Held) \in Nat /\ Slots \in Nat
BY FS_Subset, FS_CardinalityType, DispatchAssumption DEF Held

LEMMA HeldLess ==
    ASSUME DispatchInv, NEW S, S \subseteq Held, Held' = Held \ S
    PROVE  /\ IsFiniteSet(S) /\ Cardinality(S) \in Nat /\ Cardinality(Held') \in Nat
           /\ Cardinality(Held') = Cardinality(Held) - Cardinality(S)
<1>1. IsFiniteSet(Held) /\ IsFiniteSet(S) /\ Cardinality(Held) \in Nat /\ Cardinality(S) \in Nat
    BY HeldFinite, FS_Subset, FS_CardinalityType
<1>2. Held \cap S = S
    OBVIOUS
<1>3. Cardinality(Held \ S) = Cardinality(Held) - Cardinality(Held \cap S) /\ IsFiniteSet(Held \ S)
    BY <1>1, FS_Difference
<1> QED BY <1>1, <1>2, <1>3, FS_CardinalityType

LEMMA HeldMore ==
    ASSUME DispatchInv, NEW i, i \notin Held, Held' = Held \cup {i}
    PROVE  Cardinality(Held') = Cardinality(Held) + 1
BY HeldFinite, FS_AddElement

(* A pipeline's requests are of its device.                                 *)
LEMMA OnlyOwn ==
    ASSUME DispatchInv, NEW i \in Ids, NEW d \in Devices, i \in Started(pipe[d]) \cup ToSet(Line(pipe[d]))
    PROVE  Device[i] = d
<1>1. Orderly(pipe[d], d)
    BY DEF DispatchInv, Pipelines
<1>2. i # NoId /\ pipe[d].pending \in Seq(Ids) /\ pipe[d].rest \in Seq(Ids)
    BY <1>1, DispatchAssumption DEF Orderly, Pipeline
<1>3. ToSet(Line(pipe[d])) = ToSet(pipe[d].pending) \cup ToSet(pipe[d].rest)
    BY <1>2, SetOfBoth DEF Line
<1> QED BY <1>1, <1>2, <1>3 DEF Orderly, Started

(* The pipeline of d becomes t: what t has and it had not is started, and   *)
(* its head is let go.                                                      *)
TurnsInto(d, t, from) ==
    /\ Orderly(t, d) /\ t.place \in {"head", "closing"} /\ pipe[d].place # "none"
    /\ ToSet(pipe[d].pending) \subseteq Started(t) /\ Started(t) \subseteq ToSet(Line(pipe[d]))
    /\ from = {pipe[d].head} \ {NoId} /\ \A i \in from : prod[i] # "waiting"
    /\ pipe'[d] = t /\ \A e \in Devices \ {d} : pipe'[e] = pipe[e]
    /\ prod' \in [Ids -> ProdStates]
    /\ \A i \in Ids : prod'[i] = IF i \in Started(t) \ Started(pipe[d]) THEN "created"
                                  ELSE IF i \in from THEN "idle" ELSE prod[i]

LEMMA PipeGoesOn ==
    ASSUME DispatchInv, NEW d \in Devices, NEW t, NEW from, TurnsInto(d, t, from)
    PROVE  /\ Pipelines' /\ Answered'
           /\ Held' = Held \ from
           /\ {i \in Ids : prod'[i] = "waiting"} = {i \in Ids : prod[i] = "waiting"}
           /\ \A e \in Devices : pipe'[e].place # "none" => pipe[e].place # "none"
<1> DEFINE p == pipe[d]  new == Started(t) \ Started(p)
<1> USE DEF TurnsInto
<1>1. /\ Orderly(p, d) /\ p \in Pipeline /\ pipe \in [Devices -> Pipeline] /\ prod \in [Ids -> ProdStates]
      /\ p.pending \in Seq(Ids) /\ p.rest \in Seq(Ids) /\ t \in Pipeline /\ NoId \notin Ids
      /\ Device \in [Ids -> Devices] /\ Ids \subseteq Nat
    BY DispatchAssumption DEF DispatchInv, Pipelines, DispatchTypes, Orderly, Pipeline
<1>2. pipe'[d] = t /\ \A e \in Devices \ {d} : pipe'[e] = pipe[e]
    OBVIOUS
<1>3. Pipelines'
    BY <1>2 DEF DispatchInv, Pipelines
<1>4. ToSet(Line(p)) \subseteq Ids /\ from \subseteq Ids /\ Started(p) = ToSet(p.pending) \cup from
      /\ Started(p) \subseteq Ids
    <2>1. p.pending \o p.rest \in Seq(Ids)
        BY <1>1, ConcatProperties
    <2>2. ToSet(p.pending) \subseteq Ids
        BY <1>1, SetOf
    <2>3. p.head \in Ids \cup {NoId}
        BY <1>1 DEF Pipeline
    <2> QED BY <2>1, <2>2, <2>3, SetOf DEF Line, Started
<1>5. from \cap ToSet(Line(p)) = {}
    <2>1. ASSUME NEW i \in from, i \in ToSet(Line(p)) PROVE FALSE
        <3>1. i = p.head /\ p.head # NoId /\ p.head < i /\ i \in Nat
            BY <1>1, <1>4, <2>1 DEF Orderly
        <3> QED BY <3>1
    <2> QED BY <2>1
<1>6. ASSUME NEW i \in Ids
      PROVE  /\ i \in new => prod'[i] = "created" /\ prod[i] = "idle" /\ i \notin from
             /\ i \in from => prod'[i] = "idle" /\ i \notin new
             /\ i \notin new \cup from => prod'[i] = prod[i]
    <2>1. i \in new => prod[i] = "idle"
        <3>1. ASSUME i \in new PROVE prod[i] = "idle"
            <4>1. Device[i] = d
                BY <3>1, <1>1, <1>4, OnlyOwn
            <4> QED BY <3>1, <4>1 DEF DispatchInv, Answered
        <3> QED BY <3>1
    <2> QED BY <1>5, <2>1
<1>8. ASSUME NEW i \in Ids PROVE prod'[i] # "idle" <=> i \in Started(pipe'[Device[i]])
    <2>1. CASE Device[i] = d
        <3>1. prod[i] # "idle" <=> i \in Started(p)
            BY <2>1 DEF DispatchInv, Answered
        <3>2. i \in Started(t) <=> i \in new \/ (i \in Started(p) /\ i \notin from)
            BY <1>4, <1>5
        <3> QED BY <1>2, <1>6, <2>1, <3>1, <3>2
    <2>2. CASE Device[i] # d
        <3>1. i \notin new /\ i \notin from
            BY <1>1, <1>4, <2>2, OnlyOwn
        <3>2. pipe'[Device[i]] = pipe[Device[i]]
            BY <1>1, <1>2, <2>2
        <3> QED BY <1>6, <3>1, <3>2 DEF DispatchInv, Answered
    <2> QED BY <2>1, <2>2
<1>9. ASSUME NEW i \in Ids
      PROVE  LET q == pipe'[Device[i]] IN
             /\ prod'[i] = "taken" => q.head = i /\ q.place \in {"sending", "failing"}
             /\ q.head = i /\ q.place = "sending" => prod'[i] = "taken"
             /\ q.head = i /\ q.place = "failing" => prod'[i] \in {"taken", "failed"}
    <2>1. CASE Device[i] = d
        <3>1. prod'[i] # "taken"
            <4>1. ASSUME prod[i] = "taken" PROVE i \in from
                BY <1>1, <2>1, <4>1 DEF DispatchInv, Answered
            <4> QED BY <1>6, <4>1
        <3> QED BY <1>2, <2>1, <3>1
    <2>2. CASE Device[i] # d
        <3>1. i \notin new /\ i \notin from
            BY <1>1, <1>4, <2>2, OnlyOwn
        <3>2. pipe'[Device[i]] = pipe[Device[i]] /\ prod'[i] = prod[i]
            BY <1>1, <1>2, <1>6, <2>2, <3>1
        <3> QED BY <3>2 DEF DispatchInv, Answered
    <2> QED BY <2>1, <2>2
<1>10. Held' = Held \ from
    BY <1>6 DEF Held, Keeps, Leased
<1>11. {i \in Ids : prod'[i] = "waiting"} = {i \in Ids : prod[i] = "waiting"}
    BY <1>6
<1>12. \A e \in Devices : pipe'[e].place # "none" => pipe[e].place # "none"
    BY <1>2
<1> QED BY <1>2, <1>3, <1>8, <1>9, <1>10, <1>11, <1>12 DEF Answered

(* The pipeline of d lets its head go and waits for what it had started.    *)
LEMMA PipeUnwinds ==
    ASSUME DispatchInv, NEW d \in Devices, pipe[d].place \in AtHead,
           prod[pipe[d].head] # "waiting",
           pipe' = [pipe EXCEPT ![d].place = "closing", ![d].head = NoId],
           prod' = [i \in Ids |-> IF i \in {pipe[d].head} THEN "idle" ELSE prod[i]]
    PROVE  /\ pipe' \in [Devices -> Pipeline] /\ prod' \in [Ids -> ProdStates]
           /\ Pipelines' /\ Answered'
           /\ Held' = Held \ {pipe[d].head}
           /\ {i \in Ids : prod'[i] = "waiting"} = {i \in Ids : prod[i] = "waiting"}
           /\ \A e \in Devices : pipe'[e].place # "none" => pipe[e].place # "none"
<1>1. PICK p : p = pipe[d]
    OBVIOUS
<1>2. /\ Orderly(p, d) /\ p \in Pipeline /\ p.place \in AtHead /\ p.head # NoId
      /\ p.pending \in Seq(Ids) /\ p.rest \in Seq(Ids)
    BY <1>1 DEF DispatchInv, Pipelines, Orderly, Pipeline
<1>3. PICK t : t = [place |-> "closing", rest |-> p.rest, pending |-> p.pending, head |-> NoId]
    OBVIOUS
<1>4. /\ t \in Pipeline /\ t.place = "closing" /\ t.head = NoId /\ t.pending = p.pending
      /\ Line(t) = Line(p)
    BY <1>2, <1>3 DEF Pipeline, PipePlaces, Line
<1>5. Started(t) = ToSet(p.pending) /\ Started(t) \subseteq Started(p)
    BY <1>4 DEF Started
<1>6. Orderly(t, d)
    BY <1>2, <1>4 DEF Orderly, AtHead
<1>7. ToSet(p.pending) \subseteq ToSet(Line(p))
    BY <1>2, SetOfBoth DEF Line
<1>8. /\ pipe'[d] = t /\ (\A e \in Devices \ {d} : pipe'[e] = pipe[e])
      /\ pipe' \in [Devices -> Pipeline]
    <2>1. pipe \in [Devices -> Pipeline]
        BY DEF DispatchInv, DispatchTypes
    <2>7. PICK e : e = [p EXCEPT !.place = "closing", !.head = NoId]
        OBVIOUS
    <2>8. e = [place |-> "closing", rest |-> p.rest, pending |-> p.pending, head |-> NoId]
        BY <1>2, <2>7 DEF Pipeline
    <2>2. [p EXCEPT !.place = "closing", !.head = NoId] = t
        BY <1>3, <2>7, <2>8
    <2>3. pipe' = [pipe EXCEPT ![d] = [p EXCEPT !.place = "closing", !.head = NoId]]
        BY <1>1, <2>1
    <2>4. pipe' = [pipe EXCEPT ![d] = t]
        BY <2>2, <2>3
    <2> QED BY <1>4, <2>1, <2>4
<1>9. PICK from : from = {p.head}
    OBVIOUS
<1>10. from = {pipe[d].head} \ {NoId} /\ \A i \in from : prod[i] # "waiting"
    BY <1>1, <1>2, <1>9
<1>11. /\ \A i \in Ids : prod'[i] = IF i \in Started(t) \ Started(pipe[d]) THEN "created"
                                     ELSE IF i \in from THEN "idle" ELSE prod[i]
       /\ prod' \in [Ids -> ProdStates]
    <2>1. prod \in [Ids -> ProdStates]
        BY DEF DispatchInv, DispatchTypes
    <2>2. prod' \in [Ids -> ProdStates]
        BY <2>1 DEF ProdStates
    <2> QED BY <1>1, <1>5, <1>9, <2>2
<1>12. pipe[d].place # "none"
    BY DEF AtHead
<1>13. /\ Started(t) \subseteq ToSet(Line(pipe[d])) /\ ToSet(pipe[d].pending) \subseteq Started(t)
       /\ t.place \in {"head", "closing"}
    BY <1>1, <1>4, <1>5, <1>7
<1>14. /\ Pipelines' /\ Answered'
       /\ Held' = Held \ from
       /\ {i \in Ids : prod'[i] = "waiting"} = {i \in Ids : prod[i] = "waiting"}
       /\ \A e \in Devices : pipe'[e].place # "none" => pipe[e].place # "none"
    <2>1. TurnsInto(d, t, from)
        BY <1>6, <1>8, <1>10, <1>11, <1>12, <1>13 DEF TurnsInto
    <2> QED BY <2>1, PipeGoesOn
<1> QED BY <1>1, <1>8, <1>9, <1>11, <1>14

LEMMA NoPipeIs ==
    ASSUME NEW d \in Devices
    PROVE  /\ Orderly(NoPipe, d) /\ Started(NoPipe) = {} /\ NoPipe.place = "none"
           /\ NoPipe \in Pipeline
<1>1. ToSet(<<>>) = {}
    BY DEF ToSet
<1>2. /\ NoPipe \in Pipeline /\ NoPipe.place = "none" /\ NoPipe.head = NoId
      /\ NoPipe.pending = <<>> /\ NoPipe.rest = <<>>
    BY EmptySeq DEF NoPipe, Pipeline, PipePlaces
<1>3. Started(NoPipe) = {}
    BY <1>1, <1>2 DEF Started
<1>4. Line(NoPipe) = <<>>
    BY <1>2, EmptySeq, ConcatEmptySeq DEF Line
<1>5. Orderly(NoPipe, d)
    BY <1>1, <1>2, <1>4 DEF Orderly, Ascends, AtHead
<1> QED BY <1>2, <1>3, <1>5

(* A clean-up ends the pipeline of d and everything it had started.         *)
LEMMA PipeEnds ==
    ASSUME DispatchInv, NEW d \in Devices, pipe[d].place = "closing",
           NEW mine, mine = ToSet(pipe[d].pending),
           \A i \in mine : prod[i] # "waiting",
           pipe' = [pipe EXCEPT ![d] = NoPipe],
           prod' = [i \in Ids |-> IF i \in mine THEN "idle" ELSE prod[i]]
    PROVE  /\ pipe' \in [Devices -> Pipeline] /\ prod' \in [Ids -> ProdStates]
           /\ Pipelines' /\ Answered'
           /\ mine \subseteq Ids /\ Held' = Held \ mine
           /\ {i \in Ids : prod'[i] = "waiting"} = {i \in Ids : prod[i] = "waiting"}
           /\ \A e \in Devices : pipe'[e].place # "none" => pipe[e].place # "none"
<1>1. PICK p : p = pipe[d]
    OBVIOUS
<1>2. /\ Orderly(p, d) /\ p \in Pipeline /\ p.head = NoId /\ p.pending \in Seq(Ids)
      /\ pipe \in [Devices -> Pipeline] /\ prod \in [Ids -> ProdStates]
      /\ Device \in [Ids -> Devices] /\ NoId \notin Ids
    BY <1>1, DispatchAssumption
       DEF DispatchInv, DispatchTypes, Pipelines, Orderly, Pipeline, AtHead
<1>3. mine \subseteq Ids
    BY <1>1, <1>2, SetOf
<1>4. Started(p) = mine
    BY <1>1, <1>2 DEF Started
<1>6. NoPipe \in Pipeline /\ NoPipe.place = "none" /\ NoPipe.head = NoId
    BY NoPipeIs DEF NoPipe
<1>7. Started(NoPipe) = {}
    BY NoPipeIs
<1>9. Orderly(NoPipe, d)
    BY NoPipeIs
<1>10. /\ pipe'[d] = NoPipe /\ (\A e \in Devices \ {d} : pipe'[e] = pipe[e])
       /\ pipe' \in [Devices -> Pipeline]
    BY <1>2, <1>6
<1>11. Pipelines'
    BY <1>9, <1>10 DEF DispatchInv, Pipelines
<1>12. \A i \in Ids : prod'[i] = IF i \in mine THEN "idle" ELSE prod[i]
    OBVIOUS
<1>13. prod' \in [Ids -> ProdStates]
    BY <1>2 DEF ProdStates
<1>14. ASSUME NEW i \in Ids
       PROVE  LET q == pipe'[Device[i]] IN
              /\ prod'[i] # "idle" <=> i \in Started(q)
              /\ prod'[i] = "taken" => q.head = i /\ q.place \in {"sending", "failing"}
              /\ q.head = i /\ q.place = "sending" => prod'[i] = "taken"
              /\ q.head = i /\ q.place = "failing" => prod'[i] \in {"taken", "failed"}
    <2>1. CASE Device[i] = d
        <3>1. prod'[i] = "idle"
            <4>1. prod[i] # "idle" => i \in mine
                BY <1>1, <1>4, <2>1 DEF DispatchInv, Answered
            <4> QED BY <1>12, <4>1
        <3> QED BY <1>6, <1>7, <1>10, <2>1, <3>1
    <2>2. CASE Device[i] # d
        <3>1. i \notin mine
            BY <1>1, <1>4, <2>2, OnlyOwn
        <3>2. pipe'[Device[i]] = pipe[Device[i]] /\ prod'[i] = prod[i]
            BY <1>2, <1>10, <1>12, <2>2, <3>1
        <3> QED BY <3>2 DEF DispatchInv, Answered
    <2> QED BY <2>1, <2>2
<1>15. Held' = Held \ mine
    BY <1>12 DEF Held, Keeps, Leased
<1>16. {i \in Ids : prod'[i] = "waiting"} = {i \in Ids : prod[i] = "waiting"}
    BY <1>12
<1>17. \A e \in Devices : pipe'[e].place # "none" => pipe[e].place # "none"
    BY <1>6, <1>10
<1> QED BY <1>3, <1>10, <1>11, <1>13, <1>14, <1>15, <1>16, <1>17 DEF Answered

(* A producer goes on.                                                      *)
LEMMA ProducerGoesOn ==
    ASSUME DispatchInv, NEW i \in Ids, Working(i), NEW r \in ProdStates \ {"idle", "taken"},
           prod' = [prod EXCEPT ![i] = r], pipe' = pipe
    PROVE  pipe' \in [Devices -> Pipeline] /\ prod' \in [Ids -> ProdStates] /\ Pipelines' /\ Answered'
<1>1. pipe \in [Devices -> Pipeline] /\ prod \in [Ids -> ProdStates]
    BY DEF DispatchInv, DispatchTypes
<1>2. prod' \in [Ids -> ProdStates] /\ prod'[i] = r /\ \A j \in Ids \ {i} : prod'[j] = prod[j]
    BY <1>1
<1>3. Pipelines'
    BY DEF DispatchInv, Pipelines
<1>4. Answered'
    BY <1>2 DEF DispatchInv, Answered, Working
<1> QED BY <1>1, <1>2, <1>3, <1>4

(* A pipeline goes on with its head.                                        *)
LEMMA HeadGoesOn ==
    ASSUME DispatchInv, NEW d \in Devices, pipe[d].place \in AtHead,
           NEW l \in {"sending", "failing"}, NEW r \in {"taken", "failed"},
           l = "sending" => r = "taken", prod[pipe[d].head] # "idle",
           prod' = [prod EXCEPT ![pipe[d].head] = r], pipe' = [pipe EXCEPT ![d].place = l]
    PROVE  /\ pipe' \in [Devices -> Pipeline] /\ prod' \in [Ids -> ProdStates]
           /\ Pipelines' /\ Answered' /\ \A e \in Devices : pipe'[e].place # "none" => pipe[e].place # "none"
<1>1. PICK p : p = pipe[d]
    OBVIOUS
<1>2. /\ Orderly(p, d) /\ p \in Pipeline /\ p.place \in AtHead /\ p.head # NoId /\ p.head \in Ids
      /\ Device[p.head] = d
      /\ p.pending \in Seq(Ids) /\ p.rest \in Seq(Ids)
      /\ pipe \in [Devices -> Pipeline] /\ prod \in [Ids -> ProdStates] /\ Device \in [Ids -> Devices]
    BY <1>1, DispatchAssumption DEF DispatchInv, DispatchTypes, Pipelines, Orderly, Pipeline
<1>3. PICK t : t = [place |-> l, rest |-> p.rest, pending |-> p.pending, head |-> p.head]
    OBVIOUS
<1>4. /\ t \in Pipeline /\ t.place = l /\ t.head = p.head /\ t.pending = p.pending
      /\ Line(t) = Line(p)
    BY <1>2, <1>3 DEF Pipeline, PipePlaces, Line
<1>5. Started(t) = Started(p)
    BY <1>4 DEF Started
<1>6. Orderly(t, d)
    BY <1>2, <1>4 DEF Orderly, AtHead
<1>7. /\ pipe'[d] = t /\ (\A e \in Devices \ {d} : pipe'[e] = pipe[e])
      /\ pipe' \in [Devices -> Pipeline]
    <2>4. p = [place |-> p.place, rest |-> p.rest, pending |-> p.pending, head |-> p.head]
        BY <1>2 DEF Pipeline
    <2>5. PICK pl, re, pe, he : pl = p.place /\ re = p.rest /\ pe = p.pending /\ he = p.head
        OBVIOUS
    <2>6. p = [place |-> pl, rest |-> re, pending |-> pe, head |-> he]
        BY <2>4, <2>5
    <2>1. [p EXCEPT !.place = l] = t
        BY <1>3, <2>5, <2>6
    <2>2. pipe' = [pipe EXCEPT ![d] = [p EXCEPT !.place = l]]
        BY <1>1, <1>2
    <2>3. pipe' = [pipe EXCEPT ![d] = t]
        BY <2>1, <2>2
    <2> QED BY <1>2, <1>4, <2>3
<1>8. Pipelines'
    BY <1>6, <1>7 DEF DispatchInv, Pipelines
<1>9. prod'[p.head] = r /\ (\A j \in Ids \ {p.head} : prod'[j] = prod[j]) /\ prod' \in [Ids -> ProdStates]
    BY <1>1, <1>2 DEF ProdStates, Finals
<1>10. Answered'
    <2>1. ASSUME NEW i \in Ids
          PROVE  LET q == pipe'[Device[i]] IN
                 /\ prod'[i] # "idle" <=> i \in Started(q)
                 /\ prod'[i] = "taken" => q.head = i /\ q.place \in {"sending", "failing"}
                 /\ q.head = i /\ q.place = "sending" => prod'[i] = "taken"
                 /\ q.head = i /\ q.place = "failing" => prod'[i] \in {"taken", "failed"}
        <3>1. CASE i = p.head
            <4>1. pipe'[Device[i]] = t /\ i \in Started(t) /\ prod'[i] = r
                BY <1>2, <1>4, <1>7, <1>9, <3>1 DEF Started
            <4> QED BY <1>4, <3>1, <4>1
        <3>2. CASE i # p.head /\ Device[i] = d
            <4>1. pipe'[Device[i]] = t /\ t.head # i /\ prod'[i] = prod[i] /\ prod[i] # "taken"
                BY <1>1, <1>4, <1>7, <1>9, <3>2 DEF DispatchInv, Answered
            <4>2. prod[i] # "idle" <=> i \in Started(t)
                BY <1>1, <1>5, <3>2 DEF DispatchInv, Answered
            <4> QED BY <4>1, <4>2
        <3>3. CASE Device[i] # d
            <4>1. pipe'[Device[i]] = pipe[Device[i]] /\ prod'[i] = prod[i]
                BY <1>2, <1>7, <1>9, <3>3
            <4> QED BY <4>1 DEF DispatchInv, Answered
        <3> QED BY <3>1, <3>2, <3>3
    <2> QED BY <2>1 DEF Answered
<1>11. \A e \in Devices : pipe'[e].place # "none" => pipe[e].place # "none"
    BY <1>1, <1>2, <1>7 DEF AtHead
<1> QED BY <1>7, <1>8, <1>9, <1>10, <1>11

(* n slots come back, and k are left behind.                                *)
LEMMA GivenBack ==
    ASSUME DispatchInv, NEW n \in Nat, NEW k \in Nat, slots' = GiveBack(slots, n),
           {i \in Ids : prod'[i] = "waiting"} = {i \in Ids : prod[i] = "waiting"},
           Cardinality(Held) = Cardinality(Held') + (n + k), Cardinality(Held') \in Nat,
           dropped' = dropped + k
    PROVE  SlotsKept' /\ dropped' \in Nat
<1>1. PICK s : s = slots
    OBVIOUS
<1>2. PICK t : t = slots'
    OBVIOUS
<1>3. /\ Sound(s) /\ ToSet(s.waiters) = {i \in Ids : prod[i] = "waiting"} /\ dropped \in Nat
      /\ Value(s) + Cardinality(Held) + dropped = Slots
    BY <1>1 DEF DispatchInv, SlotsKept, DispatchTypes
<1>4. Sound(t) /\ Value(t) = Value(s) + n /\ t.waiters = s.waiters /\ Value(s) \in Nat
    BY <1>1, <1>2, <1>3, GiveBackAdds, ValueType
<1>5. Value(t) + Cardinality(Held') + dropped' = Slots
    BY <1>3, <1>4
<1>6. ToSet(t.waiters) = {i \in Ids : prod'[i] = "waiting"}
    BY <1>3, <1>4
<1>7. Sound(slots') /\ Value(slots') + Cardinality(Held') + dropped' = Slots
      /\ ToSet(slots'.waiters) = {i \in Ids : prod'[i] = "waiting"}
    BY <1>2, <1>4, <1>5, <1>6
<1> QED BY <1>3, <1>7 DEF SlotsKept, Sound, Semaphore, Value

(* What is let go had n slots.                                              *)
LEMMA HeldDrops ==
    ASSUME DispatchInv, NEW S, Held' = Held \ S, NEW n, n = Cardinality(Held \cap S)
    PROVE  n \in Nat /\ Cardinality(Held') \in Nat /\ Cardinality(Held) = Cardinality(Held') + n
<1>1. PICK T : T = Held \cap S
    OBVIOUS
<1>2. T \subseteq Held /\ Held' = Held \ T
    BY <1>1
<1>3. /\ Cardinality(T) \in Nat /\ Cardinality(Held') \in Nat
      /\ Cardinality(Held') = Cardinality(Held) - Cardinality(T)
    BY <1>2, HeldLess
<1>4. Cardinality(Held) \in Nat
    BY HeldFinite
<1> QED BY <1>1, <1>3, <1>4

(* What every move of a pipeline keeps.                                     *)
PipeMoves ==
    /\ pipe' \in [Devices -> Pipeline] /\ prod' \in [Ids -> ProdStates]
    /\ doomed' \subseteq Ids /\ dropped' \in Nat
    /\ Pipelines' /\ Answered' /\ SlotsKept'
    /\ \A e \in Devices : pipe'[e].place # "none" => pipe[e].place # "none"

LEMMA GoOnKeeps ==
    ASSUME DispatchInv, NEW d \in Devices, pipe[d].place # "none",
           NEW from, from = {pipe[d].head} \ {NoId}, \A i \in from : prod[i] # "waiting",
           NEW n, n = Cardinality(Held \cap from), GoOn(d, from, n), dropped' = dropped
    PROVE  PipeMoves
<1>1. PICK t : t = Turn(pipe[d])
    OBVIOUS
<1>2. /\ Orderly(pipe[d], d) /\ pipe \in [Devices -> Pipeline] /\ prod \in [Ids -> ProdStates]
      /\ doomed \subseteq Ids /\ dropped \in Nat
    BY DEF DispatchInv, DispatchTypes, Pipelines
<1>3. /\ Orderly(t, d) /\ t.place \in {"head", "closing"}
      /\ ToSet(pipe[d].pending) \subseteq Started(t) /\ Started(t) \subseteq ToSet(Line(pipe[d]))
    <2>1. PICK p : p = pipe[d]
        OBVIOUS
    <2>2. Orderly(p, d) /\ t = Turn(p)
        BY <1>1, <1>2, <2>1
    <2>3. /\ Orderly(t, d) /\ t.place \in {"head", "closing"}
          /\ ToSet(p.pending) \subseteq Started(t) /\ Started(t) \subseteq ToSet(Line(p))
        BY <2>2, TurnIs
    <2> QED BY <2>1, <2>3
<1>4. t \in Pipeline /\ ToSet(t.pending) \subseteq Ids
    <2>1. t \in Pipeline /\ t.pending \in Seq(Ids)
        BY <1>3 DEF Orderly, Pipeline
    <2> QED BY <2>1, SetOf
<1>5. /\ pipe' = [pipe EXCEPT ![d] = t]
      /\ prod' = [i \in Ids |-> IF i \in Started(t) \ Started(pipe[d]) THEN "created"
                                ELSE IF i \in from THEN "idle" ELSE prod[i]]
      /\ doomed' = IF t.place = "closing"
                   THEN doomed \cup {i \in ToSet(t.pending) : Working(i)} ELSE doomed
      /\ slots' = GiveBack(slots, n)
    BY <1>1 DEF GoOn
<1>6. /\ pipe' \in [Devices -> Pipeline] /\ prod' \in [Ids -> ProdStates]
      /\ doomed' \subseteq Ids
    <2>1. pipe' \in [Devices -> Pipeline]
        BY <1>2, <1>4, <1>5
    <2>2. prod' \in [Ids -> ProdStates]
        BY <1>2, <1>5 DEF ProdStates
    <2>3. doomed' \subseteq Ids
        BY <1>2, <1>4, <1>5
    <2> QED BY <2>1, <2>2, <2>3
<1>7. TurnsInto(d, t, from)
    <2>1. pipe'[d] = t /\ \A e \in Devices \ {d} : pipe'[e] = pipe[e]
        BY <1>2, <1>5
    <2>2. \A i \in Ids : prod'[i] = IF i \in Started(t) \ Started(pipe[d]) THEN "created"
                                    ELSE IF i \in from THEN "idle" ELSE prod[i]
        BY <1>5
    <2> QED BY <1>3, <1>6, <2>1, <2>2 DEF TurnsInto
<1>8. /\ Pipelines' /\ Answered' /\ Held' = Held \ from
      /\ {i \in Ids : prod'[i] = "waiting"} = {i \in Ids : prod[i] = "waiting"}
      /\ \A e \in Devices : pipe'[e].place # "none" => pipe[e].place # "none"
    BY <1>7, PipeGoesOn
<1>9. n \in Nat /\ Cardinality(Held') \in Nat /\ Cardinality(Held) = Cardinality(Held') + n
    BY <1>8, HeldDrops
<1>10. SlotsKept' /\ dropped' \in Nat
    <2>1. Cardinality(Held) = Cardinality(Held') + (n + 0) /\ dropped' = dropped + 0 /\ 0 \in Nat
        BY <1>2, <1>9
    <2> QED BY <1>5, <1>8, <1>9, <2>1, GivenBack
<1> QED BY <1>6, <1>8, <1>10 DEF PipeMoves

LEMMA UnwoundKeeps ==
    ASSUME DispatchInv, NEW d \in Devices, pipe[d].place \in AtHead, prod[pipe[d].head] # "waiting",
           NEW n, n = Cardinality(Held \cap {pipe[d].head}),
           Unwound(d, {pipe[d].head}, n), dropped' = dropped
    PROVE  PipeMoves
<1>1. /\ pipe' = [pipe EXCEPT ![d].place = "closing", ![d].head = NoId]
      /\ prod' = [i \in Ids |-> IF i \in {pipe[d].head} THEN "idle" ELSE prod[i]]
      /\ doomed' = doomed \cup {i \in ToSet(pipe[d].pending) : Working(i)}
      /\ slots' = GiveBack(slots, n)
    BY DEF Unwound
<1>2. /\ pipe' \in [Devices -> Pipeline] /\ prod' \in [Ids -> ProdStates]
      /\ Pipelines' /\ Answered' /\ Held' = Held \ {pipe[d].head}
      /\ {i \in Ids : prod'[i] = "waiting"} = {i \in Ids : prod[i] = "waiting"}
      /\ \A e \in Devices : pipe'[e].place # "none" => pipe[e].place # "none"
    BY <1>1, PipeUnwinds
<1>3. doomed' \subseteq Ids /\ dropped \in Nat
    <2>1. pipe[d].pending \in Seq(Ids) /\ doomed \subseteq Ids /\ dropped \in Nat
        BY DEF DispatchInv, DispatchTypes, Pipeline
    <2>2. ToSet(pipe[d].pending) \subseteq Ids
        BY <2>1, SetOf
    <2> QED BY <1>1, <2>1, <2>2
<1>4. n \in Nat /\ Cardinality(Held') \in Nat /\ Cardinality(Held) = Cardinality(Held') + n
    BY <1>2, HeldDrops
<1>5. SlotsKept' /\ dropped' \in Nat
    <2>1. Cardinality(Held) = Cardinality(Held') + (n + 0) /\ dropped' = dropped + 0 /\ 0 \in Nat
        BY <1>3, <1>4
    <2> QED BY <1>1, <1>2, <1>4, <2>1, GivenBack
<1> QED BY <1>2, <1>3, <1>5 DEF PipeMoves

LEMMA CleanedUpKeeps ==
    ASSUME DispatchInv, NEW d \in Devices, CleanedUp(d)
    PROVE  PipeMoves
<1>1. PICK mine : mine = ToSet(pipe[d].pending)
    OBVIOUS
<1>2. PICK T : T = {i \in mine : prod[i] \in Leased}
    OBVIOUS
<1>3. PICK k : k = Cardinality(T)
    OBVIOUS
<1>4. /\ pipe[d].place = "closing" /\ \A i \in mine : ~Working(i)
      /\ slots' = GiveBack(slots, IF d \in cut THEN 0 ELSE k)
      /\ dropped' = dropped + (IF d \in cut THEN k ELSE 0)
      /\ pipe' = [pipe EXCEPT ![d] = NoPipe]
      /\ prod' = [i \in Ids |-> IF i \in mine THEN "idle" ELSE prod[i]]
      /\ doomed' = doomed
    BY <1>1, <1>2, <1>3 DEF CleanedUp
<1>5. \A i \in mine : prod[i] # "waiting"
    BY <1>4 DEF Working
<1>6. /\ pipe' \in [Devices -> Pipeline] /\ prod' \in [Ids -> ProdStates]
      /\ Pipelines' /\ Answered' /\ mine \subseteq Ids /\ Held' = Held \ mine
      /\ {i \in Ids : prod'[i] = "waiting"} = {i \in Ids : prod[i] = "waiting"}
      /\ \A e \in Devices : pipe'[e].place # "none" => pipe[e].place # "none"
    BY <1>1, <1>4, <1>5, PipeEnds
<1>7. Held \cap mine = T
    <2>1. ASSUME NEW i \in mine PROVE prod[i] # "taken"
        <3>1. i \in Ids /\ i \in Started(pipe[d])
            BY <1>1, <1>6, <2>1 DEF Started
        <3>2. Device[i] = d
            BY <3>1, OnlyOwn
        <3> QED BY <1>4, <3>1, <3>2 DEF DispatchInv, Answered
    <2> QED BY <1>2, <1>4, <1>6, <2>1 DEF Held, Keeps, Working
<1>8. k \in Nat /\ Cardinality(Held') \in Nat /\ Cardinality(Held) = Cardinality(Held') + k
    BY <1>3, <1>6, <1>7, HeldDrops
<1>9. PICK back, lost : /\ back = (IF d \in cut THEN 0 ELSE k) /\ lost = (IF d \in cut THEN k ELSE 0)
    OBVIOUS
<1>10. /\ back \in Nat /\ lost \in Nat /\ slots' = GiveBack(slots, back) /\ dropped' = dropped + lost
       /\ Cardinality(Held) = Cardinality(Held') + (back + lost)
    BY <1>4, <1>8, <1>9
<1>11. SlotsKept' /\ dropped' \in Nat
    BY <1>6, <1>8, <1>10, GivenBack
<1>12. doomed' \subseteq Ids
    BY <1>4 DEF DispatchInv, DispatchTypes
<1> QED BY <1>6, <1>11, <1>12 DEF PipeMoves

----------------------------------------------------------------------------
(* The moves of a producer.                                                 *)
LEMMA ProducerMoves ==
    ASSUME DispatchInv, NEW i \in Ids, Working(i), NEW r \in ProdStates \ {"idle", "taken"},
           prod' = [prod EXCEPT ![i] = r], pipe' = pipe, dropped' = dropped,
           doomed' \subseteq doomed, SlotsKept'
    PROVE  PipeMoves
<1>1. pipe' \in [Devices -> Pipeline] /\ prod' \in [Ids -> ProdStates] /\ Pipelines' /\ Answered'
    BY ProducerGoesOn
<1>2. doomed \subseteq Ids /\ dropped \in Nat
    BY DEF DispatchInv, DispatchTypes
<1> QED BY <1>1, <1>2 DEF PipeMoves

(* The semaphore afterwards, n slots poorer for the requests that have one. *)
LEMMA Balanced ==
    ASSUME NEW t, t = slots', Sound(t), ToSet(t.waiters) = {i \in Ids : prod'[i] = "waiting"},
           Value(t) + Cardinality(Held') + dropped' = Slots
    PROVE  SlotsKept'
<1>1. Sound(slots') /\ Value(slots') + Cardinality(Held') + dropped' = Slots
      /\ ToSet(slots'.waiters) = {i \in Ids : prod'[i] = "waiting"}
    OBVIOUS
<1> QED BY <1>1 DEF SlotsKept, Sound, Semaphore, Value

LEMMA AcquireKeeps ==
    ASSUME DispatchInv, NEW i \in Ids, Acquire(i)
    PROVE  PipeMoves
<1>1. PICK s : s = slots
    OBVIOUS
<1>2. PICK t : t = slots'
    OBVIOUS
<1>3. /\ Sound(s) /\ ToSet(s.waiters) = {j \in Ids : prod[j] = "waiting"}
      /\ Value(s) + Cardinality(Held) + dropped = Slots
      /\ prod \in [Ids -> ProdStates] /\ dropped \in Nat
    BY <1>1 DEF DispatchInv, SlotsKept, DispatchTypes
<1>4. prod[i] = "created" /\ Working(i) /\ i \notin ToSet(s.waiters) /\ i \notin Held
    BY <1>3 DEF Acquire, FirstRun, Working, Held, Keeps, Leased
<1>5. Value(s) \in Nat /\ Cardinality(Held) \in Nat
    BY <1>3, ValueType, HeldFinite
<1>6. pipe' = pipe /\ dropped' = dropped /\ doomed' = doomed
    BY DEF Acquire
<1>7. CASE s.free > 0 /\ s.waiters = <<>>
    <2>1. t = [s EXCEPT !.free = @ - 1] /\ prod' = [prod EXCEPT ![i] = "preparing"]
        BY <1>1, <1>2, <1>7 DEF Acquire
    <2>2. Sound(t) /\ Value(t) = Value(s) - 1 /\ t.waiters = s.waiters
        BY <1>3, <1>7, <2>1, TakenKeeps
    <2>3. Held' = Held \cup {i}
        BY <1>3, <2>1 DEF Held, Keeps
    <2>4. Cardinality(Held') = Cardinality(Held) + 1
        BY <1>4, <2>3, HeldMore
    <2>5. ToSet(t.waiters) = {j \in Ids : prod'[j] = "waiting"}
        BY <1>3, <1>4, <2>1, <2>2
    <2>6. Value(t) + Cardinality(Held') + dropped' = Slots
        BY <1>3, <1>5, <1>6, <2>2, <2>4
    <2>7. SlotsKept'
        BY <1>2, <2>2, <2>5, <2>6, Balanced
    <2> QED BY <1>4, <1>6, <2>1, <2>7, ProducerMoves DEF ProdStates
<1>8. CASE ~(s.free > 0 /\ s.waiters = <<>>)
    <2>1. t = [s EXCEPT !.waiters = Append(@, i)] /\ prod' = [prod EXCEPT ![i] = "waiting"]
        BY <1>1, <1>2, <1>8 DEF Acquire
    <2>2. Sound(t) /\ Value(t) = Value(s) /\ ToSet(t.waiters) = ToSet(s.waiters) \cup {i}
        BY <1>3, <1>4, <2>1, QueuedKeeps
    <2>3. Held' = Held
        BY <1>3, <1>4, <2>1 DEF Held, Keeps, Leased
    <2>5. ToSet(t.waiters) = {j \in Ids : prod'[j] = "waiting"}
        BY <1>3, <2>1, <2>2
    <2>6. Value(t) + Cardinality(Held') + dropped' = Slots
        BY <1>3, <1>6, <2>2, <2>3
    <2>7. SlotsKept'
        BY <1>2, <2>2, <2>5, <2>6, Balanced
    <2> QED BY <1>4, <1>6, <2>1, <2>7, ProducerMoves DEF ProdStates
<1> QED BY <1>7, <1>8

LEMMA GrantedKeeps ==
    ASSUME DispatchInv, NEW i \in Ids, Granted(i)
    PROVE  PipeMoves
<1>1. PICK s : s = slots
    OBVIOUS
<1>2. PICK t : t = slots'
    OBVIOUS
<1>3. /\ Sound(s) /\ ToSet(s.waiters) = {j \in Ids : prod[j] = "waiting"}
      /\ Value(s) + Cardinality(Held) + dropped = Slots
      /\ prod \in [Ids -> ProdStates] /\ dropped \in Nat
    BY <1>1 DEF DispatchInv, SlotsKept, DispatchTypes
<1>4. /\ prod[i] = "waiting" /\ Working(i) /\ i \in s.handed /\ i \notin Held
      /\ t = Resumed(s, i) /\ prod' = [prod EXCEPT ![i] = "preparing"]
      /\ pipe' = pipe /\ dropped' = dropped /\ doomed' = doomed
    BY <1>1, <1>2 DEF Granted, Working, Held, Keeps, Leased
<1>5. Value(s) \in Nat /\ Cardinality(Held) \in Nat
    BY <1>3, ValueType, HeldFinite
<1>6. Sound(t) /\ Value(t) = Value(s) - 1 /\ ToSet(t.waiters) = ToSet(s.waiters) \ {i}
    BY <1>3, <1>4, ResumedKeeps
<1>7. Held' = Held \cup {i}
    BY <1>3, <1>4 DEF Held, Keeps
<1>8. Cardinality(Held') = Cardinality(Held) + 1
    BY <1>4, <1>7, HeldMore
<1>9. ToSet(t.waiters) = {j \in Ids : prod'[j] = "waiting"}
    BY <1>3, <1>4, <1>6
<1>10. Value(t) + Cardinality(Held') + dropped' = Slots
    BY <1>3, <1>4, <1>5, <1>6, <1>8
<1>11. SlotsKept'
    BY <1>2, <1>6, <1>9, <1>10, Balanced
<1> QED BY <1>4, <1>11, ProducerMoves DEF ProdStates

LEMMA ThrownKeeps ==
    ASSUME DispatchInv, NEW i \in Ids, Thrown(i)
    PROVE  PipeMoves
<1>1. PICK s : s = slots
    OBVIOUS
<1>2. PICK t : t = slots'
    OBVIOUS
<1>3. /\ Sound(s) /\ ToSet(s.waiters) = {j \in Ids : prod[j] = "waiting"}
      /\ Value(s) + Cardinality(Held) + dropped = Slots
      /\ prod \in [Ids -> ProdStates] /\ dropped \in Nat
    BY <1>1 DEF DispatchInv, SlotsKept, DispatchTypes
<1>4. /\ prod[i] \in {"created", "waiting"} /\ Working(i)
      /\ t = (IF prod[i] = "waiting" THEN Withdrawn(s, i) ELSE s)
      /\ prod' = [prod EXCEPT ![i] = "cancelled"]
      /\ pipe' = pipe /\ dropped' = dropped /\ doomed' \subseteq doomed
    BY <1>1, <1>2 DEF Thrown, Working
<1>5. Sound(t) /\ Value(t) = Value(s) /\ ToSet(t.waiters) = ToSet(s.waiters) \ {i}
    <2>1. CASE prod[i] = "waiting"
        BY <1>3, <1>4, <2>1, WithdrawnKeeps
    <2>2. CASE prod[i] # "waiting"
        BY <1>3, <1>4, <2>2
    <2> QED BY <2>1, <2>2
<1>6. Held' = Held
    BY <1>3, <1>4 DEF Held, Keeps, Leased
<1>7. ToSet(t.waiters) = {j \in Ids : prod'[j] = "waiting"}
    BY <1>3, <1>4, <1>5
<1>8. Value(t) + Cardinality(Held') + dropped' = Slots
    BY <1>3, <1>4, <1>5, <1>6
<1>9. SlotsKept'
    BY <1>2, <1>5, <1>7, <1>8, Balanced
<1> QED BY <1>4, <1>9, ProducerMoves DEF ProdStates, Finals

LEMMA PrepareKeeps ==
    ASSUME DispatchInv, NEW i \in Ids, Prepare(i)
    PROVE  PipeMoves /\ operation' \in [Ids -> RowStates]
<1>1. /\ prod \in [Ids -> ProdStates] /\ operation \in [Ids -> RowStates]
      /\ dropped \in Nat /\ SlotsKept
    BY DEF DispatchInv, DispatchTypes
<1>2. PICK o \in Outcomes(operation[i]) :
        LET result == IF i \in doomed THEN "cancelled" ELSE o[2] IN
        /\ operation' = [operation EXCEPT ![i] = o[1]]
        /\ prod' = [prod EXCEPT ![i] = result]
        /\ slots' = IF result \in Leased THEN slots ELSE GiveBack(slots, 1)
    BY DEF Prepare
<1>3. PICK r : r = IF i \in doomed THEN "cancelled" ELSE o[2]
    OBVIOUS
<1>4. o[1] \in RowStates /\ o[2] \in {"packet", "nothing", "failed"}
    BY <1>1 DEF Outcomes, RowStates
<1>5. /\ prod[i] = "preparing" /\ Working(i) /\ i \in Held
      /\ r \in {"packet", "nothing", "failed", "cancelled"}
      /\ prod' = [prod EXCEPT ![i] = r]
      /\ slots' = (IF r \in Leased THEN slots ELSE GiveBack(slots, 1))
      /\ pipe' = pipe /\ dropped' = dropped /\ doomed' \subseteq doomed
    BY <1>2, <1>3, <1>4 DEF Prepare, Working, Held, Keeps
<1>6. operation' \in [Ids -> RowStates]
    BY <1>1, <1>2, <1>4
<1>7. {j \in Ids : prod'[j] = "waiting"} = {j \in Ids : prod[j] = "waiting"}
    BY <1>1, <1>5
<1>8. SlotsKept'
    <2>1. CASE r \in Leased
        <3>1. Held' = Held
            BY <1>1, <1>5, <2>1 DEF Held, Keeps
        <3>2. slots' = slots
            BY <1>5, <2>1
        <3>3. PICK t : t = slots'
            OBVIOUS
        <3>4. t = slots
            BY <3>2, <3>3
        <3>5. Sound(t) /\ Value(t) + Cardinality(Held) + dropped = Slots
              /\ ToSet(t.waiters) = {j \in Ids : prod[j] = "waiting"}
            BY <1>1, <3>4 DEF SlotsKept
        <3> QED BY <1>5, <1>7, <3>1, <3>3, <3>5, Balanced
    <2>2. CASE r \notin Leased
        <3>1. Held' = Held \ {i}
            BY <1>1, <1>5, <2>2 DEF Held, Keeps, Leased
        <3>2. Held \cap {i} = {i}
            BY <1>5
        <3>3. Cardinality(Held \cap {i}) = 1
            BY <3>2, FS_Singleton
        <3>4. Cardinality(Held') \in Nat /\ Cardinality(Held) = Cardinality(Held') + 1
            BY <3>1, <3>3, HeldDrops
        <3>5. /\ Cardinality(Held) = Cardinality(Held') + (1 + 0) /\ dropped' = dropped + 0
              /\ slots' = GiveBack(slots, 1) /\ 0 \in Nat /\ 1 \in Nat
            BY <1>1, <1>5, <2>2, <3>4
        <3> QED BY <1>7, <3>4, <3>5, GivenBack
    <2> QED BY <2>1, <2>2
<1>9. r \in ProdStates \ {"idle", "taken"}
    BY <1>5 DEF ProdStates, Finals
<1>10. PipeMoves
    BY <1>5, <1>8, <1>9, ProducerMoves
<1> QED BY <1>6, <1>10

----------------------------------------------------------------------------
(* The moves of a pipeline.                                                 *)
LEMMA HeadOf ==
    ASSUME DispatchInv, NEW d \in Devices, NEW i, i = pipe[d].head, pipe[d].place \in AtHead
    PROVE  /\ i \in Ids /\ Device[i] = d /\ {i} = {i} \ {NoId} /\ prod[i] \in ProdStates \ {"idle"}
           /\ pipe[d].place = "sending" => prod[i] = "taken"
           /\ pipe[d].place = "failing" => prod[i] \in {"taken", "failed"}
           /\ prod[i] = "taken" => pipe[d].place \in {"sending", "failing"}
           /\ pipe[d].place # "none"
<1>1. Orderly(pipe[d], d) /\ prod \in [Ids -> ProdStates] /\ NoId \notin Ids
    BY DispatchAssumption DEF DispatchInv, DispatchTypes, Pipelines
<1>2. i \in Ids /\ Device[i] = d /\ i # NoId
    BY <1>1 DEF Orderly, Pipeline
<1>3. i \in Started(pipe[d])
    BY <1>2 DEF Started
<1> QED BY <1>1, <1>2, <1>3 DEF DispatchInv, Answered, AtHead

LEMMA OneHeld ==
    ASSUME NEW i \in Ids
    PROVE  Cardinality(Held \cap {i}) = IF prod[i] \in Keeps THEN 1 ELSE 0
<1>1. CASE prod[i] \in Keeps
    <2>1. Held \cap {i} = {i}
        BY <1>1 DEF Held
    <2> QED BY <1>1, <2>1, FS_Singleton
<1>2. CASE prod[i] \notin Keeps
    <2>1. Held \cap {i} = {}
        BY <1>2 DEF Held
    <2> QED BY <1>2, <2>1, FS_EmptySet
<1> QED BY <1>1, <1>2

LEMMA EnterKeeps ==
    ASSUME DispatchInv, NEW d \in Devices, Enter(d)
    PROVE  PipeMoves
<1>1. pipe[d].place = "new" /\ GoOn(d, {}, 0) /\ dropped' = dropped
    BY DEF Enter
<1>2. pipe[d].head = NoId
    BY <1>1 DEF DispatchInv, Pipelines, Orderly, AtHead
<1>3. PICK from : from = {}
    OBVIOUS
<1>4. from = {pipe[d].head} \ {NoId} /\ \A i \in from : prod[i] # "waiting"
    BY <1>2, <1>3
<1>5. 0 = Cardinality(Held \cap from)
    BY <1>3, FS_EmptySet
<1>6. GoOn(d, from, 0) /\ pipe[d].place # "none"
    BY <1>1, <1>3
<1> QED BY <1>1, <1>4, <1>5, <1>6, GoOnKeeps

(* The pipeline goes on after its head i.                                   *)
LEMMA GoOnAfter ==
    ASSUME DispatchInv, NEW d \in Devices, NEW i, i = pipe[d].head, pipe[d].place \in AtHead,
           prod[i] # "waiting", NEW n, n = IF prod[i] \in Keeps THEN 1 ELSE 0,
           GoOn(d, {i}, n), dropped' = dropped
    PROVE  PipeMoves
<1>1. i \in Ids /\ {i} = {i} \ {NoId} /\ pipe[d].place # "none"
    BY HeadOf
<1>2. PICK from : from = {i}
    OBVIOUS
<1>3. from = {pipe[d].head} \ {NoId} /\ \A j \in from : prod[j] # "waiting"
    BY <1>1, <1>2
<1>4. n = Cardinality(Held \cap from)
    BY <1>1, <1>2, OneHeld
<1>5. GoOn(d, from, n)
    BY <1>2
<1> QED BY <1>1, <1>3, <1>4, <1>5, GoOnKeeps

LEMMA UnwoundAfter ==
    ASSUME DispatchInv, NEW d \in Devices, NEW i, i = pipe[d].head, pipe[d].place \in AtHead,
           prod[i] # "waiting", NEW n, n = IF prod[i] \in Keeps THEN 1 ELSE 0,
           Unwound(d, {i}, n), dropped' = dropped
    PROVE  PipeMoves
<1>1. i \in Ids
    BY HeadOf
<1>2. n = Cardinality(Held \cap {i})
    BY <1>1, OneHeld
<1> QED BY <1>2, UnwoundKeeps

(* Nothing of the semaphore moves.                                          *)
LEMMA HeadMoves ==
    ASSUME DispatchInv, NEW d \in Devices, NEW i, i = pipe[d].head, pipe[d].place \in AtHead,
           NEW l \in {"sending", "failing"}, NEW r \in {"taken", "failed"},
           l = "sending" => r = "taken", r \in Keeps <=> prod[i] \in Keeps, prod[i] # "waiting",
           prod' = [prod EXCEPT ![i] = r], pipe' = [pipe EXCEPT ![d].place = l],
           doomed' = doomed, slots' = slots, dropped' = dropped
    PROVE  PipeMoves
<1>1. i \in Ids /\ prod[i] # "idle"
    BY HeadOf
<1>2. /\ pipe' \in [Devices -> Pipeline] /\ prod' \in [Ids -> ProdStates]
      /\ Pipelines' /\ Answered' /\ \A e \in Devices : pipe'[e].place # "none" => pipe[e].place # "none"
    BY <1>1, HeadGoesOn
<1>3. prod \in [Ids -> ProdStates] /\ doomed \subseteq Ids /\ dropped \in Nat /\ SlotsKept
    BY DEF DispatchInv, DispatchTypes
<1>4. Held' = Held /\ {j \in Ids : prod'[j] = "waiting"} = {j \in Ids : prod[j] = "waiting"}
    <2>1. prod'[i] = r /\ \A j \in Ids \ {i} : prod'[j] = prod[j]
        BY <1>1, <1>3
    <2> QED BY <1>1, <2>1 DEF Held
<1>5. PICK t : t = slots'
    OBVIOUS
<1>6. /\ Sound(t) /\ Value(t) + Cardinality(Held) + dropped = Slots
      /\ ToSet(t.waiters) = {j \in Ids : prod[j] = "waiting"}
    BY <1>3, <1>5 DEF SlotsKept
<1>7. SlotsKept'
    BY <1>4, <1>5, <1>6, Balanced
<1> QED BY <1>2, <1>3, <1>7 DEF PipeMoves

LEMMA HeadReadyKeeps ==
    ASSUME DispatchInv, NEW d \in Devices, HeadReady(d)
    PROVE  PipeMoves
<1>1. PICK i : i = pipe[d].head
    OBVIOUS
<1>2. pipe[d].place = "head" /\ pipe[d].place \in AtHead /\ dropped' = dropped
    BY DEF HeadReady, AtHead
<1>3. /\ i \in Ids /\ prod \in [Ids -> ProdStates]
    BY <1>1, <1>2, HeadOf DEF DispatchInv, DispatchTypes
<1>4. CASE /\ MaySend(i) /\ pipe' = [pipe EXCEPT ![d].place = "sending"]
           /\ prod' = [prod EXCEPT ![i] = "taken"] /\ UNCHANGED <<doomed, slots>>
    <2>1. prod[i] = "packet" /\ doomed' = doomed /\ slots' = slots
        BY <1>4 DEF MaySend
    <2>2. "taken" \in Keeps /\ "packet" \in Keeps
        BY DEF Keeps, Leased
    <2>3. PICK l, r : l = "sending" /\ r = "taken"
        OBVIOUS
    <2>4. prod' = [prod EXCEPT ![i] = r] /\ pipe' = [pipe EXCEPT ![d].place = l]
        BY <1>4, <2>3
    <2> QED BY <1>1, <1>2, <2>1, <2>2, <2>3, <2>4, HeadMoves
<1>5. CASE prod[i] \in Leased /\ GoOn(d, {i}, 1)
    <2>1. prod[i] \in Keeps /\ prod[i] # "waiting"
        BY <1>5 DEF Keeps, Leased
    <2>2. PICK n : n = 1
        OBVIOUS
    <2>3. n = (IF prod[i] \in Keeps THEN 1 ELSE 0) /\ GoOn(d, {i}, n)
        BY <1>5, <2>1, <2>2
    <2> QED BY <1>1, <1>2, <2>1, <2>3, GoOnAfter
<1>6. CASE /\ prod[i] = "failed" /\ pipe' = [pipe EXCEPT ![d].place = "failing"]
           /\ UNCHANGED <<prod, doomed, slots>>
    <2>1. doomed' = doomed /\ slots' = slots
        BY <1>6
    <2>3. PICK l, r : l = "failing" /\ r = "failed"
        OBVIOUS
    <2>4. prod' = [prod EXCEPT ![i] = r] /\ pipe' = [pipe EXCEPT ![d].place = l] /\ prod[i] = r
        BY <1>3, <1>6, <2>3
    <2> QED BY <1>1, <1>2, <2>1, <2>3, <2>4, HeadMoves
<1> QED BY <1>1, <1>4, <1>5, <1>6 DEF HeadReady

LEMMA HeadCancelledKeeps ==
    ASSUME DispatchInv, NEW d \in Devices, HeadCancelled(d)
    PROVE  PipeMoves
<1>1. PICK i : i = pipe[d].head
    OBVIOUS
<1>2. PICK n : n = IF prod[i] \in Leased THEN 1 ELSE 0
    OBVIOUS
<1>3. /\ pipe[d].place \in AtHead /\ dropped' = dropped /\ prod[i] \in Finals
      /\ Unwound(d, {i}, n)
    BY <1>1, <1>2 DEF HeadCancelled, AtHead, Finals
<1>4. prod[i] # "waiting" /\ n = IF prod[i] \in Keeps THEN 1 ELSE 0
    BY <1>2, <1>3 DEF Finals, Keeps, Leased
<1> QED BY <1>1, <1>3, <1>4, UnwoundAfter

LEMMA SentKeeps ==
    ASSUME DispatchInv, NEW d \in Devices, Sent(d)
    PROVE  PipeMoves
<1>1. PICK i : i = pipe[d].head
    OBVIOUS
<1>2. /\ pipe[d].place = "sending" /\ pipe[d].place \in AtHead /\ dropped' = dropped
      /\ GoOn(d, {i}, 1)
    BY <1>1 DEF Sent, AtHead
<1>3. prod[i] = "taken"
    BY <1>1, <1>2, HeadOf
<1>4. PICK n : n = 1
    OBVIOUS
<1>5. n = (IF prod[i] \in Keeps THEN 1 ELSE 0) /\ GoOn(d, {i}, n)
    BY <1>2, <1>3, <1>4 DEF Keeps
<1> QED BY <1>1, <1>2, <1>3, <1>5, GoOnAfter

LEMMA SendFailsKeeps ==
    ASSUME DispatchInv, NEW d \in Devices, SendFails(d)
    PROVE  PipeMoves
<1>1. PICK i : i = pipe[d].head
    OBVIOUS
<1>2. /\ pipe[d].place = "sending" /\ pipe[d].place \in AtHead /\ dropped' = dropped
      /\ prod' = prod /\ doomed' = doomed /\ slots' = slots
      /\ pipe' = [pipe EXCEPT ![d].place = "failing"]
    BY DEF SendFails, AtHead
<1>3. prod[i] = "taken" /\ i \in Ids /\ prod \in [Ids -> ProdStates]
    BY <1>1, <1>2, HeadOf DEF DispatchInv, DispatchTypes
<1>4. PICK l, r : l = "failing" /\ r = "taken"
    OBVIOUS
<1>5. /\ prod' = [prod EXCEPT ![i] = r] /\ pipe' = [pipe EXCEPT ![d].place = l]
      /\ prod[i] # "waiting" /\ (r \in Keeps <=> prod[i] \in Keeps)
      /\ l \in {"sending", "failing"} /\ r \in {"taken", "failed"} /\ (l = "sending" => r = "taken")
    BY <1>2, <1>3, <1>4
<1>6. pipe[d].place \in AtHead /\ doomed' = doomed /\ slots' = slots /\ dropped' = dropped
    BY <1>2
<1> QED BY <1>1, <1>5, <1>6, HeadMoves

(* A head that was taken has a slot, one whose producer failed has none.    *)
LEMMA LeaseIs ==
    ASSUME NEW i, prod[i] \in {"taken", "failed"}
    PROVE  LeaseOf(i) = (IF prod[i] \in Keeps THEN 1 ELSE 0) /\ prod[i] # "waiting"
BY DEF LeaseOf, Keeps, Leased

LEMMA PostponeKeeps ==
    ASSUME NEW i \in Ids, operation \in [Ids -> RowStates], Postpone(i)
    PROVE  operation' \in [Ids -> RowStates]
BY DEF Postpone, RowStates

LEMMA FailedKeeps ==
    ASSUME DispatchInv, NEW d \in Devices, Failed(d)
    PROVE  PipeMoves /\ operation' \in [Ids -> RowStates]
<1>1. PICK i : i = pipe[d].head
    OBVIOUS
<1>2. /\ pipe[d].place = "failing" /\ pipe[d].place \in AtHead /\ dropped' = dropped
      /\ Postpone(i) /\ GoOn(d, {i}, LeaseOf(i))
    BY <1>1 DEF Failed, AtHead
<1>3. prod[i] \in {"taken", "failed"} /\ i \in Ids /\ operation \in [Ids -> RowStates]
    BY <1>1, <1>2, HeadOf DEF DispatchInv, DispatchTypes
<1>4. PICK n : n = LeaseOf(i)
    OBVIOUS
<1>5. n = (IF prod[i] \in Keeps THEN 1 ELSE 0) /\ GoOn(d, {i}, n) /\ prod[i] # "waiting"
    BY <1>2, <1>3, <1>4, LeaseIs
<1> QED BY <1>1, <1>2, <1>3, <1>5, GoOnAfter, PostponeKeeps

LEMMA InterruptedKeeps ==
    ASSUME DispatchInv, NEW d \in Devices, Interrupted(d)
    PROVE  PipeMoves /\ operation' \in [Ids -> RowStates]
<1>1. PICK i : i = pipe[d].head
    OBVIOUS
<1>2. /\ pipe[d].place \in {"sending", "failing"} /\ pipe[d].place \in AtHead /\ dropped' = dropped
      /\ Postpone(i) \/ operation' = operation
      /\ Unwound(d, {i}, LeaseOf(i))
    BY <1>1 DEF Interrupted, AtHead
<1>3. prod[i] \in {"taken", "failed"} /\ i \in Ids /\ operation \in [Ids -> RowStates]
    BY <1>1, <1>2, HeadOf DEF DispatchInv, DispatchTypes
<1>4. PICK n : n = LeaseOf(i)
    OBVIOUS
<1>5. n = (IF prod[i] \in Keeps THEN 1 ELSE 0) /\ Unwound(d, {i}, n) /\ prod[i] # "waiting"
    BY <1>2, <1>3, <1>4, LeaseIs
<1> QED BY <1>1, <1>2, <1>3, <1>5, UnwoundAfter, PostponeKeeps

----------------------------------------------------------------------------
(* Every finite set of operations can be put in the order of creation.      *)
Ordered(T) == \E s \in SetToSeqs(T) : Ascends(s)

LEMMA OrderedIf ==
    ASSUME NEW T, T \subseteq Nat, IsFiniteSet(T), T # {},
           \A m \in T : Ordered(T \ {m})
    PROVE  Ordered(T)
<1>1. PICK m \in T : \A k \in T : m <= k
    BY LeastOf
<1>2. PICK n : n = Cardinality(T)
    OBVIOUS
<1>3. n \in Nat \ {0} /\ Cardinality(T \ {m}) = n - 1
    BY <1>2, FS_CardinalityType, FS_RemoveElement, FS_EmptySet
<1>4. PICK r \in SetToSeqs(T \ {m}) : Ascends(r)
    BY DEF Ordered
<1>5. /\ r \in [1..n - 1 -> T \ {m}]
      /\ \A i, j \in 1..n - 1 : i # j => r[i] # r[j]
    BY <1>3, <1>4 DEF SetToSeqs
<1>6. PICK s : s = [i \in 1..n |-> IF i = 1 THEN m ELSE r[i - 1]]
    OBVIOUS
<1>7. 1 \in 1..n /\ s[1] = m /\ \A i \in 1..n \ {1} : i - 1 \in 1..n - 1 /\ s[i] = r[i - 1]
    BY <1>3, <1>6
<1>8. s \in [1..n -> T] /\ DOMAIN s = 1..n
    BY <1>5, <1>6, <1>7
<1>9. \A i, j \in 1..n : i < j => s[i] < s[j]
    <2>1. ASSUME NEW i \in 1..n, NEW j \in 1..n, i < j PROVE s[i] < s[j]
        <3>1. j # 1 /\ j - 1 \in 1..n - 1 /\ s[j] = r[j - 1]
            BY <1>3, <1>7, <2>1
        <3>2. CASE i = 1
            <4>1. s[i] = m /\ s[j] \in T /\ s[j] # m /\ m \in Nat /\ s[j] \in Nat
                BY <1>5, <1>7, <3>1, <3>2
            <4> QED BY <1>1, <4>1
        <3>3. CASE i # 1
            <4>1. i - 1 \in 1..n - 1 /\ s[i] = r[i - 1] /\ i - 1 < j - 1 /\ DOMAIN r = 1..n - 1
                BY <1>3, <1>5, <1>7, <2>1, <3>3
            <4> QED BY <1>4, <3>1, <4>1 DEF Ascends
        <3> QED BY <3>2, <3>3
    <2> QED BY <2>1
<1>10. \A i, j \in 1..n : i # j => s[i] # s[j]
    <2>1. ASSUME NEW i \in 1..n, NEW j \in 1..n, i # j PROVE s[i] # s[j]
        <3>1. s[i] \in T /\ s[j] \in T
            BY <1>8
        <3>2. s[i] \in Nat /\ s[j] \in Nat
            BY <3>1
        <3>3. i < j \/ j < i
            BY <1>3, <2>1
        <3> QED BY <1>9, <3>2, <3>3
    <2> QED BY <2>1
<1>11. s \in SetToSeqs(T) /\ Ascends(s)
    BY <1>2, <1>8, <1>9, <1>10 DEF SetToSeqs, Ascends
<1> QED BY <1>11 DEF Ordered

LEMMA AllOrdered ==
    ASSUME NEW T, T \subseteq Ids
    PROVE  Ordered(T)
<1> DEFINE Bad == {n \in Nat : \E S \in SUBSET Ids : Cardinality(S) = n /\ ~Ordered(S)}
<1>1. ASSUME NEW S \in SUBSET Ids PROVE IsFiniteSet(S) /\ Cardinality(S) \in Nat /\ S \subseteq Nat
    BY <1>1, DispatchAssumption, FS_Subset, FS_CardinalityType
<1>2. Bad = {}
    <2>1. SUFFICES ASSUME Bad # {} PROVE FALSE
        OBVIOUS
    <2>2. PICK n \in Bad : \A m \in Bad : n <= m
        <3>1. PICK B : B = Bad
            OBVIOUS
        <3>2. B \subseteq Nat /\ B # {}
            BY <2>1, <3>1
        <3>3. \E n \in B : \A m \in B : n <= m
            BY <3>2, LeastOf
        <3> QED BY <3>1, <3>3
    <2>3. PICK S \in SUBSET Ids : Cardinality(S) = n /\ ~Ordered(S)
        BY <2>2
    <2>4. CASE S = {}
        <3>1. PICK f : f = [i \in 1..0 |-> 0]
            OBVIOUS
        <3>2. Cardinality(S) = 0 /\ 1..0 = {}
            BY <2>4, FS_EmptySet
        <3>3. f \in [1..0 -> S] /\ DOMAIN f = {}
            BY <3>1, <3>2
        <3>4. f \in SetToSeqs(S) /\ Ascends(f)
            BY <3>2, <3>3 DEF SetToSeqs, Ascends
        <3> QED BY <2>3, <3>4 DEF Ordered
    <2>5. CASE S # {}
        <3>1. ASSUME NEW m \in S PROVE Ordered(S \ {m})
            <4>1. S \ {m} \in SUBSET Ids
                OBVIOUS
            <4>2. Cardinality(S \ {m}) = n - 1 /\ n \in Nat /\ Cardinality(S \ {m}) \in Nat
                BY <1>1, <2>3, <4>1, FS_RemoveElement
            <4>3. n - 1 \notin Bad
                BY <2>2, <4>2
            <4> QED BY <4>1, <4>2, <4>3
        <3> QED BY <1>1, <2>3, <2>5, <3>1, OrderedIf
    <2> QED BY <2>4, <2>5
<1>3. T \in SUBSET Ids /\ Cardinality(T) \in Nat
    BY <1>1
<1> QED BY <1>2, <1>3

LEMMA AscendingIs ==
    ASSUME NEW T, T \subseteq Ids
    PROVE  Ascending(T) \in Seq(Ids) /\ Ascends(Ascending(T)) /\ ToSet(Ascending(T)) \subseteq T
<1>1. PICK s : s = Ascending(T)
    OBVIOUS
<1>2. s \in SetToSeqs(T) /\ Ascends(s)
    BY <1>1, AllOrdered DEF Ordered, Ascending
<1>3. PICK n : n = Cardinality(T)
    OBVIOUS
<1>4. n \in Nat
    BY <1>3, DispatchAssumption, FS_Subset, FS_CardinalityType
<1>5. s \in [1..n -> T]
    BY <1>2, <1>3 DEF SetToSeqs
<1>6. s \in [1..n -> Ids]
    BY <1>5
<1>7. s \in Seq(Ids)
    BY <1>4, <1>6, SeqDef
<1>8. ToSet(s) \subseteq T
    BY <1>5 DEF ToSet
<1> QED BY <1>1, <1>2, <1>7, <1>8

----------------------------------------------------------------------------
(* The loop's moves, and those of the rest of the Hub.                      *)
LEMMA SlotsStay ==
    ASSUME SlotsKept, prod' = prod, slots' = slots, dropped' = dropped
    PROVE  SlotsKept'
BY DEF SlotsKept, Sound, Semaphore, Value, Held

(* Pipelines and producers stay; a device that lives stays active.          *)
LEMMA LoopKeeps ==
    ASSUME DispatchInv, UNCHANGED <<pipe, prod, doomed, slots, dropped>>, cut' = cut,
           operation' \in [Ids -> RowStates],
           loop' \in {"top", "reading", "read", "waiting", "closing", "ended"},
           found' \in [Devices -> Seq(Ids)], active' \subseteq Devices,
           {stopping', cancelled'} \subseteq BOOLEAN, Looked', Stops'
    PROVE  DispatchInv'
<1>1. SlotsKept'
    BY SlotsStay DEF DispatchInv
<1>2. DispatchTypes' /\ Pipelines' /\ Answered'
    BY DEF DispatchInv, DispatchTypes, Pipelines, Answered
<1> QED BY <1>1, <1>2 DEF DispatchInv

LEMMA RowMovesKeeps ==
    ASSUME DispatchInv, RowMoves
    PROVE  DispatchInv'
<1>1. operation \in [Ids -> RowStates] /\ Looked /\ Stops /\ DispatchTypes
    BY DEF DispatchInv, DispatchTypes
<1>2. operation' \in [Ids -> RowStates]
    BY <1>1 DEF RowMoves
<1>3. Looked' /\ Stops'
    BY <1>1 DEF RowMoves, dispatcher, ending, Looked, Stops
<1> QED BY <1>1, <1>2, <1>3, LoopKeeps DEF RowMoves, dispatcher, ending, DispatchTypes

LEMMA LookKeeps ==
    ASSUME DispatchInv, Look
    PROVE  DispatchInv'
<1>1. Looked /\ Stops /\ DispatchTypes
    BY DEF DispatchInv
<1>2. Looked' /\ Stops'
    BY <1>1 DEF Look, ending, Looked, Stops, DispatchTypes
<1>3. active' \subseteq Devices /\ loop' = "reading"
    BY <1>1 DEF Look, DispatchTypes
<1> QED BY <1>1, <1>2, <1>3, LoopKeeps DEF Look, ending, DispatchTypes

LEMMA QueryKeeps ==
    ASSUME DispatchInv, Query
    PROVE  DispatchInv'
<1>1. Looked /\ Stops /\ DispatchTypes
    BY DEF DispatchInv
<1>2. ASSUME NEW d \in Devices
      PROVE  /\ found'[d] \in Seq(Ids) /\ (found'[d] # <<>> => d \notin active)
             /\ Ascends(found'[d]) /\ \A i \in ToSet(found'[d]) : Device[i] = d
    <2>1. found'[d] = IF d \in active THEN <<>> ELSE Candidates(d)
        BY DEF Query
    <2>2. CASE d \in active
        BY <2>1, <2>2, EmptySeq DEF Ascends, ToSet
    <2>3. CASE d \notin active
        <3>1. PICK T : T = {i \in Ids : Device[i] = d /\ operation[i] = "due"}
            OBVIOUS
        <3>2. T \subseteq Ids /\ found'[d] = Ascending(T) /\ \A i \in T : Device[i] = d
            BY <2>1, <2>3, <3>1 DEF Candidates
        <3>3. Ascending(T) \in Seq(Ids) /\ Ascends(Ascending(T)) /\ ToSet(Ascending(T)) \subseteq T
            BY <3>2, AscendingIs
        <3> QED BY <2>3, <3>2, <3>3
    <2> QED BY <2>2, <2>3
<1>3. found' \in [Devices -> Seq(Ids)]
    <2>1. found' = [d \in Devices |-> found'[d]]
        BY DEF Query
    <2> QED BY <1>2, <2>1
<1>4. Looked' /\ Stops'
    <2>1. active' = active /\ pipe' = pipe /\ cut' = cut /\ dropped' = dropped
          /\ stopping' = stopping /\ cancelled' = cancelled
        BY DEF Query, ending
    <2> QED BY <1>1, <2>1, <1>2 DEF Looked, Stops, Ascends, ToSet
<1> QED BY <1>1, <1>3, <1>4, LoopKeeps DEF Query, ending, DispatchTypes

LEMMA AgainKeeps ==
    ASSUME DispatchInv, Again
    PROVE  DispatchInv'
<1>1. Looked /\ Stops /\ DispatchTypes
    BY DEF DispatchInv
<1>2. Looked' /\ Stops'
    BY <1>1 DEF Again, ending, Looked, Stops
<1> QED BY <1>1, <1>2, LoopKeeps DEF Again, ending, DispatchTypes

LEMMA LoopEndsKeeps ==
    ASSUME DispatchInv, LoopEnds
    PROVE  DispatchInv'
<1>1. Looked /\ Stops /\ DispatchTypes
    BY DEF DispatchInv
<1>2. Looked' /\ Stops'
    BY <1>1 DEF LoopEnds, ending, Looked, Stops
<1> QED BY <1>1, <1>2, LoopKeeps DEF LoopEnds, ending, DispatchTypes

LEMMA StopKeeps ==
    ASSUME DispatchInv, Stop
    PROVE  DispatchInv'
<1>1. Looked /\ Stops /\ DispatchTypes
    BY DEF DispatchInv
<1>2. Looked' /\ Stops'
    BY <1>1 DEF Stop, dispatcher, Looked, Stops
<1> QED BY <1>1, <1>2, LoopKeeps DEF Stop, dispatcher, DispatchTypes

(* Pipelines that have not started anything are put up or taken away.       *)
LEMMA Swapped ==
    ASSUME DispatchInv, NEW D, pipe' \in [Devices -> Pipeline], prod' = prod,
           \A d \in Devices \ D : pipe'[d] = pipe[d],
           \A d \in Devices \cap D : /\ Orderly(pipe'[d], d)
                                     /\ Started(pipe[d]) = {} /\ Started(pipe'[d]) = {}
    PROVE  Pipelines' /\ Answered'
<1>1. ASSUME NEW d \in Devices PROVE Orderly(pipe'[d], d)
    <2>1. Orderly(pipe[d], d)
        BY DEF DispatchInv, Pipelines
    <2> QED BY <2>1
<1>2. Pipelines'
    BY <1>1 DEF Pipelines
<1>3. ASSUME NEW i \in Ids
      PROVE  LET q == pipe'[Device[i]] IN
             /\ prod'[i] # "idle" <=> i \in Started(q)
             /\ prod'[i] = "taken" => q.head = i /\ q.place \in {"sending", "failing"}
             /\ q.head = i /\ q.place = "sending" => prod'[i] = "taken"
             /\ q.head = i /\ q.place = "failing" => prod'[i] \in {"taken", "failed"}
    <2>1. Device[i] \in Devices /\ i # NoId
        BY DispatchAssumption
    <2>2. CASE Device[i] \in D
        <3>1. prod[i] = "idle"
            BY <2>1, <2>2 DEF DispatchInv, Answered
        <3>2. Started(pipe'[Device[i]]) = {}
            BY <2>1, <2>2
        <3>3. pipe'[Device[i]].head # i
            BY <2>1, <3>2 DEF Started
        <3> QED BY <3>1, <3>2, <3>3
    <2>3. CASE Device[i] \notin D
        <3>1. pipe'[Device[i]] = pipe[Device[i]]
            BY <2>1, <2>3
        <3> QED BY <3>1 DEF DispatchInv, Answered
    <2> QED BY <2>2, <2>3
<1>4. Answered'
    BY <1>3 DEF Answered
<1> QED BY <1>2, <1>4

LEMMA FreshIs ==
    ASSUME DispatchInv, NEW d \in Devices, pipe[d].place \in {"none", "new"}
    PROVE  Started(pipe[d]) = {}
<1>1. Orderly(pipe[d], d)
    BY DEF DispatchInv, Pipelines
<1>2. pipe[d].pending = <<>> /\ pipe[d].head = NoId
    BY <1>1 DEF Orderly, AtHead, NoPipe
<1>3. ToSet(<<>>) = {}
    BY DEF ToSet
<1> QED BY <1>2, <1>3 DEF Started

LEMMA StartKeeps ==
    ASSUME DispatchInv, Start
    PROVE  DispatchInv'
<1>1. DispatchTypes /\ Pipelines /\ Answered /\ Looked /\ Stops /\ SlotsKept
    BY DEF DispatchInv
<1>2. PICK D : D = {d \in Devices : found[d] # <<>>}
    OBVIOUS
<1>3. /\ loop = "read" /\ loop' = "waiting" /\ active' = active \cup D
      /\ pipe' = [d \in Devices |->
                IF d \in D THEN [NoPipe EXCEPT !.place = "new", !.rest = found[d]] ELSE pipe[d]]
      /\ found' = [d \in Devices |-> <<>>]
      /\ operation' = operation /\ cut' = cut /\ prod' = prod /\ doomed' = doomed
      /\ slots' = slots /\ dropped' = dropped /\ stopping' = stopping /\ cancelled' = cancelled
    BY <1>2 DEF Start, ending
<1>4. pipe \in [Devices -> Pipeline] /\ found \in [Devices -> Seq(Ids)]
    BY <1>1 DEF DispatchTypes
<1>5. ASSUME NEW d \in Devices, d \in D
      PROVE  /\ pipe'[d] \in Pipeline /\ Orderly(pipe'[d], d)
             /\ Started(pipe[d]) = {} /\ Started(pipe'[d]) = {}
    <2>1. PICK f : f = found[d]
        OBVIOUS
    <2>2. f \in Seq(Ids) /\ d \notin active /\ Ascends(f) /\ \A i \in ToSet(f) : Device[i] = d
        BY <1>1, <1>2, <1>3, <1>4, <1>5, <2>1 DEF Looked
    <2>3. pipe[d].place = "none"
        BY <1>1, <2>2 DEF Looked
    <2>4. Started(pipe[d]) = {}
        BY <2>3, FreshIs
    <2>5. PICK q : q = pipe'[d]
        OBVIOUS
    <2>6. q = [NoPipe EXCEPT !.place = "new", !.rest = f]
        BY <1>3, <1>5, <2>1, <2>5
    <2>7. q = [place |-> "new", rest |-> f, pending |-> <<>>, head |-> NoId]
        BY <2>6 DEF NoPipe
    <2>8. /\ q \in Pipeline /\ q.place = "new" /\ q.rest = f /\ q.pending = <<>> /\ q.head = NoId
        BY <2>2, <2>7, EmptySeq DEF Pipeline, PipePlaces
    <2>9. ToSet(<<>>) = {}
        BY DEF ToSet
    <2>10. Started(q) = {}
        BY <2>8, <2>9 DEF Started
    <2>11. Line(q) = f
        BY <2>2, <2>8, ConcatEmptySeq DEF Line
    <2>12. Orderly(q, d)
        BY <2>2, <2>8, <2>11 DEF Orderly, AtHead
    <2> QED BY <2>4, <2>5, <2>8, <2>10, <2>12
<1>6. \A d \in Devices \ D : pipe'[d] = pipe[d]
    BY <1>3
<1>7. pipe' \in [Devices -> Pipeline]
    <2>1. \A d \in Devices : pipe'[d] \in Pipeline
        BY <1>4, <1>5, <1>6
    <2>2. pipe' = [d \in Devices |-> pipe'[d]]
        BY <1>3
    <2> QED BY <2>1, <2>2
<1>8. Pipelines' /\ Answered'
    BY <1>3, <1>5, <1>6, <1>7, Swapped
<1>9. SlotsKept'
    BY <1>1, <1>3, SlotsStay
<1>10. Looked' /\ Stops'
    <2>1. ASSUME NEW d \in Devices, pipe'[d].place # "none" PROVE d \in active'
        BY <1>1, <1>3, <1>6, <2>1 DEF Looked
    <2> QED BY <1>1, <1>3, <2>1 DEF Looked, Stops
<1>11. DispatchTypes'
    <2>1. found' \in [Devices -> Seq(Ids)]
        BY <1>3, EmptySeq
    <2>2. active' \subseteq Devices
        BY <1>1, <1>2, <1>3 DEF DispatchTypes
    <2> QED BY <1>1, <1>3, <1>7, <2>1, <2>2 DEF DispatchTypes
<1> QED BY <1>8, <1>9, <1>10, <1>11 DEF DispatchInv

LEMMA CancelPipesKeeps ==
    ASSUME DispatchInv, CancelPipes, UNCHANGED <<operation, active, found, prod, slots, dropped>>,
           loop' = "closing", stopping' = stopping, cancelled' \in BOOLEAN, stopping = TRUE
    PROVE  DispatchInv'
<1>1. DispatchTypes /\ Pipelines /\ Answered /\ Looked /\ Stops /\ SlotsKept
    BY DEF DispatchInv
<1>2. PICK alive : alive = {d \in active : pipe[d].place # "none"}
    OBVIOUS
<1>3. PICK inner : inner = {d \in alive : pipe[d].place = "head" /\ Working(pipe[d].head)}
    OBVIOUS
<1>4. PICK D : D = {d \in alive : pipe[d].place = "new"}
    OBVIOUS
<1>5. /\ pipe' = [d \in Devices |-> IF d \in D THEN NoPipe ELSE pipe[d]]
      /\ doomed' = doomed \cup {pipe[d].head : d \in inner}
      /\ cut' = cut \cup (alive \ (inner \cup D))
    BY <1>2, <1>3, <1>4 DEF CancelPipes
<1>6. pipe \in [Devices -> Pipeline] /\ active \subseteq Devices /\ cut \subseteq Devices /\ doomed \subseteq Ids
    BY <1>1 DEF DispatchTypes
<1>7. ASSUME NEW d \in Devices, d \in D
      PROVE  /\ pipe'[d] = NoPipe /\ Orderly(pipe'[d], d)
             /\ Started(pipe[d]) = {} /\ Started(pipe'[d]) = {}
    <2>1. pipe'[d] = NoPipe /\ pipe[d].place = "new"
        BY <1>4, <1>5, <1>7
    <2>2. Orderly(NoPipe, d) /\ Started(NoPipe) = {}
        BY NoPipeIs
    <2>3. Started(pipe[d]) = {}
        BY <2>1, FreshIs
    <2> QED BY <2>1, <2>2, <2>3
<1>8. \A d \in Devices \ D : pipe'[d] = pipe[d]
    BY <1>5
<1>9. pipe' \in [Devices -> Pipeline]
    <2>1. \A d \in Devices : pipe'[d] \in Pipeline
        BY <1>6, <1>7, <1>8, NoPipeIs
    <2>2. pipe' = [d \in Devices |-> pipe'[d]]
        BY <1>5
    <2> QED BY <2>1, <2>2
<1>10. Pipelines' /\ Answered'
    BY <1>7, <1>8, <1>9, Swapped
<1>11. SlotsKept'
    BY <1>1, SlotsStay
<1>12. Looked' /\ Stops'
    <2>1. ASSUME NEW d \in Devices, pipe'[d].place # "none" PROVE d \in active'
        <3>1. d \notin D
            BY <1>7, <2>1, NoPipeIs
        <3> QED BY <1>1, <1>8, <2>1, <3>1 DEF Looked
    <2> QED BY <1>1, <2>1 DEF Looked, Stops
<1>13. doomed' \subseteq Ids /\ cut' \subseteq Devices
    <2>1. ASSUME NEW d \in inner PROVE pipe[d].head \in Ids
        <3>1. d \in Devices /\ pipe[d].place \in AtHead
            BY <1>2, <1>3, <1>6, <2>1 DEF AtHead
        <3> QED BY <3>1, HeadOf
    <2> QED BY <1>2, <1>5, <1>6, <2>1
<1>14. DispatchTypes'
    BY <1>1, <1>9, <1>13 DEF DispatchTypes
<1> QED BY <1>10, <1>11, <1>12, <1>14 DEF DispatchInv

LEMMA LeaveKeeps ==
    ASSUME DispatchInv, Leave
    PROVE  DispatchInv'
<1>1. stopping = TRUE /\ cancelled \in BOOLEAN
    BY DEF DispatchInv, Stops, Leave, DispatchTypes
<1>2. /\ CancelPipes /\ UNCHANGED <<operation, active, found, prod, slots, dropped>>
      /\ loop' = "closing" /\ stopping' = stopping /\ cancelled' \in BOOLEAN
    BY <1>1 DEF Leave, ending
<1> QED BY <1>1, <1>2, CancelPipesKeeps

LEMMA CancelLoopKeeps ==
    ASSUME DispatchInv, CancelLoop
    PROVE  DispatchInv'
<1>1. /\ stopping = TRUE /\ cancelled' = TRUE /\ stopping' = stopping
      /\ UNCHANGED <<operation, active, found, prod, slots, dropped>> /\ loop' = loop
    BY DEF DispatchInv, DispatchTypes, CancelLoop, dispatcher
<1>2. CASE loop = "closing"
    <2>1. CancelPipes /\ loop' = "closing" /\ cancelled' \in BOOLEAN
        BY <1>1, <1>2 DEF CancelLoop
    <2> QED BY <1>1, <2>1, CancelPipesKeeps
<1>3. CASE loop # "closing"
    <2>1. UNCHANGED <<pipe, doomed, cut>>
        BY <1>3 DEF CancelLoop
    <2>2. Looked /\ Stops /\ DispatchTypes
        BY DEF DispatchInv
    <2>3. Looked' /\ Stops'
        BY <1>1, <2>1, <2>2 DEF Looked, Stops
    <2> QED BY <1>1, <2>1, <2>2, <2>3, LoopKeeps DEF DispatchTypes
<1> QED BY <1>2, <1>3

(* A move of a pipeline or a producer.                                      *)
LEMMA MovesKeep ==
    ASSUME DispatchInv, PipeMoves, UNCHANGED <<loop, active, found, stopping, cancelled>>,
           operation' \in [Ids -> RowStates], cut' \subseteq cut,
           dropped' = dropped \/ cut # {}
    PROVE  DispatchInv'
<1>1. DispatchTypes /\ Looked /\ Stops
    BY DEF DispatchInv
<1>2. Looked' /\ Stops'
    BY <1>1 DEF Looked, Stops, PipeMoves
<1>3. DispatchTypes'
    BY <1>1 DEF DispatchTypes, PipeMoves
<1> QED BY <1>2, <1>3 DEF DispatchInv, PipeMoves

----------------------------------------------------------------------------
LEMMA DispatchStarts == DispatchInit => DispatchInv
<1> SUFFICES ASSUME DispatchInit PROVE DispatchInv
    OBVIOUS
<1>1. Free \in Semaphore /\ Free.free = Slots /\ Free.waiters = <<>> /\ Free.handed = {}
    BY DispatchAssumption, EmptySeq DEF Free, Semaphore
<1>2. ToSet(<<>>) = {} /\ DOMAIN <<>> = {} /\ Cardinality({}) = 0
    BY FS_EmptySet DEF ToSet
<1>3. Sound(Free) /\ Value(Free) = Slots
    BY <1>1, <1>2, DispatchAssumption DEF Sound, Value
<1>4. Held = {}
    BY DEF DispatchInit, Held, Keeps, Leased
<1>5. SlotsKept
    <2>1. {i \in Ids : prod[i] = "waiting"} = {}
        BY DEF DispatchInit
    <2>2. slots = Free /\ dropped = 0 /\ Cardinality(Held) = 0
        BY <1>2, <1>4 DEF DispatchInit
    <2>3. Value(slots) + Cardinality(Held) + dropped = Slots
        BY <1>3, <2>2, DispatchAssumption
    <2>4. Sound(slots) /\ ToSet(slots.waiters) = {}
        BY <1>1, <1>2, <1>3, <2>2
    <2> QED BY <2>1, <2>3, <2>4 DEF SlotsKept
<1>6. \A d \in Devices : pipe[d] = NoPipe
    BY DEF DispatchInit
<1>7. Pipelines
    BY <1>6, NoPipeIs DEF Pipelines
<1>8. Answered
    <2>1. \A i \in Ids : prod[i] = "idle" /\ pipe[Device[i]] = NoPipe /\ NoPipe.head # i
        BY <1>6, DispatchAssumption DEF DispatchInit, NoPipe
    <2>2. \A i \in Ids : Started(pipe[Device[i]]) = {}
        BY <2>1, NoPipeIs, DispatchAssumption
    <2> QED BY <2>1, <2>2 DEF Answered
<1>9. Looked /\ Stops
    BY <1>6, NoPipeIs DEF DispatchInit, Looked, Stops
<1>10. DispatchTypes
    <2>1. found \in [Devices -> Seq(Ids)]
        BY EmptySeq DEF DispatchInit
    <2>2. pipe \in [Devices -> Pipeline]
        BY NoPipeIs DEF DispatchInit
    <2> QED BY <2>1, <2>2 DEF DispatchInit, DispatchTypes, RowStates, ProdStates
<1> QED BY <1>5, <1>7, <1>8, <1>9, <1>10 DEF DispatchInv

LEMMA ProducerStep ==
    ASSUME DispatchInv, NEW i \in Ids, Acquire(i) \/ Granted(i) \/ Thrown(i) \/ Prepare(i)
    PROVE  DispatchInv'
<1>1. operation \in [Ids -> RowStates]
    BY DEF DispatchInv, DispatchTypes
<1>2. CASE Acquire(i)
    BY <1>1, <1>2, AcquireKeeps, MovesKeep DEF Acquire, dispatcher, ending
<1>3. CASE Granted(i)
    BY <1>1, <1>3, GrantedKeeps, MovesKeep DEF Granted, dispatcher, ending
<1>4. CASE Thrown(i)
    BY <1>1, <1>4, ThrownKeeps, MovesKeep DEF Thrown, dispatcher, ending
<1>5. CASE Prepare(i)
    <2>1. UNCHANGED <<loop, active, found, stopping, cancelled>> /\ cut' = cut /\ dropped' = dropped
        BY <1>5 DEF Prepare, dispatcher, ending
    <2> QED BY <1>5, <2>1, PrepareKeeps, MovesKeep
<1> QED BY <1>2, <1>3, <1>4, <1>5

LEMMA PipelineStep ==
    ASSUME DispatchInv, NEW d \in Devices,
           \/ Enter(d) \/ HeadReady(d) \/ HeadCancelled(d)
           \/ Sent(d) \/ SendFails(d) \/ Failed(d) \/ Interrupted(d) \/ CleanedUp(d)
    PROVE  DispatchInv'
<1>1. operation \in [Ids -> RowStates]
    BY DEF DispatchInv, DispatchTypes
<1>2. CASE Enter(d)
    BY <1>1, <1>2, EnterKeeps, MovesKeep DEF Enter, dispatcher, ending
<1>3. CASE HeadReady(d)
    <2>1. UNCHANGED <<loop, active, found, stopping, cancelled, operation>> /\ cut' = cut
          /\ dropped' = dropped
        BY <1>3 DEF HeadReady, dispatcher, ending
    <2> QED BY <1>1, <1>3, <2>1, HeadReadyKeeps, MovesKeep
<1>4. CASE HeadCancelled(d)
    <2>1. UNCHANGED <<loop, active, found, stopping, cancelled, operation>> /\ cut' \subseteq cut
          /\ dropped' = dropped
        BY <1>4 DEF HeadCancelled, Unwound, dispatcher, ending
    <2> QED BY <1>1, <1>4, <2>1, HeadCancelledKeeps, MovesKeep
<1>5. CASE Sent(d)
    <2>1. UNCHANGED <<loop, active, found, stopping, cancelled, operation>> /\ cut' = cut
          /\ dropped' = dropped
        BY <1>5 DEF Sent, dispatcher, ending
    <2> QED BY <1>1, <1>5, <2>1, SentKeeps, MovesKeep
<1>6. CASE SendFails(d)
    BY <1>1, <1>6, SendFailsKeeps, MovesKeep DEF SendFails, dispatcher, ending
<1>7. CASE Failed(d)
    <2>1. UNCHANGED <<loop, active, found, stopping, cancelled>> /\ cut' = cut /\ dropped' = dropped
        BY <1>7 DEF Failed, dispatcher, ending
    <2> QED BY <1>7, <2>1, FailedKeeps, MovesKeep
<1>8. CASE Interrupted(d)
    <2>1. UNCHANGED <<loop, active, found, stopping, cancelled>> /\ cut' \subseteq cut
          /\ dropped' = dropped
        BY <1>8 DEF Interrupted, Unwound, dispatcher, ending
    <2> QED BY <1>8, <2>1, InterruptedKeeps, MovesKeep
<1>9. CASE CleanedUp(d)
    <2>1. UNCHANGED <<loop, active, found, stopping, cancelled, operation>> /\ cut' \subseteq cut
        BY <1>9 DEF CleanedUp, dispatcher, ending
    <2>2. dropped' = dropped \/ cut # {}
        <3>1. dropped \in Nat
            BY DEF DispatchInv, DispatchTypes
        <3>2. d \notin cut => dropped' = dropped + 0
            BY <1>9 DEF CleanedUp
        <3> QED BY <3>1, <3>2
    <2> QED BY <1>1, <1>9, <2>1, <2>2, CleanedUpKeeps, MovesKeep
<1> QED BY <1>2, <1>3, <1>4, <1>5, <1>6, <1>7, <1>8, <1>9

LEMMA DispatchStep == DispatchInv /\ [DispatchNext]_dispatchVars => DispatchInv'
<1> SUFFICES ASSUME DispatchInv, [DispatchNext]_dispatchVars PROVE DispatchInv'
    OBVIOUS
<1>1. CASE UNCHANGED dispatchVars
    <2>1. Looked /\ Stops /\ DispatchTypes
        BY DEF DispatchInv
    <2>2. Looked' /\ Stops'
        BY <1>1, <2>1 DEF dispatchVars, Looked, Stops
    <2> QED BY <1>1, <2>1, <2>2, LoopKeeps DEF dispatchVars, DispatchTypes
<1>2. CASE \E i \in Ids : Acquire(i) \/ Granted(i) \/ Thrown(i) \/ Prepare(i)
    BY <1>2, ProducerStep
<1>3. CASE \E d \in Devices :
            \/ Enter(d) \/ HeadReady(d) \/ HeadCancelled(d)
            \/ Sent(d) \/ SendFails(d) \/ Failed(d) \/ Interrupted(d) \/ CleanedUp(d)
    BY <1>3, PipelineStep
<1> QED BY <1>1, <1>2, <1>3, RowMovesKeeps, LookKeeps, QueryKeeps, StartKeeps, AgainKeeps,
           LeaveKeeps, LoopEndsKeeps, StopKeeps, CancelLoopKeeps DEF DispatchNext

LEMMA DispatchInductive == DispatchSpec => []DispatchInv
BY DispatchStarts, DispatchStep, PTL DEF DispatchSpec

LEMMA DispatchBalances == DispatchInv => LeasesBalance
<1> SUFFICES ASSUME DispatchInv PROVE LeasesBalance
    OBVIOUS
<1>1. /\ Sound(slots) /\ ToSet(slots.waiters) = {i \in Ids : prod[i] = "waiting"}
      /\ Value(slots) + Cardinality(Held) + dropped = Slots /\ dropped \in Nat /\ Stops
    BY DEF DispatchInv, SlotsKept, DispatchTypes
<1>2. /\ IsFiniteSet(slots.handed) /\ Cardinality(slots.handed) \in Nat /\ slots.free \in Nat
      /\ IsFiniteSet(Held) /\ Cardinality(Held) \in Nat
    <2>1. PICK s : s = slots
        OBVIOUS
    <2>2. IsFiniteSet(s.handed) /\ Cardinality(s.handed) \in Nat /\ s.free \in Nat
        BY <1>1, <2>1, ValueType
    <2> QED BY <2>1, <2>2, HeldFinite
<1>3. slots.handed \cap Held = {}
    BY <1>1 DEF Sound, Held, Keeps, Leased
<1>4. PICK a, b : a = slots.handed /\ b = Held
    OBVIOUS
<1>5. Holding = a \cup b
    BY <1>4 DEF Holding, Held, Keeps
<1>6. Cardinality(a \cup b) = Cardinality(a) + Cardinality(b)
    <2>1. IsFiniteSet(a) /\ IsFiniteSet(b) /\ a \cap b = {}
        BY <1>2, <1>3, <1>4
    <2>2. Cardinality(a \cup b) = Cardinality(a) + Cardinality(b) - Cardinality(a \cap b)
        BY <2>1, FS_Union
    <2>3. Cardinality(a \cap b) = 0
        BY <2>1, FS_EmptySet
    <2> QED BY <1>2, <1>4, <2>2, <2>3
<1>7. slots.free + Cardinality(Holding) + dropped = Slots
    BY <1>1, <1>2, <1>4, <1>5, <1>6 DEF Value
<1>8. ASSUME NEW i \in Ids, prod[i] # "idle" PROVE Owned(i)
    <2>1. Device[i] \in Devices /\ i \in Started(pipe[Device[i]])
        BY <1>8, DispatchAssumption DEF DispatchInv, Answered
    <2>2. pipe[Device[i]].place # "none"
        BY <2>1, FreshIs
    <2> QED BY <2>1, <2>2 DEF Owned
<1> QED BY <1>1, <1>7, <1>8 DEF LeasesBalance, Stops

LEMMA DispatchSendsInOrder == DispatchInv => SentInOrder
<1> SUFFICES ASSUME DispatchInv, NEW d \in Devices, pipe[d].place = "sending",
                    NEW j \in ToSet(pipe[d].pending) \cup ToSet(pipe[d].rest)
             PROVE  pipe[d].head < j
    BY DEF SentInOrder
<1>1. PICK p : p = pipe[d]
    OBVIOUS
<1>2. Orderly(p, d) /\ p.pending \in Seq(Ids) /\ p.rest \in Seq(Ids) /\ p.place = "sending"
    BY <1>1 DEF DispatchInv, Pipelines, Orderly, Pipeline
<1>3. j \in ToSet(Line(p))
    <2>1. ToSet(p.pending \o p.rest) = ToSet(p.pending) \cup ToSet(p.rest)
        BY <1>2, SetOfBoth
    <2> QED BY <1>1, <2>1 DEF Line
<1> QED BY <1>1, <1>2, <1>3 DEF Orderly, AtHead

(* Every slot of the delivery semaphore is free or held by one request that *)
(* a pipeline still answers for, whatever is cancelled at whatever await    *)
(* (delivery_pipeline.py:10-60).                                            *)
THEOREM LeasesAreBalanced == DispatchSpec => []LeasesBalance
BY DispatchInductive, DispatchBalances, PTL

(* The requests of a device are sent in the order they were created,        *)
(* however their preparations overlap (delivery_pipeline.py:35-50).         *)
THEOREM SendsInOrder == DispatchSpec => []SentInOrder
BY DispatchInductive, DispatchSendsInOrder, PTL

LEMMA DispatchTyped == DispatchInv => DispatchTypeOK
<1> SUFFICES ASSUME DispatchInv PROVE DispatchTypeOK
    OBVIOUS
<1>1. DispatchTypes /\ SlotsKept /\ Sound(slots)
    BY DEF DispatchInv, SlotsKept
<1>2. slots.free \in Nat /\ Cardinality(slots.handed) \in Nat
    <2>1. PICK s : s = slots
        OBVIOUS
    <2>2. s.free \in Nat /\ Cardinality(s.handed) \in Nat
        BY <1>1, <2>1, ValueType
    <2> QED BY <2>1, <2>2
<1>3. slots.free \in 0..Slots /\ dropped \in 0..Slots
    <2>1. Cardinality(Held) \in Nat /\ Slots \in Nat /\ dropped \in Nat
        BY <1>1, HeldFinite DEF DispatchTypes
    <2> QED BY <1>1, <1>2, <2>1 DEF SlotsKept, Value
<1>4. \A d \in Devices : pipe[d] \in Pipeline
    BY <1>1 DEF DispatchTypes
<1>5. slots.handed \subseteq ToSet(slots.waiters)
    BY <1>1 DEF Sound
<1> QED BY <1>1, <1>3, <1>4, <1>5 DEF DispatchTypeOK, DispatchTypes, Pipeline, PipePlaces

(* Dispatch stays within its types; no slot is ever free twice.             *)
THEOREM DispatchTypeCorrect == DispatchSpec => []DispatchTypeOK
BY DispatchInductive, DispatchTyped, PTL
=============================================================================
