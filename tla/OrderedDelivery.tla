-------------------------- MODULE OrderedDelivery --------------------------
(***************************************************************************)
(* Dispatch on the Hub (src/hub/delivery_pipeline.py, delivery_loop and    *)
(* stop of src/hub/runtime.py).  A loop reads the operations that are due  *)
(* and starts one pipeline per device.  A pipeline prepares the next       *)
(* request while it sends the one before; each request that is prepared    *)
(* holds one of a fixed number of slots, from a producer task to the end   *)
(* of its send.                                                            *)
(*                                                                         *)
(* Coroutines of one event loop: an action runs from one await to the      *)
(* next.  What a preparation decides is OperationDelivery; here it yields  *)
(* a packet, nothing, or fails.                                            *)
(***************************************************************************)
EXTENDS Naturals, FiniteSets, SequencesExt

CONSTANTS
    Devices,
    Ids,         \* operations, in the order they were created
    Device,      \* the device of each
    Slots,       \* delivery_slots: 8
    Prefetch,    \* 2
    NoId         \* no operation

ASSUME DispatchAssumption ==
    /\ Ids \subseteq Nat /\ IsFiniteSet(Ids) /\ Device \in [Ids -> Devices]
    /\ Slots \in Nat \ {0} /\ Prefetch \in Nat \ {0}
    /\ NoId \notin Ids

VARIABLES
    operation,   \* each operation at the Hub
    loop,        \* where delivery_loop is
    active,      \* active_devices
    found,       \* the candidates it has read
    pipe,        \* the pipeline of each device
    cut,         \* pipelines that a CancelledError is about to be thrown into
    prod,        \* the producer task of each operation
    doomed,      \* producers that are cancelled and have not run since
    slots,       \* the semaphore
    stopping,
    cancelled,   \* stop has cancelled the loop's task
    dropped      \* history: leases that an interrupted clean-up left behind

dispatchVars == <<operation, loop, active, found, pipe, cut, prod, doomed, slots,
                  stopping, cancelled, dropped>>

(* An operation is a candidate ("due") or not: not admitted yet, waiting    *)
(* for its next_attempt, or settled.                                        *)
RowStates == {"due", "later"}

(* A producer: none; not run yet; waiting for a slot; preparing; its four   *)
(* results; "taken": its pipeline has its result.                           *)
Finals  == {"packet", "nothing", "failed", "cancelled"}
Leased  == {"packet", "nothing"}
ProdStates == {"idle", "created", "waiting", "preparing", "taken"} \cup Finals

Smaller(a, b) == IF a <= b THEN a ELSE b

NoPipe == [place |-> "none", rest |-> <<>>, pending |-> <<>>, head |-> NoId]

----------------------------------------------------------------------------
(* The semaphore: free slots, waiters in order, and those of them that were *)
(* handed a slot and have not run yet.                                      *)
Free == [free |-> Slots, waiters |-> <<>>, handed |-> {}]

Before(q, j, i) == \E m, n \in DOMAIN q : m < n /\ q[m] = j /\ q[n] = i

Sleeping(s) == ToSet(s.waiters) \ s.handed

(* The first n of those who sleep.                                          *)
Woken(s, n) ==
    {i \in Sleeping(s) : Cardinality({j \in Sleeping(s) : Before(s.waiters, j, i)}) < n}

WakeUp(s, n) ==
    [s EXCEPT !.free = @ - Cardinality(Woken(s, n)), !.handed = @ \cup Woken(s, n)]

GiveBack(s, n) == WakeUp([s EXCEPT !.free = @ + n], n)

NoLonger(s, i) ==
    [s EXCEPT !.waiters = RemoveAt(@, CHOOSE n \in DOMAIN @ : @[n] = i), !.handed = @ \ {i}]

Resumed(s, i) ==
    LET own == NoLonger(s, i) IN IF own.free > 0 THEN WakeUp(own, 1) ELSE own

KeepsHandedSlot(s, i) == NoLonger(s, i)   \* mutant of Withdrawn: what was handed over is lost
Withdrawn(s, i) ==
    IF i \in s.handed THEN GiveBack(NoLonger(s, i), 1) ELSE NoLonger(s, i)

----------------------------------------------------------------------------
DispatchInit ==
    /\ operation = [i \in Ids |-> "later"]
    /\ loop = "top"
    /\ active = {}
    /\ found = [d \in Devices |-> <<>>]
    /\ pipe = [d \in Devices |-> NoPipe]
    /\ cut = {}
    /\ prod = [i \in Ids |-> "idle"]
    /\ doomed = {}
    /\ slots = Free
    /\ stopping = FALSE /\ cancelled = FALSE
    /\ dropped = 0

dispatcher == <<loop, active, found>>
ending     == <<stopping, cancelled>>

(* The rest of the Hub: admission, retry times, verdicts.                   *)
RowMoves ==
    /\ \E i \in Ids : \E to \in RowStates \ {operation[i]} : operation' = [operation EXCEPT ![i] = to]
    /\ UNCHANGED <<dispatcher, pipe, cut, prod, doomed, slots, ending, dropped>>

----------------------------------------------------------------------------
(* delivery_loop.                                                           *)
Look ==
    /\ loop = "top" /\ ~stopping
    /\ loop' = "reading"
    /\ active' = {d \in active : pipe[d].place # "none"}
    /\ UNCHANGED <<operation, found, pipe, cut, prod, doomed, slots, ending, dropped>>

(* ORDER BY created: a set of operations in that order.                     *)
Ascends(s)   == \A m, n \in DOMAIN s : m < n => s[m] < s[n]
Ascending(S) == CHOOSE s \in SetToSeqs(S) : Ascends(s)

Candidates(d) == Ascending({i \in Ids : Device[i] = d /\ operation[i] = "due"})

Query ==
    /\ loop = "reading"
    /\ loop' = "read"
    /\ found' = [d \in Devices |-> IF d \in active THEN <<>> ELSE Candidates(d)]
    /\ UNCHANGED <<operation, active, pipe, cut, prod, doomed, slots, ending, dropped>>

Start ==
    /\ loop = "read" /\ ~cancelled
    /\ loop' = "waiting"
    /\ LET some == {d \in Devices : found[d] # <<>>} IN
        /\ active' = active \cup some
        /\ pipe' = [d \in Devices |->
                IF d \in some THEN [NoPipe EXCEPT !.place = "new", !.rest = found[d]]
                ELSE pipe[d]]
    /\ found' = [d \in Devices |-> <<>>]
    /\ UNCHANGED <<operation, cut, prod, doomed, slots, ending, dropped>>

(* The wake event or its timeout.                                           *)
Again ==
    /\ loop = "waiting" /\ ~cancelled
    /\ loop' = "top"
    /\ UNCHANGED <<operation, active, found, pipe, cut, prod, doomed, slots, ending, dropped>>

(* task.cancel() for every pipeline: one that has not run never will, one   *)
(* that awaits a running producer cancels that, any other gets the error.   *)
Working(i) == prod[i] \in {"created", "waiting", "preparing"}

CancelPipes ==
    LET alive == {d \in active : pipe[d].place # "none"}
        inner == {d \in alive : pipe[d].place = "head" /\ Working(pipe[d].head)}
        fresh == {d \in alive : pipe[d].place = "new"}
    IN /\ pipe' = [d \in Devices |-> IF d \in fresh THEN NoPipe ELSE pipe[d]]
       /\ doomed' = doomed \cup {pipe[d].head : d \in inner}
       /\ cut' = cut \cup (alive \ (inner \cup fresh))

(* The finally clause, entered because stopping was seen or because the     *)
(* loop's own task was cancelled.                                           *)
Leave ==
    /\ \/ loop = "top" /\ stopping
       \/ loop \in {"top", "read", "waiting"} /\ cancelled
    /\ loop' = "closing"
    /\ CancelPipes
    /\ UNCHANGED <<operation, active, found, prod, slots, ending, dropped>>

Stop ==
    /\ ~stopping
    /\ stopping' = TRUE
    /\ UNCHANGED <<operation, dispatcher, pipe, cut, prod, doomed, slots, cancelled, dropped>>

(* stop cancels the loop, which passes it on when it awaits its pipelines.  *)
CancelLoop ==
    /\ stopping /\ ~cancelled
    /\ cancelled' = TRUE
    /\ IF loop = "closing" THEN CancelPipes ELSE UNCHANGED <<pipe, doomed, cut>>
    /\ UNCHANGED <<operation, dispatcher, prod, slots, stopping, dropped>>

LoopEnds ==
    /\ loop = "closing"
    /\ \A d \in active : pipe[d].place = "none"
    /\ loop' = "ended"
    /\ UNCHANGED <<operation, active, found, pipe, cut, prod, doomed, slots, ending, dropped>>

----------------------------------------------------------------------------
(* prepared: the producer of i.  Tasks first run in the order of creation.  *)
AcquireUnordered(i) ==   \* mutant of FirstRun: a later request may be first
    prod[i] = "created"
FirstRun(i) ==
    /\ prod[i] = "created"
    /\ \A j \in Ids : j < i /\ Device[j] = Device[i] => prod[j] # "created"

Acquire(i) ==
    /\ FirstRun(i) /\ i \notin doomed
    /\ IF slots.free > 0 /\ slots.waiters = <<>>
       THEN /\ slots' = [slots EXCEPT !.free = @ - 1]
            /\ prod' = [prod EXCEPT ![i] = "preparing"]
       ELSE /\ slots' = [slots EXCEPT !.waiters = Append(@, i)]
            /\ prod' = [prod EXCEPT ![i] = "waiting"]
    /\ UNCHANGED <<operation, dispatcher, pipe, cut, doomed, ending, dropped>>

Granted(i) ==
    /\ prod[i] = "waiting" /\ i \in slots.handed /\ i \notin doomed
    /\ slots' = Resumed(slots, i)
    /\ prod' = [prod EXCEPT ![i] = "preparing"]
    /\ UNCHANGED <<operation, dispatcher, pipe, cut, doomed, ending, dropped>>

(* Cancelled before it prepares.                                            *)
Thrown(i) ==
    /\ i \in doomed /\ prod[i] \in {"created", "waiting"}
    /\ slots' = IF prod[i] = "waiting" THEN Withdrawn(slots, i) ELSE slots
    /\ prod' = [prod EXCEPT ![i] = "cancelled"]
    /\ doomed' = doomed \ {i}
    /\ UNCHANGED <<operation, dispatcher, pipe, cut, ending, dropped>>

(* What a preparation makes of the row, and yields.                         *)
Outcomes(r) == {<<"later", "packet">>, <<"later", "nothing">>, <<r, "failed">>}

(* A cancelled producer lets its database phase settle, and gives back.     *)
Prepare(i) ==
    /\ prod[i] = "preparing"
    /\ \E o \in Outcomes(operation[i]) :
        LET result == IF i \in doomed THEN "cancelled" ELSE o[2] IN
        /\ operation' = [operation EXCEPT ![i] = o[1]]
        /\ prod' = [prod EXCEPT ![i] = result]
        /\ slots' = IF result \in Leased THEN slots ELSE GiveBack(slots, 1)
    /\ doomed' = doomed \ {i}
    /\ UNCHANGED <<dispatcher, pipe, cut, ending, dropped>>

----------------------------------------------------------------------------
(* ordered_delivery.  Filled starts producers up to Prefetch; Turn goes     *)
(* round the loop to its next await, or into the finally clause.            *)
Filled(p) ==
    LET n == IF stopping \/ Len(p.pending) >= Prefetch THEN 0
             ELSE Smaller(Prefetch - Len(p.pending), Len(p.rest))
    IN [p EXCEPT !.pending = @ \o SubSeq(p.rest, 1, n),
                 !.rest = SubSeq(@, n + 1, Len(@))]

TurnNewest(p) ==   \* mutant of Turn: pop instead of popleft
    LET f == Filled(p) IN
    IF f.pending # <<>> /\ ~stopping
    THEN [f EXCEPT !.place = "head", !.head = Last(f.pending), !.pending = Front(@)]
    ELSE [f EXCEPT !.place = "closing", !.head = NoId]

Turn(p) ==
    LET f == Filled(p) IN
    IF f.pending # <<>> /\ ~stopping
    THEN [f EXCEPT !.place = "head", !.head = Head(f.pending), !.pending = Tail(@)]
    ELSE [f EXCEPT !.place = "closing", !.head = NoId]

Started(p) == ToSet(p.pending) \cup ({p.head} \ {NoId})

(* The pipeline of d goes on after its head, which is done with (from); how *)
(* many leases it gives back is n.                                          *)
GoOn(d, from, n) ==
    LET next == Turn(pipe[d])
        new  == Started(next) \ Started(pipe[d])
    IN /\ pipe' = [pipe EXCEPT ![d] = next]
       /\ prod' = [i \in Ids |-> IF i \in new THEN "created"
                                 ELSE IF i \in from THEN "idle" ELSE prod[i]]
       /\ doomed' = IF next.place = "closing"
                    THEN doomed \cup {i \in ToSet(next.pending) : Working(i)} ELSE doomed
       /\ slots' = GiveBack(slots, n)

Unwound(d, from, n) ==
    /\ pipe' = [pipe EXCEPT ![d].place = "closing", ![d].head = NoId]
    /\ prod' = [i \in Ids |-> IF i \in from THEN "idle" ELSE prod[i]]
    /\ doomed' = doomed \cup {i \in ToSet(pipe[d].pending) : Working(i)}
    /\ slots' = GiveBack(slots, n)
    /\ cut' = cut \ {d}

Enter(d) ==
    /\ pipe[d].place = "new"
    /\ GoOn(d, {}, 0)
    /\ UNCHANGED <<operation, dispatcher, cut, ending, dropped>>

(* The head's producer has ended: send, skip, or report the failure.        *)
MaySend(i) == prod[i] = "packet" /\ ~stopping

HeadReady(d) ==
    LET i == pipe[d].head IN
    /\ pipe[d].place = "head" /\ d \notin cut
    /\ \/ /\ MaySend(i)
          /\ pipe' = [pipe EXCEPT ![d].place = "sending"]
          /\ prod' = [prod EXCEPT ![i] = "taken"]
          /\ UNCHANGED <<doomed, slots>>
       \/ /\ prod[i] \in Leased /\ ~MaySend(i)
          /\ GoOn(d, {i}, 1)
       \/ /\ prod[i] = "failed"
          /\ pipe' = [pipe EXCEPT ![d].place = "failing"]
          /\ UNCHANGED <<prod, doomed, slots>>
    /\ UNCHANGED <<operation, dispatcher, cut, ending, dropped>>

HeadCancelled(d) ==
    LET i == pipe[d].head IN
    /\ pipe[d].place = "head"
    /\ \/ d \in cut /\ prod[i] \in Finals
       \/ prod[i] = "cancelled"
    /\ Unwound(d, {i}, IF prod[i] \in Leased THEN 1 ELSE 0)
    /\ UNCHANGED <<operation, dispatcher, ending, dropped>>

Sent(d) ==
    /\ pipe[d].place = "sending" /\ d \notin cut
    /\ GoOn(d, {pipe[d].head}, 1)
    /\ UNCHANGED <<operation, dispatcher, cut, ending, dropped>>

SendFails(d) ==
    /\ pipe[d].place = "sending" /\ d \notin cut
    /\ pipe' = [pipe EXCEPT ![d].place = "failing"]
    /\ UNCHANGED <<operation, dispatcher, cut, prod, doomed, slots, ending, dropped>>

(* _delivery_failed: the row waits before it is tried again.                *)
Postpone(i) ==
    operation' = [operation EXCEPT ![i] = IF @ = "due" THEN "later" ELSE @]

LeaseOf(i) == IF prod[i] = "taken" THEN 1 ELSE 0

Failed(d) ==
    LET i == pipe[d].head IN
    /\ pipe[d].place = "failing" /\ d \notin cut
    /\ Postpone(i)
    /\ GoOn(d, {i}, LeaseOf(i))
    /\ UNCHANGED <<dispatcher, cut, ending, dropped>>

(* Cancelled while sending, or while a failure is stored (which settles).   *)
Interrupted(d) ==
    LET i == pipe[d].head IN
    /\ pipe[d].place \in {"sending", "failing"} /\ d \in cut
    /\ IF pipe[d].place = "failing" THEN Postpone(i) ELSE UNCHANGED operation
    /\ Unwound(d, {i}, LeaseOf(i))
    /\ UNCHANGED <<dispatcher, ending, dropped>>

(* The finally clause has awaited its producers.  When it was cancelled     *)
(* itself, the leases they still had are not given back.                    *)
CleanedUp(d) ==
    LET mine == ToSet(pipe[d].pending)
        kept == Cardinality({i \in mine : prod[i] \in Leased})
    IN /\ pipe[d].place = "closing"
       /\ \A i \in mine : ~Working(i)
       /\ slots' = GiveBack(slots, IF d \in cut THEN 0 ELSE kept)
       /\ dropped' = dropped + (IF d \in cut THEN kept ELSE 0)
       /\ pipe' = [pipe EXCEPT ![d] = NoPipe]
       /\ prod' = [i \in Ids |-> IF i \in mine THEN "idle" ELSE prod[i]]
       /\ cut' = cut \ {d}
       /\ UNCHANGED <<operation, dispatcher, doomed, ending>>

DispatchNext ==
    \/ RowMoves
    \/ Look \/ Query \/ Start \/ Again \/ Leave \/ LoopEnds
    \/ Stop \/ CancelLoop
    \/ \E i \in Ids : Acquire(i) \/ Granted(i) \/ Thrown(i) \/ Prepare(i)
    \/ \E d \in Devices :
        \/ Enter(d) \/ HeadReady(d) \/ HeadCancelled(d)
        \/ Sent(d) \/ SendFails(d) \/ Failed(d) \/ Interrupted(d) \/ CleanedUp(d)

DispatchSpec == DispatchInit /\ [][DispatchNext]_dispatchVars

(* The event loop runs what is ready; a database phase and a send end.      *)
DispatchFairness ==
    /\ WF_dispatchVars(Look \/ Query \/ Start \/ Again)
    /\ \A i \in Ids : WF_dispatchVars(Acquire(i) \/ Granted(i) \/ Thrown(i) \/ Prepare(i))
    /\ \A d \in Devices :
        WF_dispatchVars(Enter(d) \/ HeadReady(d) \/ HeadCancelled(d) \/ Sent(d) \/ SendFails(d)
                \/ Failed(d) \/ Interrupted(d) \/ CleanedUp(d))

DispatchFairSpec == DispatchSpec /\ DispatchFairness

----------------------------------------------------------------------------
DispatchTypeOK ==
    /\ operation \in [Ids -> RowStates]
    /\ loop \in {"top", "reading", "read", "waiting", "closing", "ended"}
    /\ active \subseteq Devices /\ cut \subseteq Devices
    /\ found \in [Devices -> Seq(Ids)]
    /\ \A d \in Devices :
        /\ pipe[d].place \in {"none", "new", "head", "sending", "failing", "closing"}
        /\ pipe[d].head \in Ids \cup {NoId}
        /\ {pipe[d].rest, pipe[d].pending} \subseteq Seq(Ids)
    /\ prod \in [Ids -> ProdStates]
    /\ doomed \subseteq Ids
    /\ slots.free \in 0..Slots
    /\ slots.handed \subseteq ToSet(slots.waiters)
    /\ {stopping, cancelled} \subseteq BOOLEAN
    /\ dropped \in 0..Slots

(* Every slot is free or is held by one request that some pipeline still    *)
(* answers for, through failures and cancellation at every await; the one   *)
(* exception is a clean-up that is itself cancelled.                        *)
Holding == slots.handed \cup {i \in Ids : prod[i] \in {"preparing", "taken"} \cup Leased}

Owned(i) ==
    \E d \in Devices : pipe[d].place # "none" /\ i \in Started(pipe[d])

LeasesBalance ==
    /\ slots.free + Cardinality(Holding) + dropped = Slots
    /\ \A i \in Ids : prod[i] # "idle" => Owned(i)
    /\ dropped > 0 => stopping

(* The requests of a device go out in the order they were created, however  *)
(* their preparations overlap: when one is sent, no earlier one of its      *)
(* pipeline is still to come (delivery_pipeline.py:35-50).                  *)
SentInOrder ==
    \A d \in Devices : pipe[d].place = "sending" =>
        \A j \in ToSet(pipe[d].pending) \cup ToSet(pipe[d].rest) : pipe[d].head < j

(* Every operation that is due is taken up, however the slots are shared,   *)
(* unless the Hub stops (delivery_pipeline.py:18-50, runtime.py:1247-1291). *)
EveryRowTried == \A i \in Ids : operation[i] = "due" ~> operation[i] # "due" \/ stopping

=============================================================================
