---------------------------- MODULE StoreWorker ----------------------------
(***************************************************************************)
(* The single database thread of the Hub (src/hub/store_worker.py) and its *)
(* callers (_run, _settle, _read_phase and close of src/hub/store.py).     *)
(*                                                                         *)
(* A phase is a synchronous function that runs on the thread, alone.  It   *)
(* is accepted into the normal or the control lane; the thread serves both *)
(* by a drain job that is submitted to a thread pool when a phase arrives  *)
(* while none is draining, and that ends when both lanes are empty.  A     *)
(* caller whose task is cancelled waits for its phase all the same.  A     *)
(* read runs on a thread of its own and may end by submitting an audit     *)
(* phase, for which it waits.                                              *)
(*                                                                         *)
(* _lock makes a submission, and a choice of the drain, one step each.     *)
(***************************************************************************)
EXTENDS Naturals, SequencesExt

CONSTANTS
    Normal, Control,   \* callers of run, and of run_control
    Reads,             \* callers of run_read; their audits are normal phases
    Burst,             \* CONTROL_BURST
    None

Phases == Normal \cup Control \cup Reads

ASSUME PhasesAssumption ==
    /\ Normal \cap Control = {} /\ (Normal \cup Control) \cap Reads = {}
    /\ None \notin Phases
    /\ Burst \in Nat \ {0}

VARIABLES
    normal, control,   \* the lanes
    draining,          \* _draining
    closing,           \* _closing
    burst,             \* _control_burst
    pool,              \* drain jobs that the pool has not started
    worker,            \* where the pool's thread is
    phase,             \* what it runs
    caller,            \* where each caller is
    store,             \* how far close has come
    streak             \* history: control phases begun in a row while a normal one waits
                       \* (up to one too many)

lanes  == <<normal, control>>
thread == <<pool, worker, phase>>
vars   == <<lanes, draining, closing, burst, thread, caller, store, streak>>

(* The thread: no drain job; in its loop, about to take _lock; in a phase;  *)
(* leaving its loop.                                                        *)
WorkerPlaces == {"parked", "choosing", "running", "returning"}

(* A caller: none; its future is pending; the same, and its task has been   *)
(* cancelled; its future is done; or a reader that has not submitted.       *)
CallerPlaces == {"away", "awaiting", "draining", "settled", "reading"}

----------------------------------------------------------------------------
Init ==
    /\ normal = <<>> /\ control = <<>>
    /\ draining = FALSE /\ closing = FALSE
    /\ burst = 0
    /\ pool = 0 /\ worker = "parked" /\ phase = None
    /\ caller = [p \in Phases |-> "away"]
    /\ store = "open"
    /\ streak = 0

(* _submit: the first phase of an idle worker starts a drain job.           *)
Forget == draining' = TRUE /\ UNCHANGED pool   \* mutant of StartDrain
StartDrain ==
    /\ draining' = TRUE
    /\ pool' = IF draining THEN pool ELSE pool + 1

Accept(p) ==
    /\ ~closing
    /\ caller' = [caller EXCEPT ![p] = "awaiting"]
    /\ IF p \in Control
       THEN control' = Append(control, p) /\ UNCHANGED normal
       ELSE normal' = Append(normal, p) /\ UNCHANGED control
    /\ StartDrain
    /\ UNCHANGED <<closing, burst, worker, phase, store, streak>>

(* run and run_control.                                                     *)
Submit(p) ==
    /\ p \notin Reads
    /\ caller[p] = "away"
    /\ Accept(p)

(* run_read: accepted by the read pool unless that was shut down.           *)
Read(p) ==
    /\ p \in Reads
    /\ caller[p] = "away"
    /\ store = "open"
    /\ caller' = [caller EXCEPT ![p] = "reading"]
    /\ UNCHANGED <<lanes, draining, closing, burst, thread, store, streak>>

(* The read ends without an audit, or with one.  (A closing worker would    *)
(* refuse the audit; ClosedIsDrained says that this never happens.)         *)
ReadEnds(p) ==
    /\ caller[p] = "reading"
    /\ caller' = [caller EXCEPT ![p] = "away"]
    /\ UNCHANGED <<lanes, draining, closing, burst, thread, store, streak>>

Audit(p) ==
    /\ caller[p] = "reading"
    /\ Accept(p)

----------------------------------------------------------------------------
(* The drain.                                                               *)
Begin ==
    /\ worker = "parked" /\ pool > 0
    /\ worker' = "choosing"
    /\ pool' = pool - 1
    /\ UNCHANGED <<lanes, draining, closing, burst, phase, caller, store, streak>>

ControlFirst == control # <<>>   \* mutant of ControlTurn: no bound on the burst
ControlTurn == control # <<>> /\ (normal = <<>> \/ burst < Burst)

Least(a, b) == IF a <= b THEN a ELSE b


TakeControl ==
    /\ worker = "choosing" /\ ControlTurn
    /\ phase' = Head(control)
    /\ control' = Tail(control)
    /\ worker' = "running"
    /\ burst' = Least(Burst, burst + 1)
    /\ streak' = IF normal = <<>> THEN 0 ELSE Least(Burst + 1, streak + 1)
    /\ UNCHANGED <<normal, draining, closing, pool, caller, store>>

TakeNormal ==
    /\ worker = "choosing" /\ ~ControlTurn /\ normal # <<>>
    /\ phase' = Head(normal)
    /\ normal' = Tail(normal)
    /\ worker' = "running"
    /\ burst' = 0
    /\ streak' = 0
    /\ UNCHANGED <<control, draining, closing, pool, caller, store>>

StayDraining ==   \* mutant of GoIdle: the flag is not reset
    /\ worker = "choosing" /\ normal = <<>> /\ control = <<>>
    /\ worker' = "returning"
    /\ burst' = 0
    /\ streak' = 0
    /\ UNCHANGED <<lanes, draining, closing, pool, phase, caller, store>>

GoIdle ==
    /\ worker = "choosing" /\ normal = <<>> /\ control = <<>>
    /\ worker' = "returning"
    /\ draining' = FALSE
    /\ burst' = 0
    /\ streak' = 0
    /\ UNCHANGED <<lanes, closing, pool, phase, caller, store>>

Return ==
    /\ worker = "returning"
    /\ worker' = "parked"
    /\ UNCHANGED <<lanes, draining, closing, burst, pool, phase, caller, store, streak>>

(* The phase returns or raises: its future is done either way.              *)
Settle ==
    /\ worker = "running"
    /\ worker' = "choosing"
    /\ phase' = None
    /\ caller' = [caller EXCEPT ![phase] = "settled"]
    /\ UNCHANGED <<lanes, draining, closing, burst, pool, store, streak>>

----------------------------------------------------------------------------
(* _settle: a cancelled caller goes on waiting.                             *)
Detach(p) ==   \* mutant of CancelCaller: the task leaves at once
    /\ caller[p] = "awaiting" /\ p \notin Reads
    /\ caller' = [caller EXCEPT ![p] = "away"]
    /\ UNCHANGED <<lanes, draining, closing, burst, thread, store, streak>>

CancelCaller(p) ==
    /\ caller[p] = "awaiting" /\ p \notin Reads
    /\ caller' = [caller EXCEPT ![p] = "draining"]
    /\ UNCHANGED <<lanes, draining, closing, burst, thread, store, streak>>

Leave(p) ==
    /\ caller[p] = "settled"
    /\ caller' = [caller EXCEPT ![p] = "away"]
    /\ UNCHANGED <<lanes, draining, closing, burst, thread, store, streak>>

(* close: first the readers, then the lanes, then the connections.          *)
CloseReads ==
    /\ store = "open"
    /\ store' = "reads"
    /\ UNCHANGED <<lanes, draining, closing, burst, thread, caller, streak>>

ReadsEnded == \A p \in Reads : caller[p] = "away"

CloseLanesAtOnce ==   \* mutant of CloseLanes: the readers are not awaited
    /\ store = "reads"
    /\ store' = "lanes"
    /\ closing' = TRUE
    /\ UNCHANGED <<lanes, draining, burst, thread, caller, streak>>

CloseLanes ==
    /\ store = "reads" /\ ReadsEnded
    /\ store' = "lanes"
    /\ closing' = TRUE
    /\ UNCHANGED <<lanes, draining, burst, thread, caller, streak>>

CloseDatabase ==
    /\ store = "lanes"
    /\ worker = "parked" /\ pool = 0
    /\ store' = "closed"
    /\ UNCHANGED <<lanes, draining, closing, burst, thread, caller, streak>>

Next ==
    \/ \E p \in Phases :
        \/ Submit(p) \/ Read(p) \/ ReadEnds(p) \/ Audit(p)
        \/ CancelCaller(p) \/ Leave(p)
    \/ Begin \/ TakeControl \/ TakeNormal \/ GoIdle \/ Return \/ Settle
    \/ CloseReads \/ CloseLanes \/ CloseDatabase

Spec == Init /\ [][Next]_vars

(* The pool's thread runs, and a phase is finite.                           *)
Fairness == WF_vars(Begin \/ TakeControl \/ TakeNormal \/ GoIdle \/ Return \/ Settle)

FairSpec == Spec /\ Fairness

----------------------------------------------------------------------------
TypeOK ==
    /\ normal \in Seq(Phases) /\ control \in Seq(Phases)
    /\ draining \in BOOLEAN /\ closing \in BOOLEAN
    /\ burst \in 0..Burst
    /\ pool \in Nat
    /\ worker \in WorkerPlaces
    /\ phase \in Phases \cup {None}
    /\ caller \in [Phases -> CallerPlaces]
    /\ store \in {"open", "reads", "lanes", "closed"}
    /\ streak \in Nat

(* No accepted phase is stranded: while a lane holds one, a drain job is    *)
(* running or about to run and will look again (store_worker.py:36-52, 64). *)
NoStranded ==
    normal # <<>> \/ control # <<>> =>
        worker \in {"choosing", "running"} \/ pool > 0

(* Never two drain jobs that have work: one is queued at most, behind one   *)
(* that has found both lanes empty.                                         *)
OneDrain ==
    /\ pool <= 1
    /\ pool = 1 => worker \in {"parked", "returning"}

(* While a normal phase waits, at most Burst control phases begin in a row  *)
(* (store_worker.py:55-60).                                                 *)
BurstBounded == streak <= Burst

(* Where the phase of a caller is: in a lane, or on the thread.             *)
Places(p) == {<<"normal", i>> : i \in {i \in DOMAIN normal : normal[i] = p}}
        \cup {<<"control", i>> : i \in {i \in DOMAIN control : control[i] = p}}
        \cup {<<"thread", 0>> : x \in {x \in {phase} : x = p}}

(* Nobody leaves its phase behind: as long as a phase is in a lane or runs, *)
(* its caller is there, cancelled or not, and it is in one place only       *)
(* (store.py:422-436).                                                      *)
NobodyDetached ==
    \A p \in Phases :
        IF caller[p] \in {"awaiting", "draining"}
        THEN \E place \in Places(p) : Places(p) = {place}
        ELSE Places(p) = {}

(* A closed store has finished everything it accepted, and never refused    *)
(* the audit of a read it had admitted (store.py:455-464).                  *)
ClosedIsDrained ==
    /\ closing => \A p \in Reads : caller[p] # "reading"
    /\ store = "closed" =>
        normal = <<>> /\ control = <<>> /\ phase = None

(* Every accepted phase is finished, whatever the other lane does.          *)
EverythingSettles ==
    \A p \in Phases : caller[p] \in {"awaiting", "draining"} ~> caller[p] = "settled"

=============================================================================
