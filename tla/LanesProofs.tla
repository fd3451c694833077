----------------------------- MODULE LanesProofs -----------------------------
(***************************************************************************)
(* What the two components that work off lanes of the Hub promise for any  *)
(* number of callers and sessions: the database thread (StoreWorker) and   *)
(* the synchronisation of transcripts (SyncFlow).                          *)
(*                                                                         *)
(* The thread.  No accepted phase is stranded, drain jobs do not pile up,  *)
(* control phases do not push back a normal one for longer than the burst, *)
(* closing drains, and no phase runs without its caller.                   *)
(*                                                                         *)
(* NoStranded is not inductive: a submission trusts the flag _draining, so *)
(* the flag must say exactly when a drain job will look again (Drains).    *)
(* BurstBounded needs the counter of the code to bound the true streak.    *)
(* NobodyDetached needs to know where each phase is (Placed): in one lane, *)
(* once, or in the thread, exactly while its caller waits.                 *)
(*                                                                         *)
(* The transcripts.  A chunk without progress is not sent more often than  *)
(* the window is wide.  Why that is so is the second half of this module,  *)
(* from FlowTypes on.                                                      *)
(***************************************************************************)
EXTENDS StoreWorker, SyncFlow,
        SequenceTheorems, FiniteSetTheorems, WellFoundedInduction, TLAPS

(* The flag, the pool and the thread agree.                                 *)
Drains ==
    /\ pool \in {0, 1}
    /\ draining <=> (pool = 1 \/ worker \in {"choosing", "running"})
    /\ pool = 1 => worker \in {"parked", "returning"}
    /\ normal # <<>> \/ control # <<>> => draining
    /\ phase # None => worker = "running"

Counts == streak <= burst

Closing ==
    /\ closing <=> store \in {"lanes", "closed"}
    /\ closing => \A p \in Reads : caller[p] # "reading"
    /\ store = "closed" => ~draining

IInv == TypeOK /\ Drains /\ Counts /\ Closing

----------------------------------------------------------------------------
LEMMA LeastType == \A a, b \in Nat : Least(a, b) \in Nat /\ Least(a, b) <= a /\ Least(a, b) <= b
BY DEF Least

LEMMA HeadTail ==
    ASSUME NEW S, NEW lane \in Seq(S), lane # <<>>
    PROVE  Head(lane) \in S /\ Tail(lane) \in Seq(S)
BY HeadTailProperties

LEMMA InitIInv == Init => IInv
<1> SUFFICES ASSUME Init PROVE IInv
    OBVIOUS
<1>1. normal \in Seq(Phases) /\ control \in Seq(Phases)
    BY EmptySeq DEF Init
<1>2. caller \in [Phases -> CallerPlaces] /\ \A p \in Phases : caller[p] = "away"
    BY DEF Init, CallerPlaces
<1>3. burst \in 0..Burst /\ pool \in Nat /\ streak \in Nat
    BY PhasesAssumption DEF Init
<1>8. worker \in WorkerPlaces /\ phase \in Phases \cup {None} /\ store \in {"open", "reads", "lanes", "closed"}
    BY DEF Init, WorkerPlaces
<1>9. draining \in BOOLEAN /\ closing \in BOOLEAN
    BY DEF Init
<1>10. TypeOK
    BY <1>1, <1>2, <1>3, <1>8, <1>9 DEF TypeOK
<1>4. Drains
    BY DEF Init, Drains
<1>5. Counts
    BY DEF Init, Counts
<1>6. closing = FALSE /\ store = "open"
    BY DEF Init
<1>7. Closing
    BY <1>2, <1>6 DEF Closing
<1> QED BY <1>10, <1>4, <1>5, <1>7 DEF IInv

LEMMA AcceptIInv ==
    ASSUME IInv, NEW p \in Phases, Accept(p), p \in Reads => caller[p] = "reading"
    PROVE  IInv'
<1>1. TypeOK'
  <2>1. normal' \in Seq(Phases) /\ control' \in Seq(Phases)
    <3>1. normal \in Seq(Phases) /\ control \in Seq(Phases)
        BY DEF IInv, TypeOK
    <3>2. Append(normal, p) \in Seq(Phases) /\ Append(control, p) \in Seq(Phases)
        BY <3>1, AppendProperties
    <3>3. normal' \in {normal, Append(normal, p)} /\ control' \in {control, Append(control, p)}
        BY DEF Accept
    <3> QED BY <3>1, <3>2, <3>3
  <2>2. pool' \in Nat /\ draining' \in BOOLEAN
      BY DEF IInv, TypeOK, Accept, StartDrain
  <2>3. caller' \in [Phases -> CallerPlaces]
      BY DEF IInv, TypeOK, Accept, CallerPlaces
  <2> QED BY <2>1, <2>2, <2>3 DEF IInv, TypeOK, Accept
<1>2. Drains'
  <2>1. draining' = TRUE /\ phase' = phase /\ worker' = worker
      BY DEF Accept, StartDrain
  <2>2. CASE draining
      BY <2>1, <2>2 DEF IInv, Drains, Accept, StartDrain
  <2>3. CASE ~draining
    <3>1. pool = 0 /\ worker \in {"parked", "returning"}
        BY <2>3 DEF IInv, Drains, TypeOK, WorkerPlaces
    <3>2. pool' = 1
        BY <2>3, <3>1 DEF Accept, StartDrain
    <3> QED BY <2>1, <3>1, <3>2 DEF IInv, Drains
  <2> QED BY <2>2, <2>3
<1>3. Counts'
    BY DEF IInv, Counts, Accept
<1>4. Closing'
  <2>1. ~closing /\ closing' = closing /\ store' = store
      BY DEF Accept
  <2> QED BY <2>1 DEF IInv, Closing
<1> QED BY <1>1, <1>2, <1>3, <1>4 DEF IInv

(* A step in which a caller only moves: from or to where.                   *)
LEMMA CallerIInv ==
    ASSUME IInv, NEW p \in Phases, NEW place \in CallerPlaces,
           caller' = [caller EXCEPT ![p] = place],
           place = "reading" => store = "open",
           UNCHANGED <<lanes, draining, closing, burst, thread, store, streak>>
    PROVE  IInv'
<1>1. TypeOK'
    BY DEF IInv, TypeOK, lanes, thread
<1>2. Drains' /\ Counts'
    BY DEF IInv, Drains, Counts, lanes, thread
<1>3. Closing'
    BY DEF IInv, Closing, TypeOK
<1> QED BY <1>1, <1>2, <1>3 DEF IInv

LEMMA BeginIInv == ASSUME IInv, Begin PROVE IInv'
<1>1. pool = 1 /\ pool' = 0 /\ worker' = "choosing"
    BY DEF IInv, Drains, Begin
<1>2. TypeOK'
    BY <1>1 DEF IInv, TypeOK, Begin, lanes, WorkerPlaces
<1>3. Drains' /\ Counts' /\ Closing'
    BY <1>1 DEF IInv, Drains, Counts, Closing, Begin, lanes
<1> QED BY <1>2, <1>3 DEF IInv

LEMMA TakeControlIInv == ASSUME IInv, TakeControl PROVE IInv'
<1>1. Head(control) \in Phases /\ Tail(control) \in Seq(Phases)
    BY HeadTail DEF IInv, TypeOK, TakeControl, ControlTurn
<1>2. burst \in Nat /\ burst <= Burst /\ streak \in Nat /\ Burst \in Nat /\ streak <= burst
    BY PhasesAssumption DEF IInv, TypeOK, Counts
<1>3. burst' \in 0..Burst /\ streak' \in Nat /\ streak' <= burst'
  <2>1. CASE normal = <<>>
      BY <1>2, <2>1 DEF TakeControl, Least
  <2>2. CASE normal # <<>>
    <3>1. burst < Burst
        BY <2>2 DEF TakeControl, ControlTurn
    <3> QED BY <1>2, <2>2, <3>1 DEF TakeControl, Least
  <2> QED BY <2>1, <2>2
<1>4. TypeOK'
    BY <1>1, <1>3 DEF IInv, TypeOK, TakeControl, WorkerPlaces
<1>5. Drains' /\ Closing'
    BY DEF IInv, Drains, Closing, TakeControl
<1> QED BY <1>3, <1>4, <1>5 DEF IInv, Counts

LEMMA TakeNormalIInv == ASSUME IInv, TakeNormal PROVE IInv'
<1>1. Head(normal) \in Phases /\ Tail(normal) \in Seq(Phases)
    BY HeadTail DEF IInv, TypeOK, TakeNormal
<1>2. TypeOK' /\ Counts'
    BY <1>1, PhasesAssumption DEF IInv, TypeOK, Counts, TakeNormal, WorkerPlaces
<1>3. Drains' /\ Closing'
    BY DEF IInv, Drains, Closing, TakeNormal
<1> QED BY <1>2, <1>3 DEF IInv

LEMMA GoIdleIInv == ASSUME IInv, GoIdle PROVE IInv'
<1>0. /\ normal' = normal /\ control' = control /\ closing' = closing
      /\ pool' = pool /\ phase' = phase /\ caller' = caller /\ store' = store
    BY DEF GoIdle, lanes
<1>1. TypeOK' /\ Counts'
  <2>1. burst' \in 0..Burst /\ streak' \in Nat /\ streak' <= burst'
      BY PhasesAssumption DEF GoIdle
  <2>2. worker' \in WorkerPlaces /\ draining' \in BOOLEAN
      BY DEF GoIdle, WorkerPlaces
  <2> QED BY <1>0, <2>1, <2>2 DEF IInv, TypeOK, Counts
<1>2. pool = 0
    BY DEF IInv, Drains, GoIdle
<1>3. Drains' /\ Closing'
    BY <1>2 DEF IInv, Drains, Closing, GoIdle, lanes
<1> QED BY <1>1, <1>3 DEF IInv

LEMMA ReturnIInv == ASSUME IInv, Return PROVE IInv'
<1>1. TypeOK' /\ Counts'
    BY DEF IInv, TypeOK, Counts, Return, lanes, WorkerPlaces
<1>2. Drains' /\ Closing'
    BY DEF IInv, Drains, Closing, Return, lanes
<1> QED BY <1>1, <1>2 DEF IInv

LEMMA SettleIInv == ASSUME IInv, Settle PROVE IInv'
<1>1. TypeOK' /\ Counts'
    BY DEF IInv, TypeOK, Counts, Settle, lanes, WorkerPlaces, CallerPlaces
<1>2. Drains'
    BY DEF IInv, Drains, Settle, lanes
<1>3. Closing'
  <2>1. \A p \in Phases : caller'[p] = "reading" => caller[p] = "reading"
      BY DEF IInv, TypeOK, Settle
  <2> QED BY <2>1 DEF IInv, Closing, Settle, Phases
<1> QED BY <1>1, <1>2, <1>3 DEF IInv

LEMMA CloseIInv == ASSUME IInv, CloseReads \/ CloseLanes \/ CloseDatabase PROVE IInv'
<1>1. /\ normal' = normal /\ control' = control /\ draining' = draining /\ burst' = burst
      /\ pool' = pool /\ worker' = worker /\ phase' = phase /\ caller' = caller
      /\ streak' = streak
    BY DEF CloseReads, CloseLanes, CloseDatabase, lanes, thread
<1>2. closing' \in BOOLEAN /\ store' \in {"open", "reads", "lanes", "closed"}
    BY DEF IInv, TypeOK, CloseReads, CloseLanes, CloseDatabase
<1>3. TypeOK'
    BY <1>1, <1>2 DEF IInv, TypeOK
<1>4. Drains' /\ Counts'
    BY <1>1 DEF IInv, Drains, Counts
<1>5. ASSUME CloseReads PROVE Closing'
  <2>1. store = "open" /\ store' = "reads" /\ closing' = closing
      BY <1>5 DEF CloseReads
  <2> QED BY <1>1, <2>1 DEF IInv, Closing
<1>6. ASSUME CloseLanes PROVE Closing'
  <2>1. store' = "lanes" /\ closing' = TRUE
      BY <1>6 DEF CloseLanes
  <2>2. \A p \in Reads : caller'[p] # "reading"
      BY <1>1, <1>6 DEF CloseLanes, ReadsEnded
  <2> QED BY <2>1, <2>2 DEF Closing
<1>7. ASSUME CloseDatabase PROVE Closing'
  <2>1. ~draining
      BY <1>7 DEF IInv, Drains, CloseDatabase
  <2>2. store = "lanes" /\ store' = "closed" /\ closing' = closing
      BY <1>7 DEF CloseDatabase, lanes
  <2> QED BY <1>1, <2>1, <2>2 DEF IInv, Closing
<1>8. Closing'
    BY <1>5, <1>6, <1>7
<1> QED BY <1>3, <1>4, <1>8 DEF IInv

----------------------------------------------------------------------------
(* The inductive invariant.                                                 *)
THEOREM Invariance == Spec => []IInv
<1>1. IInv /\ [Next]_vars => IInv'
  <2> SUFFICES ASSUME IInv, [Next]_vars PROVE IInv'
      OBVIOUS
  <2>1. ASSUME NEW p \in Phases, Submit(p) PROVE IInv'
      BY <2>1, AcceptIInv DEF Submit
  <2>2. ASSUME NEW p \in Phases, Read(p) PROVE IInv'
      BY <2>2, CallerIInv DEF Read, CallerPlaces
  <2>3. ASSUME NEW p \in Phases, ReadEnds(p) PROVE IInv'
      BY <2>3, CallerIInv DEF ReadEnds, CallerPlaces
  <2>4. ASSUME NEW p \in Phases, Audit(p) PROVE IInv'
      BY <2>4, AcceptIInv DEF Audit
  <2>5. ASSUME NEW p \in Phases, CancelCaller(p) PROVE IInv'
      BY <2>5, CallerIInv DEF CancelCaller, CallerPlaces
  <2>6. ASSUME NEW p \in Phases, Leave(p) PROVE IInv'
      BY <2>6, CallerIInv DEF Leave, CallerPlaces
  <2>7. CASE Begin \/ TakeControl \/ TakeNormal \/ GoIdle \/ Return \/ Settle
      BY <2>7, BeginIInv, TakeControlIInv, TakeNormalIInv, GoIdleIInv, ReturnIInv, SettleIInv
  <2>8. CASE CloseReads \/ CloseLanes \/ CloseDatabase
      BY <2>8, CloseIInv
  <2>9. CASE UNCHANGED vars
      BY <2>9 DEF IInv, TypeOK, Drains, Counts, Closing, vars, lanes, thread
  <2> QED BY <2>1, <2>2, <2>3, <2>4, <2>5, <2>6, <2>7, <2>8, <2>9 DEF Next
<1> QED BY <1>1, InitIInv, PTL DEF Spec

(* Every variable keeps its type.                                           *)
THEOREM TypeCorrect == Spec => []TypeOK
<1>1. IInv => TypeOK
    BY DEF IInv
<1> QED BY <1>1, Invariance, PTL

(* A phase that was accepted is never left in a lane that nobody serves     *)
(* (store_worker.py:36-52, 61-65).                                          *)
THEOREM AcceptedIsServed == Spec => []NoStranded
<1>1. IInv => NoStranded
    BY DEF IInv, Drains, NoStranded
<1> QED BY <1>1, Invariance, PTL

(* Drain jobs never pile up in the thread pool (store_worker.py:40-49).     *)
THEOREM DrainsDoNotPileUp == Spec => []OneDrain
<1>1. IInv => OneDrain
    BY DEF IInv, Drains, OneDrain
<1> QED BY <1>1, Invariance, PTL

(* Control phases push a normal phase back by at most a burst               *)
(* (store_worker.py:55-60).                                                 *)
THEOREM NormalNotStarved == Spec => []BurstBounded
<1>1. IInv => BurstBounded
    BY PhasesAssumption DEF IInv, TypeOK, Counts, BurstBounded
<1> QED BY <1>1, Invariance, PTL

(* close waits for everything that was accepted (store.py:455-464).         *)
THEOREM CloseDrains == Spec => []ClosedIsDrained
<1>1. IInv => ClosedIsDrained
    BY DEF IInv, TypeOK, Drains, Closing, ClosedIsDrained
<1> QED BY <1>1, Invariance, PTL

----------------------------------------------------------------------------
(* Where the phases are: NobodyDetached is proved with an invariant of its  *)
(* own, in which a lane holds no phase twice and the lanes and the thread   *)
(* share none; Waiting is what the callers know of it.                      *)
Has(lane, p) == \E i \in 1..Len(lane) : lane[i] = p
Distinct(lane) == \A i, j \in 1..Len(lane) : lane[i] = lane[j] => i = j
Waiting(p) == caller[p] \in {"awaiting", "draining"}

Placed ==
    /\ Distinct(normal) /\ Distinct(control)
    /\ \A p \in Phases :
        /\ Has(normal, p) => p \notin Control /\ phase # p
        /\ Has(control, p) => p \in Control /\ phase # p
        /\ Waiting(p) <=> (Has(normal, p) \/ Has(control, p) \/ phase = p)

LEMMA LaneGrows ==
    ASSUME NEW S, NEW lane \in Seq(S), NEW p \in S
    PROVE  /\ \A q : Has(Append(lane, p), q) <=> Has(lane, q) \/ q = p
           /\ Distinct(lane) /\ ~Has(lane, p) => Distinct(Append(lane, p))
<1>1. PICK longer : longer = Append(lane, p)
    OBVIOUS
<1>2. /\ Len(longer) = Len(lane) + 1 /\ Len(lane) \in Nat /\ longer[Len(lane) + 1] = p
      /\ \A i \in 1..Len(lane) : longer[i] = lane[i]
    BY <1>1, AppendProperties
<1>3. \A i \in 1..Len(longer) : i = Len(lane) + 1 \/ i \in 1..Len(lane)
    BY <1>2
<1>4. \A i \in 1..Len(lane) : i \in 1..Len(longer) /\ i # Len(lane) + 1
    BY <1>2
<1>5. Len(lane) + 1 \in 1..Len(longer)
    BY <1>2
<1>6. \A q : Has(longer, q) <=> Has(lane, q) \/ q = p
    BY <1>2, <1>3, <1>4, <1>5 DEF Has
<1>7. Distinct(lane) /\ ~Has(lane, p) => Distinct(longer)
    BY <1>2, <1>3 DEF Has, Distinct
<1> QED BY <1>1, <1>6, <1>7

LEMMA LaneShrinks ==
    ASSUME NEW S, NEW lane \in Seq(S), lane # <<>>
    PROVE  /\ \A q : Has(lane, q) <=> Has(Tail(lane), q) \/ q = Head(lane)
           /\ Distinct(lane) => Distinct(Tail(lane)) /\ ~Has(Tail(lane), Head(lane))
<1>1. PICK rest, first : rest = Tail(lane) /\ first = Head(lane)
    OBVIOUS
<1>2. /\ Len(lane) \in Nat /\ Len(lane) > 0 /\ Len(rest) = Len(lane) - 1 /\ lane[1] = first
      /\ \A i \in 1..Len(rest) : rest[i] = lane[i + 1]
    BY <1>1, HeadTailProperties, LenProperties, EmptySeq
<1>3. \A i \in 1..Len(lane) : i = 1 \/ (i - 1 \in 1..Len(rest) /\ (i - 1) + 1 = i)
    BY <1>2
<1>4. \A i \in 1..Len(rest) : i + 1 \in 1..Len(lane) /\ i + 1 # 1
    BY <1>2
<1>5. 1 \in 1..Len(lane)
    BY <1>2
<1>6. \A q : Has(lane, q) <=> Has(rest, q) \/ q = first
    <2>1. ASSUME NEW q, NEW i \in 1..Len(lane), lane[i] = q, i # 1 PROVE Has(rest, q)
        <3>1. rest[i - 1] = lane[i]
            BY <1>2, <1>3, <2>1
        <3> QED BY <1>3, <2>1, <3>1 DEF Has
    <2> QED BY <1>2, <1>4, <1>5, <2>1 DEF Has
<1>7. Distinct(lane) => Distinct(rest) /\ ~Has(rest, first)
    <2> SUFFICES ASSUME Distinct(lane) PROVE Distinct(rest) /\ ~Has(rest, first)
        OBVIOUS
    <2>1. \A i, j \in 1..Len(rest) : i + 1 = j + 1 => i = j
        BY <1>2
    <2> QED BY <1>2, <1>4, <1>5, <2>1 DEF Has, Distinct
<1> QED BY <1>1, <1>6, <1>7

LEMMA AcceptPlaced ==
    ASSUME IInv, Placed, NEW p \in Phases, Accept(p), caller[p] \in {"away", "reading"}
    PROVE  Placed'
<1>1. normal \in Seq(Phases) /\ control \in Seq(Phases) /\ caller \in [Phases -> CallerPlaces]
    BY DEF IInv, TypeOK
<1>2. ~Waiting(p) /\ ~Has(normal, p) /\ ~Has(control, p) /\ phase # p
    BY DEF Placed, Waiting
<1>3. /\ phase' = phase /\ Waiting(p)'
      /\ \A q \in Phases : q # p => (Waiting(q)' <=> Waiting(q))
    BY <1>1 DEF Accept, Waiting
<1>4. CASE p \in Control
    <2>1. control' = Append(control, p) /\ normal' = normal
        BY <1>4 DEF Accept
    <2>2. /\ Distinct(control') /\ \A q \in Phases : Has(control', q) <=> Has(control, q) \/ q = p
        BY <1>1, <1>2, <2>1, LaneGrows DEF Placed
    <2> QED BY <1>2, <1>3, <1>4, <2>1, <2>2 DEF Placed
<1>5. CASE p \notin Control
    <2>1. normal' = Append(normal, p) /\ control' = control
        BY <1>5 DEF Accept
    <2>2. /\ Distinct(normal') /\ \A q \in Phases : Has(normal', q) <=> Has(normal, q) \/ q = p
        BY <1>1, <1>2, <2>1, LaneGrows DEF Placed
    <2> QED BY <1>2, <1>3, <1>5, <2>1, <2>2 DEF Placed
<1> QED BY <1>4, <1>5

LEMMA TakePlaced ==
    ASSUME IInv, Placed, TakeControl \/ TakeNormal
    PROVE  Placed'
<1>1. normal \in Seq(Phases) /\ control \in Seq(Phases) /\ caller' = caller /\ phase = None
    BY DEF IInv, TypeOK, Drains, TakeControl, TakeNormal
<1>2. \A q \in Phases : phase # q /\ (Waiting(q)' <=> Waiting(q))
    BY <1>1, PhasesAssumption DEF Waiting
<1>3. CASE TakeControl
    <2>1. phase' = Head(control) /\ control' = Tail(control) /\ normal' = normal /\ control # <<>>
        BY <1>3 DEF TakeControl, ControlTurn
    <2>2. /\ \A q \in Phases : Has(control, q) <=> Has(control', q) \/ q = phase'
          /\ Distinct(control') /\ ~Has(control', phase') /\ phase' \in Phases
        BY <1>1, <2>1, LaneShrinks, HeadTail DEF Placed
    <2> QED BY <1>2, <2>1, <2>2 DEF Placed
<1>4. CASE TakeNormal
    <2>1. phase' = Head(normal) /\ normal' = Tail(normal) /\ control' = control /\ normal # <<>>
        BY <1>4 DEF TakeNormal
    <2>2. /\ \A q \in Phases : Has(normal, q) <=> Has(normal', q) \/ q = phase'
          /\ Distinct(normal') /\ ~Has(normal', phase') /\ phase' \in Phases
        BY <1>1, <2>1, LaneShrinks, HeadTail DEF Placed
    <2> QED BY <1>2, <2>1, <2>2 DEF Placed
<1> QED BY <1>3, <1>4

LEMMA StepPlaced ==
    ASSUME IInv, Placed, [Next]_vars
    PROVE  Placed'
<1>1. caller \in [Phases -> CallerPlaces]
    BY DEF IInv, TypeOK
<1>2. ASSUME NEW p \in Phases, Submit(p) \/ Audit(p) PROVE Placed'
    BY <1>2, AcceptPlaced DEF Submit, Audit
<1>3. ASSUME NEW p \in Phases,
             Read(p) \/ ReadEnds(p) \/ CancelCaller(p) \/ Leave(p)
      PROVE  Placed'
    <2>1. normal' = normal /\ control' = control /\ phase' = phase
        BY <1>3 DEF Read, ReadEnds, CancelCaller, Leave, lanes, thread
    <2>2. \A q \in Phases : Waiting(q)' <=> Waiting(q)
        BY <1>1, <1>3 DEF Read, ReadEnds, CancelCaller, Leave, Waiting
    <2> QED BY <2>1, <2>2 DEF Placed
<1>4. CASE TakeControl \/ TakeNormal
    BY <1>4, TakePlaced
<1>5. CASE Settle
    <2>1. /\ normal' = normal /\ control' = control /\ phase' = None
          /\ caller' = [caller EXCEPT ![phase] = "settled"]
        BY <1>5 DEF Settle, lanes
    <2>2. \A q \in Phases : Waiting(q)' <=> Waiting(q) /\ phase # q
        BY <1>1, <2>1 DEF Waiting
    <2>3. \A q \in Phases : phase' # q
        BY <2>1, PhasesAssumption
    <2> QED BY <2>1, <2>2, <2>3 DEF Placed
<1>6. CASE Begin \/ GoIdle \/ Return \/ CloseReads \/ CloseLanes \/ CloseDatabase \/ UNCHANGED vars
    <2>1. normal' = normal /\ control' = control /\ phase' = phase /\ caller' = caller
        BY <1>6 DEF Begin, GoIdle, Return, CloseReads, CloseLanes, CloseDatabase, vars, lanes, thread
    <2> QED BY <2>1 DEF Placed, Waiting
<1> QED BY <1>2, <1>3, <1>4, <1>5, <1>6 DEF Next

(* A caller is there as long as its phase is queued or runs, cancelled or   *)
(* not, and its phase is in one place only (store.py:422-436).              *)
THEOREM CallersStay == Spec => []NobodyDetached
<1>1. Init => Placed
    <2> SUFFICES ASSUME Init PROVE Placed
        OBVIOUS
    <2>1. /\ Len(normal) = 0 /\ Len(control) = 0 /\ phase = None
          /\ \A p \in Phases : ~Waiting(p)
        BY DEF Init, Waiting
    <2>2. \A p \in Phases : phase # p
        BY <2>1, PhasesAssumption
    <2> QED BY <2>1, <2>2 DEF Placed, Has, Distinct
<1>2. IInv /\ Placed /\ [Next]_vars => Placed'
    BY StepPlaced
<1>3. ASSUME IInv, Placed
      PROVE  NobodyDetached
    <2>1. DOMAIN normal = 1..Len(normal) /\ DOMAIN control = 1..Len(control)
        BY <1>3, LenProperties DEF IInv, TypeOK
    <2>2. SUFFICES ASSUME NEW p \in Phases
                   PROVE  IF Waiting(p) THEN \E place \in Places(p) : Places(p) = {place}
                          ELSE Places(p) = {}
        BY DEF NobodyDetached, Waiting
    <2> DEFINE N == {<<"normal", i>> : i \in {i \in DOMAIN normal : normal[i] = p}}
               K == {<<"control", i>> : i \in {i \in DOMAIN control : control[i] = p}}
               T == {<<"thread", 0>> : x \in {x \in {phase} : x = p}}
    <2>3. Places(p) = N \cup K \cup T
        BY DEF Places
    <2>4. /\ Has(normal, p) => \E place : N = {place}
          /\ ~Has(normal, p) => N = {}
        <3>1. ASSUME NEW i \in DOMAIN normal, normal[i] = p
              PROVE  N = {<<"normal", i>>}
            <4>1. {j \in DOMAIN normal : normal[j] = p} = {i}
                BY <1>3, <2>1, <3>1 DEF Placed, Distinct
            <4> QED BY <4>1
        <3> QED BY <2>1, <3>1 DEF Has
    <2>5. /\ Has(control, p) => \E place : K = {place}
          /\ ~Has(control, p) => K = {}
        <3>1. ASSUME NEW i \in DOMAIN control, control[i] = p
              PROVE  K = {<<"control", i>>}
            <4>1. {j \in DOMAIN control : control[j] = p} = {i}
                BY <1>3, <2>1, <3>1 DEF Placed, Distinct
            <4> QED BY <4>1
        <3> QED BY <2>1, <3>1 DEF Has
    <2>6. /\ phase = p => T = {<<"thread", 0>>}
          /\ phase # p => T = {}
        OBVIOUS
    <2>7. /\ Waiting(p) <=> (Has(normal, p) \/ Has(control, p) \/ phase = p)
          /\ ~(Has(normal, p) /\ Has(control, p))
          /\ ~(Has(normal, p) /\ phase = p) /\ ~(Has(control, p) /\ phase = p)
        BY <1>3 DEF Placed
    <2> HIDE DEF N, K, T
    <2> QED BY <2>3, <2>4, <2>5, <2>6, <2>7
<1> QED BY <1>1, <1>2, <1>3, Invariance, PTL DEF Spec


----------------------------------------------------------------------------
(* The transcripts.  NoHotLoop is not inductive: whether a chunk may be     *)
(* sent again depends on what became of the packets it was in.  The heart   *)
(* of FlowInv is Resting: once a chunk was sent more often than packets     *)
(* with it are unanswered, its session is put off, and so is not cut again  *)
(* until time passes.  An answer could end that early by counting an older  *)
(* packet as progress; NothingOld says that none that comes can.  That      *)
(* needs the order of packets and answers (InOrder), and that neither the   *)
(* Agent nor an answer runs ahead of what is stored (Frontier, Trail).      *)
(*                                                                          *)
(* First, counting up to m, and functions that are computed by counting.    *)
LEMMA UpTo ==
    ASSUME NEW m \in Nat, NEW T, 0 \in T, \A n \in 0..m : n < m /\ n \in T => n + 1 \in T
    PROVE  \A n \in 0..m : n \in T
<1> DEFINE U == (0..m) \ T
<1>1. SUFFICES ASSUME U # {} PROVE FALSE
    OBVIOUS
<1>2. PICK n \in U : \A k \in U : <<k, n>> \notin OpToRel(<, Nat)
  <2>1. U \subseteq Nat
      OBVIOUS
  <2> QED BY <1>1, <2>1, NatLessThanWellFounded, WFMin
<1>3. n # 0 /\ n - 1 \in 0..m /\ n - 1 < m /\ n = (n - 1) + 1
  <2>1. n \in 0..m /\ n \notin T
      OBVIOUS
  <2>2. n # 0
      BY <2>1
  <2> QED BY <2>1, <2>2
<1>4. n - 1 \notin U
  <2>1. n - 1 \in Nat /\ n \in Nat /\ n - 1 < n
      BY <1>3
  <2>2. <<n - 1, n>> \in OpToRel(<, Nat)
      BY <2>1 DEF OpToRel
  <2> QED BY <1>2, <2>2
<1>5. n - 1 \in T
    BY <1>3, <1>4
<1> QED BY <1>2, <1>3, <1>5

Iterates(f, b, G, m) == f[0] = b /\ \A n \in 1..m : f[n] = G[<<f[n - 1], n>>]

LEMMA IteratesExist ==
    ASSUME NEW D, NEW b \in D, NEW G \in [D \X Nat -> D], NEW m \in Nat
    PROVE  \E f \in [0..m -> D] : Iterates(f, b, G, m)
<1> DEFINE T == {n \in 0..m : \E f \in [0..n -> D] : Iterates(f, b, G, n)}
<1>1. 0 \in T
  <2> DEFINE f == [n \in 0..0 |-> b]
  <2>1. f \in [0..0 -> D] /\ Iterates(f, b, G, 0)
      BY DEF Iterates
  <2> QED BY <2>1
<1>2. ASSUME NEW n \in 0..m, n < m, n \in T PROVE n + 1 \in T
  <2>1. PICK f \in [0..n -> D] : Iterates(f, b, G, n)
      BY <1>2
  <2>2. PICK d \in D : d = G[<<f[n], n + 1>>]
      OBVIOUS
  <2> DEFINE e == [k \in 0..n + 1 |-> IF k = n + 1 THEN d ELSE f[k]]
  <2>3. e \in [0..n + 1 -> D]
      OBVIOUS
  <2>4. e[0] = b
      BY <2>1 DEF Iterates
  <2>5. ASSUME NEW k \in 1..n + 1 PROVE e[k] = G[<<e[k - 1], k>>]
    <3>1. k - 1 \in 0..n /\ e[k - 1] = f[k - 1]
        OBVIOUS
    <3>2. CASE k = n + 1
      <4>1. e[k] = d /\ e[k - 1] = f[n] /\ k - 1 = n
          BY <3>1, <3>2
      <4> HIDE DEF e
      <4> QED BY <2>2, <3>2, <4>1
    <3>3. CASE k # n + 1
        BY <2>1, <3>1, <3>3 DEF Iterates
    <3> QED BY <3>2, <3>3
  <2>6. Iterates(e, b, G, n + 1)
    <3> HIDE DEF e
    <3> QED BY <2>4, <2>5 DEF Iterates
  <2>7. n + 1 \in 0..m
      BY <1>2
  <2> HIDE DEF e
  <2> QED BY <2>3, <2>6, <2>7
<1>3. \A n \in 0..m : n \in T
  <2> HIDE DEF T
  <2> QED BY <1>1, <1>2, UpTo
<1> QED BY <1>3

(* A pause has a length.                                                    *)
LEMMA PauseTicksType ==
    ASSUME NEW n \in Nat \ {0}
    PROVE  PauseTicks(n) \in Nat
<1> DEFINE G == [x \in Nat \X Nat |-> 2 * x[1]]
           Twice == CHOOSE f : f = [k \in 0..n - 1 |-> IF k = 0 THEN 1 ELSE 2 * f[k - 1]]
<1>1. \E f : f = [k \in 0..n - 1 |-> IF k = 0 THEN 1 ELSE 2 * f[k - 1]]
  <2>1. G \in [Nat \X Nat -> Nat] /\ n - 1 \in Nat
      OBVIOUS
  <2>2. PICK f \in [0..n - 1 -> Nat] : Iterates(f, 1, G, n - 1)
    <3> HIDE DEF G
    <3> QED BY <2>1, IteratesExist
  <2>3. ASSUME NEW k \in 0..n - 1 PROVE f[k] = IF k = 0 THEN 1 ELSE 2 * f[k - 1]
    <3>1. CASE k = 0
        BY <2>2, <3>1 DEF Iterates
    <3>2. CASE k # 0
      <4>1. k \in 1..n - 1 /\ k - 1 \in 0..n - 1
          BY <3>2
      <4>2. f[k - 1] \in Nat /\ k \in Nat
          BY <4>1
      <4>3. G[<<f[k - 1], k>>] = 2 * f[k - 1]
          BY <4>2
      <4> HIDE DEF G
      <4> QED BY <2>2, <3>2, <4>1, <4>3 DEF Iterates
    <3> QED BY <3>1, <3>2
  <2> QED BY <2>3
<1>2. PICK f : f = Twice
    OBVIOUS
<1>3. f = [k \in 0..n - 1 |-> IF k = 0 THEN 1 ELSE 2 * f[k - 1]]
    BY <1>1, <1>2
<1>4. f[n - 1] \in Nat
  <2> DEFINE T == {k \in 0..n - 1 : f[k] \in Nat}
  <2>1. 0 \in T
      BY <1>3
  <2>2. \A k \in 0..n - 1 : k < n - 1 /\ k \in T => k + 1 \in T
      BY <1>3
  <2>3. \A k \in 0..n - 1 : k \in T
    <3> HIDE DEF T
    <3> QED BY <2>1, <2>2, UpTo
  <2> QED BY <2>3
<1>5. PauseTicks(n) = Capped(PauseMax, f[n - 1])
    BY <1>2 DEF PauseTicks
<1> QED BY <1>4, <1>5, FlowAssumption DEF Capped

----------------------------------------------------------------------------
(* What Kept leaves: the packets at the positions in I, in their order.     *)
KeptSteps(k, q, I) ==
    k = [n \in 0..Len(q) |->
            IF n = 0 THEN <<>> ELSE IF n \in I THEN Append(k[n - 1], q[n]) ELSE k[n - 1]]

LEMMA KeptStepsExist ==
    ASSUME NEW S, NEW q \in Seq(S), NEW I
    PROVE  \E k : KeptSteps(k, q, I)
<1>1. PICK m \in Nat : m = Len(q)
    BY LenProperties
<1> DEFINE Step(x, n) == IF n \in I \cap 1..m THEN Append(x, q[n]) ELSE x
           G == [x \in Seq(S) \X Nat |-> Step(x[1], x[2])]
<1>2. ASSUME NEW x \in Seq(S), NEW n \in Nat
      PROVE  Step(x, n) \in Seq(S)
  <2>1. n \in 1..m => q[n] \in S
      BY <1>1, ElementOfSeq
  <2> QED BY <2>1, AppendProperties
<1>3. G \in [Seq(S) \X Nat -> Seq(S)]
  <2> HIDE DEF Step
  <2> QED BY <1>2
<1>4. PICK f \in [0..m -> Seq(S)] : Iterates(f, <<>>, G, m)
  <2> HIDE DEF G
  <2>1. <<>> \in Seq(S)
      BY EmptySeq
  <2> QED BY <1>3, <2>1, IteratesExist
<1>5. ASSUME NEW n \in 0..m
      PROVE  f[n] = IF n = 0 THEN <<>> ELSE IF n \in I THEN Append(f[n - 1], q[n]) ELSE f[n - 1]
  <2>1. CASE n = 0
      BY <1>4, <2>1 DEF Iterates
  <2>2. CASE n # 0
    <3>1. n \in 1..m /\ n \in Nat /\ f[n - 1] \in Seq(S)
        BY <2>2
    <3>2. G[<<f[n - 1], n>>] = Step(f[n - 1], n)
      <4> HIDE DEF Step
      <4> QED BY <3>1
    <3>3. f[n] = G[<<f[n - 1], n>>]
      <4> HIDE DEF G
      <4> QED BY <1>4, <3>1 DEF Iterates
    <3>4. Step(f[n - 1], n) = IF n \in I THEN Append(f[n - 1], q[n]) ELSE f[n - 1]
        BY <3>1
    <3> HIDE DEF G, Step
    <3> QED BY <2>2, <3>2, <3>3, <3>4
  <2> QED BY <2>1, <2>2
<1>6. KeptSteps(f, q, I)
  <2>1. f = [n \in 0..m |-> f[n]]
      OBVIOUS
  <2> QED BY <1>1, <1>5, <2>1 DEF KeptSteps
<1> QED BY <1>6

(* h leads the positions of r to the positions J of q, in order.            *)
Subsequence(r, q, J, h) ==
    /\ h \in [1..Len(r) -> J]
    /\ \A i \in J : \E j \in 1..Len(r) : h[j] = i
    /\ \A j \in 1..Len(r) : r[j] = q[h[j]]
    /\ \A i, j \in 1..Len(r) : i < j => h[i] < h[j]

LEMMA KeptShape ==
    ASSUME NEW S, NEW q \in Seq(S), NEW I
    PROVE  /\ Kept(q, I) \in Seq(S)
           /\ \E h : Subsequence(Kept(q, I), q, I \cap 1..Len(q), h)
<1>1. PICK m \in Nat : m = Len(q)
    BY LenProperties
<1> DEFINE K == CHOOSE k : k = [n \in 0..Len(q) |->
                    IF n = 0 THEN <<>> ELSE IF n \in I THEN Append(k[n - 1], q[n]) ELSE k[n - 1]]
<1>2. PICK f : f = K
    OBVIOUS
<1>3. KeptSteps(f, q, I)
  <2>1. PICK k : KeptSteps(k, q, I)
      BY KeptStepsExist
  <2> QED BY <1>2, <2>1 DEF KeptSteps
<1>4. \A n \in 0..m :
         f[n] = IF n = 0 THEN <<>> ELSE IF n \in I THEN Append(f[n - 1], q[n]) ELSE f[n - 1]
    BY <1>1, <1>3 DEF KeptSteps
<1>5. Kept(q, I) = f[m]
    BY <1>1, <1>2 DEF Kept
<1> HIDE DEF K
<1> DEFINE T == {n \in 0..m : f[n] \in Seq(S) /\ \E h : Subsequence(f[n], q, I \cap 1..n, h)}
<1>6. 0 \in T
  <2>1. f[0] = <<>> /\ 0 \in 0..m
    <3>1. 0 \in 0..m
        OBVIOUS
    <3> QED BY <1>4, <3>1
  <2>2. Len(<<>>) = 0 /\ <<>> \in Seq(S)
      OBVIOUS
  <2> DEFINE h == [j \in {} |-> 0]
  <2>3. Subsequence(<<>>, q, I \cap 1..0, h)
      BY <2>2 DEF Subsequence
  <2> HIDE DEF h
  <2> QED BY <2>1, <2>2, <2>3
<1>7. ASSUME NEW n \in 0..m, n < m, n \in T
      PROVE  n + 1 \in T
  <2>1. f[n] \in Seq(S) /\ n + 1 \in 0..m /\ n + 1 # 0 /\ (n + 1) - 1 = n
      BY <1>7
  <2>2. PICK h : Subsequence(f[n], q, I \cap 1..n, h)
      BY <1>7
  <2>3. CASE n + 1 \notin I
    <3>1. f[n + 1] = f[n]
        BY <1>4, <2>1, <2>3
    <3>2. I \cap 1..n + 1 = I \cap 1..n
        BY <2>3
    <3> QED BY <2>1, <2>2, <3>1, <3>2
  <2>4. CASE n + 1 \in I
    <3>1. PICK r : r = f[n]
        OBVIOUS
    <3>2. f[n + 1] = Append(r, q[n + 1])
        BY <1>4, <2>1, <2>4, <3>1
    <3>3. q[n + 1] \in S
        BY <1>1, <1>7, ElementOfSeq
    <3>4. PICK l \in Nat : l = Len(r)
        BY <2>1, <3>1, LenProperties
    <3>5. PICK d : d = Append(r, q[n + 1])
        OBVIOUS
    <3>6. /\ d \in Seq(S) /\ Len(d) = l + 1 /\ d[l + 1] = q[n + 1]
          /\ \A j \in 1..l : d[j] = r[j]
        BY <2>1, <3>1, <3>3, <3>4, <3>5, AppendProperties
    <3>7. /\ h \in [1..l -> I \cap 1..n]
          /\ \A i \in I \cap 1..n : \E j \in 1..l : h[j] = i
          /\ \A j \in 1..l : r[j] = q[h[j]]
          /\ \A i, j \in 1..l : i < j => h[i] < h[j]
        BY <2>2, <3>1, <3>4 DEF Subsequence
    <3> DEFINE e == [j \in 1..l + 1 |-> IF j = l + 1 THEN n + 1 ELSE h[j]]
    <3>8. e[l + 1] = n + 1 /\ \A j \in 1..l : e[j] = h[j]
        OBVIOUS
    <3>9. ASSUME NEW j \in 1..l + 1 PROVE e[j] \in I \cap 1..n + 1
      <4>1. CASE j = l + 1
          BY <2>4, <3>8, <4>1
      <4>2. CASE j # l + 1
        <5>1. j \in 1..l /\ h[j] \in I \cap 1..n
            BY <3>7, <4>2
        <5> QED BY <3>8, <5>1
      <4> QED BY <4>1, <4>2
    <3>10. e \in [1..l + 1 -> I \cap 1..n + 1]
        BY <3>9
    <3> HIDE DEF e
    <3>11. ASSUME NEW i \in I \cap 1..n + 1 PROVE \E j \in 1..l + 1 : e[j] = i
      <4>1. CASE i = n + 1
          BY <3>8, <4>1
      <4>2. CASE i # n + 1
        <5>1. i \in I \cap 1..n
            BY <4>2
        <5>2. PICK j \in 1..l : h[j] = i
            BY <3>7, <5>1
        <5>3. j \in 1..l + 1
            OBVIOUS
        <5> QED BY <3>8, <5>2, <5>3
      <4> QED BY <4>1, <4>2
    <3>12. ASSUME NEW j \in 1..l + 1 PROVE d[j] = q[e[j]]
      <4>1. j = l + 1 \/ j \in 1..l
          OBVIOUS
      <4> QED BY <3>6, <3>7, <3>8, <4>1
    <3>13. ASSUME NEW i \in 1..l + 1, NEW j \in 1..l + 1, i < j PROVE e[i] < e[j]
      <4>1. i \in 1..l /\ h[i] \in 1..n /\ e[i] = h[i]
          BY <3>7, <3>8, <3>13
      <4>2. CASE j = l + 1
          BY <3>8, <4>1, <4>2
      <4>3. CASE j # l + 1
        <5>1. j \in 1..l
            BY <4>3
        <5> QED BY <3>7, <3>8, <3>13, <4>1, <5>1
      <4> QED BY <4>2, <4>3
    <3>14. Subsequence(d, q, I \cap 1..n + 1, e)
        BY <3>6, <3>10, <3>11, <3>12, <3>13 DEF Subsequence
    <3> QED BY <2>1, <3>2, <3>5, <3>6, <3>14
  <2> QED BY <2>3, <2>4
<1>8. \A n \in 0..m : n \in T
  <2> HIDE DEF T
  <2> QED BY <1>6, <1>7, UpTo
<1>9. m \in T
  <2>1. m \in 0..m
      OBVIOUS
  <2> HIDE DEF T
  <2> QED BY <1>8, <2>1
<1> QED BY <1>1, <1>5, <1>9

(* Of the positions of q whose packets are in Y, as many are left when none *)
(* of them is taken out.                                                    *)
LEMMA KeptCounts ==
    ASSUME NEW S, NEW q \in Seq(S), NEW I, NEW P \in SUBSET (I \cap 1..Len(q)),
           NEW Q, NEW h, Subsequence(Kept(q, I), q, I \cap 1..Len(q), h),
           \A j \in 1..Len(Kept(q, I)) : h[j] \in P => j \in Q,
           Q \subseteq 1..Len(Kept(q, I))
    PROVE  /\ IsFiniteSet(P) /\ IsFiniteSet(Q)
           /\ Cardinality(P) <= Cardinality(Q)
<1>1. PICK r : r = Kept(q, I)
    OBVIOUS
<1>2. PICK l \in Nat : l = Len(r)
    BY <1>1, KeptShape, LenProperties
<1>3. PICK m \in Nat : m = Len(q)
    BY LenProperties
<1>4. IsFiniteSet(Q) /\ IsFiniteSet(P)
  <2>1. IsFiniteSet(1..l) /\ IsFiniteSet(1..m)
      BY FS_Interval
  <2> QED BY <1>1, <1>2, <1>3, <2>1, FS_Subset
<1> DEFINE R == {j \in 1..l : h[j] \in P}
           g == [j \in R |-> h[j]]
<1>5. R \subseteq Q
    BY <1>1, <1>2
<1>6. IsFiniteSet(R) /\ Cardinality(R) <= Cardinality(Q)
    BY <1>4, <1>5, FS_Subset
<1>7. g \in Surjection(R, P)
  <2>1. g \in [R -> P]
      OBVIOUS
  <2>2. ASSUME NEW i \in P PROVE \E j \in R : g[j] = i
    <3>1. PICK j \in 1..l : h[j] = i
        BY <1>1, <1>2, <1>3 DEF Subsequence
    <3> QED BY <3>1
  <2> QED BY <2>1, <2>2 DEF Surjection
<1>8. Cardinality(P) <= Cardinality(R)
  <2> HIDE DEF g, R
  <2> QED BY <1>6, <1>7, FS_Surjection
<1>9. Cardinality(P) \in Nat /\ Cardinality(Q) \in Nat /\ Cardinality(R) \in Nat
    BY <1>4, <1>6, FS_CardinalityType
<1> HIDE DEF R, g
<1> QED BY <1>4, <1>6, <1>8, <1>9

----------------------------------------------------------------------------
(* Types.                                                                   *)
Extents == UNION {[S -> 0..Size] : S \in SUBSET Sids}
Entries == [seq : Nat, left : 0..Timeout, chunks : Chunks]
Posted  == [rows : SUBSET Sids, chunks : Chunks, seqs : Seq(Nat)]
Replies == [seqs : Seq(Nat), offsets : Extents, rejected : SUBSET Sids]
Delays  == [until : Nat, delay : Nat]

LEMMA PartsOfSessions ==
    /\ \A f : f \in Chunks <=> DOMAIN f \subseteq Sids /\ f \in [DOMAIN f -> 1..Size]
    /\ \A f : f \in Extents <=> DOMAIN f \subseteq Sids /\ f \in [DOMAIN f -> 0..Size]
BY DEF Chunks, Extents

(* The backoffs after an answer a: of a session it does not refuse, the     *)
(* last packet that is not done decides that it rests.                      *)
Done(a, p, s) == s \in DOMAIN p.chunks /\ s \in DOMAIN a.offsets /\ a.offsets[s] >= p.chunks[s]
Stuck(a, p, s) == s \in DOMAIN p.chunks /\ ~Done(a, p, s)

LEMMA NoProgressRests ==
    ASSUME NEW b \in [Sids -> Delays], NEW S
    PROVE  /\ NoProgress(b, S) \in [Sids -> Delays]
           /\ \A s \in Sids : NoProgress(b, S)[s] = b[s] \/ NoProgress(b, S)[s].until > 0
           /\ \A s \in Sids \cap S : NoProgress(b, S)[s].until > 0
<1>1. ASSUME NEW s \in Sids, NEW d, d = IF b[s].delay = 0 THEN 1 ELSE Capped(BackoffMax, 2 * b[s].delay)
      PROVE  d \in Nat /\ d > 0
    BY <1>1, FlowAssumption DEF Delays, Capped
<1>2. ASSUME NEW s \in Sids
      PROVE  /\ NoProgress(b, S)[s] \in Delays
             /\ s \in S => NoProgress(b, S)[s].until > 0
             /\ s \notin S => NoProgress(b, S)[s] = b[s]
  <2>1. PICK d : d = IF b[s].delay = 0 THEN 1 ELSE Capped(BackoffMax, 2 * b[s].delay)
      OBVIOUS
  <2>2. d \in Nat /\ d > 0
      BY <1>1, <2>1
  <2>3. NoProgress(b, S)[s] = IF s \in S THEN [until |-> d, delay |-> d] ELSE b[s]
      BY <2>1 DEF NoProgress
  <2>4. b[s] \in Delays /\ [until |-> d, delay |-> d] \in Delays
      BY <2>2 DEF Delays
  <2> QED BY <2>2, <2>3, <2>4
<1>3. NoProgress(b, S) = [s \in Sids |-> NoProgress(b, S)[s]]
    BY DEF NoProgress
<1> QED BY <1>2, <1>3

LEMMA ClearedRests ==
    ASSUME NEW a, NEW b \in [Sids -> Delays], NEW p, DOMAIN p.chunks \subseteq Sids
    PROVE  /\ Cleared(a, b, p) \in [Sids -> Delays]
           /\ \A s \in Sids \ a.rejected :
                /\ Stuck(a, p, s) => Cleared(a, b, p)[s].until > 0
                /\ b[s].until > 0 /\ ~Done(a, p, s) => Cleared(a, b, p)[s].until > 0
<1>1. PICK done : done = {s \in DOMAIN p.chunks : s \in DOMAIN a.offsets /\ a.offsets[s] >= p.chunks[s]}
    OBVIOUS
<1>2. PICK c : c = [s \in Sids |-> IF s \in done THEN NoBackoff ELSE b[s]]
    OBVIOUS
<1>3. c \in [Sids -> Delays]
    BY <1>2 DEF NoBackoff, Delays
<1>4. PICK S : S = DOMAIN p.chunks \ (done \cup a.rejected)
    OBVIOUS
<1>5. Cleared(a, b, p) = NoProgress(c, S)
    BY <1>1, <1>2, <1>4 DEF Cleared
<1>6. \A s \in Sids \ a.rejected : Stuck(a, p, s) => s \in S
    BY <1>1, <1>4 DEF Stuck, Done
<1>7. \A s \in Sids : ~Done(a, p, s) => c[s] = b[s]
    BY <1>1, <1>2 DEF Done
<1> QED BY <1>3, <1>5, <1>6, <1>7, NoProgressRests

AnsweredSteps(k, a, b, q, I) ==
    k = [n \in 0..Len(q) |->
            IF n = 0 THEN b ELSE IF n \in I THEN Cleared(a, k[n - 1], q[n]) ELSE k[n - 1]]

LEMMA AnsweredStepsExist ==
    ASSUME NEW a, NEW b \in [Sids -> Delays], NEW q \in Seq(Entries), NEW I
    PROVE  \E k : AnsweredSteps(k, a, b, q, I)
<1>1. PICK m \in Nat : m = Len(q)
    BY LenProperties
<1> DEFINE Step(x, n) == IF n \in I \cap 1..m THEN Cleared(a, x, q[n]) ELSE x
           D == [Sids -> Delays]
           G == [x \in D \X Nat |-> Step(x[1], x[2])]
<1>2. ASSUME NEW x \in D, NEW n \in Nat
      PROVE  Step(x, n) \in D
  <2>1. CASE n \in I \cap 1..m
    <3>1. q[n] \in Entries
        BY <1>1, <2>1, ElementOfSeq
    <3>2. DOMAIN q[n].chunks \subseteq Sids
        BY <3>1, PartsOfSessions DEF Entries
    <3> QED BY <2>1, <3>2, ClearedRests
  <2> QED BY <2>1
<1> HIDE DEF D
<1>3. G \in [D \X Nat -> D]
  <2> HIDE DEF Step
  <2> QED BY <1>2
<1>4. PICK f \in [0..m -> D] : Iterates(f, b, G, m)
  <2>1. b \in D
      BY DEF D
  <2> HIDE DEF G
  <2> QED BY <1>3, <2>1, IteratesExist
<1>5. ASSUME NEW n \in 0..m
      PROVE  f[n] = IF n = 0 THEN b ELSE IF n \in I THEN Cleared(a, f[n - 1], q[n]) ELSE f[n - 1]
  <2>1. CASE n = 0
      BY <1>4, <2>1 DEF Iterates
  <2>2. CASE n # 0
    <3>1. n \in 1..m /\ n \in Nat /\ f[n - 1] \in D
        BY <2>2
    <3>2. G[<<f[n - 1], n>>] = Step(f[n - 1], n)
      <4> HIDE DEF Step
      <4> QED BY <3>1
    <3>3. f[n] = G[<<f[n - 1], n>>]
      <4> HIDE DEF G
      <4> QED BY <1>4, <3>1 DEF Iterates
    <3>4. Step(f[n - 1], n) = IF n \in I THEN Cleared(a, f[n - 1], q[n]) ELSE f[n - 1]
        BY <3>1
    <3> HIDE DEF G, Step
    <3> QED BY <2>2, <3>2, <3>3, <3>4
  <2> QED BY <2>1, <2>2
<1>6. AnsweredSteps(f, a, b, q, I)
  <2>1. f = [n \in 0..m |-> f[n]]
      OBVIOUS
  <2> QED BY <1>1, <1>5, <2>1 DEF AnsweredSteps
<1> QED BY <1>6

LEMMA AnsweredRests ==
    ASSUME NEW a, NEW b \in [Sids -> Delays], NEW q \in Seq(Entries), NEW I
    PROVE  /\ Answered(a, b, q, I) \in [Sids -> Delays]
           /\ \A s \in Sids \ a.rejected :
                \/ b[s].until > 0 /\ \A i \in I \cap 1..Len(q) : ~Done(a, q[i], s)
                \/ \E i \in I \cap 1..Len(q) :
                      Stuck(a, q[i], s) /\ \A j \in I \cap 1..Len(q) : i < j => ~Done(a, q[j], s)
                => Answered(a, b, q, I)[s].until > 0
<1>1. PICK m \in Nat : m = Len(q)
    BY LenProperties
<1> DEFINE K == CHOOSE k : k = [n \in 0..Len(q) |->
                    IF n = 0 THEN b ELSE IF n \in I THEN Cleared(a, k[n - 1], q[n]) ELSE k[n - 1]]
<1>2. PICK f : f = K
    OBVIOUS
<1>3. AnsweredSteps(f, a, b, q, I)
  <2>1. PICK k : AnsweredSteps(k, a, b, q, I)
      BY AnsweredStepsExist
  <2> QED BY <1>2, <2>1 DEF AnsweredSteps
<1>4. \A n \in 0..m :
         f[n] = IF n = 0 THEN b ELSE IF n \in I THEN Cleared(a, f[n - 1], q[n]) ELSE f[n - 1]
    BY <1>1, <1>3 DEF AnsweredSteps
<1>5. Answered(a, b, q, I) = f[m]
    BY <1>1, <1>2 DEF Answered
<1> HIDE DEF K
<1>6. ASSUME NEW n \in 1..m
      PROVE  DOMAIN q[n].chunks \subseteq Sids
  <2>1. q[n] \in Entries
      BY <1>1, ElementOfSeq
  <2> QED BY <2>1, PartsOfSessions DEF Entries
<1>7. ASSUME NEW n \in 0..m, n < m
      PROVE  /\ n + 1 \in 1..m
             /\ n + 1 \in I => f[n + 1] = Cleared(a, f[n], q[n + 1])
             /\ n + 1 \notin I => f[n + 1] = f[n]
  <2>1. n + 1 \in 0..m /\ n + 1 # 0 /\ (n + 1) - 1 = n /\ n + 1 \in 1..m
      BY <1>7
  <2> QED BY <1>4, <2>1
<1> DEFINE T == {n \in 0..m : f[n] \in [Sids -> Delays]}
<1>8. f[0] = b
    BY <1>4
<1>9. \A n \in 0..m : n \in T
  <2>1. 0 \in T
      BY <1>8
  <2>2. ASSUME NEW n \in 0..m, n < m, n \in T PROVE n + 1 \in T
    <3>1. f[n] \in [Sids -> Delays] /\ DOMAIN q[n + 1].chunks \subseteq Sids
        BY <1>6, <1>7, <2>2
    <3>2. n + 1 \in 0..m
        BY <2>2
    <3>3. Cleared(a, f[n], q[n + 1]) \in [Sids -> Delays]
        BY <3>1, ClearedRests
    <3>4. f[n + 1] = Cleared(a, f[n], q[n + 1]) \/ f[n + 1] = f[n]
        BY <1>7, <2>2
    <3> QED BY <3>1, <3>2, <3>3, <3>4
  <2> HIDE DEF T
  <2> QED BY <2>1, <2>2, UpTo
<1>10. ASSUME NEW s \in Sids \ a.rejected,
              \/ b[s].until > 0 /\ \A i \in I \cap 1..m : ~Done(a, q[i], s)
              \/ \E i \in I \cap 1..m :
                    Stuck(a, q[i], s) /\ \A j \in I \cap 1..m : i < j => ~Done(a, q[j], s)
       PROVE  f[m][s].until > 0
  <2>1. PICK i \in 0..m :
          /\ \A j \in I \cap 1..m : i < j => ~Done(a, q[j], s)
          /\ i = 0 => b[s].until > 0
          /\ i # 0 => i \in I /\ Stuck(a, q[i], s)
    <3>1. CASE b[s].until > 0 /\ \A i \in I \cap 1..m : ~Done(a, q[i], s)
      <4>1. 0 \in 0..m
          OBVIOUS
      <4> QED BY <3>1, <4>1
    <3>2. CASE \E i \in I \cap 1..m :
                  Stuck(a, q[i], s) /\ \A j \in I \cap 1..m : i < j => ~Done(a, q[j], s)
      <4>1. PICK i \in I \cap 1..m :
                  Stuck(a, q[i], s) /\ \A j \in I \cap 1..m : i < j => ~Done(a, q[j], s)
          BY <3>2
      <4>2. i \in 0..m /\ i # 0
          OBVIOUS
      <4> QED BY <4>1, <4>2
    <3> QED BY <1>10, <3>1, <3>2
  <2> DEFINE U == {n \in 0..m : n >= i => f[n][s].until > 0}
  <2>2. 0 \in U
    <3>1. 0 \in 0..m /\ (0 >= i => i = 0)
        OBVIOUS
    <3> QED BY <1>8, <2>1, <3>1
  <2>3. ASSUME NEW n \in 0..m, n < m, n \in U PROVE n + 1 \in U
    <3>1. n + 1 \in 1..m /\ n + 1 \in 0..m
        BY <2>3
    <3>2. f[n] \in [Sids -> Delays] /\ DOMAIN q[n + 1].chunks \subseteq Sids
        BY <1>6, <1>9, <3>1
    <3>3. CASE n + 1 < i
        BY <3>1, <3>3
    <3>4. CASE n + 1 = i
      <4>1. i \in I /\ Stuck(a, q[n + 1], s)
          BY <2>1, <3>1, <3>4
      <4>2. f[n + 1] = Cleared(a, f[n], q[n + 1])
          BY <1>7, <2>3, <3>4, <4>1
      <4>3. f[n + 1][s].until > 0
          BY <3>2, <4>1, <4>2, ClearedRests
      <4> QED BY <3>1, <4>3
    <3>5. CASE i < n + 1
      <4>1. f[n][s].until > 0
          BY <2>3, <3>5
      <4>2. CASE n + 1 \in I
        <5>1. ~Done(a, q[n + 1], s)
            BY <2>1, <3>1, <3>5, <4>2
        <5>2. f[n + 1] = Cleared(a, f[n], q[n + 1])
            BY <1>7, <2>3, <4>2
        <5>3. Cleared(a, f[n], q[n + 1])[s].until > 0
            BY <3>2, <4>1, <5>1, ClearedRests
        <5> QED BY <3>1, <5>2, <5>3
      <4>3. CASE n + 1 \notin I
          BY <1>7, <2>3, <3>1, <4>1, <4>3
      <4> QED BY <4>2, <4>3
    <3> QED BY <3>3, <3>4, <3>5
  <2>4. \A n \in 0..m : n \in U
    <3> HIDE DEF U
    <3> QED BY <2>2, <2>3, UpTo
  <2>5. m \in U
    <3>1. m \in 0..m
        OBVIOUS
    <3> HIDE DEF U
    <3> QED BY <2>4, <3>1
  <2> QED BY <2>5
<1>11. f[m] \in [Sids -> Delays]
  <2>1. m \in T
    <3>1. m \in 0..m
        OBVIOUS
    <3> HIDE DEF T
    <3> QED BY <1>9, <3>1
  <2> QED BY <2>1
<1> QED BY <1>1, <1>5, <1>10, <1>11

FlowTypes ==
    /\ offsets \in [Sids -> 0..Size] /\ stored \in [Sids -> 0..Size]
    /\ inflight \in Seq(Entries)
    /\ backoff \in [Sids -> Delays]
    /\ paused \in [Sids -> Pauses \cup {Nil}] /\ saved \in [Sids -> Pauses \cup {Nil}]
    /\ offered \in SUBSET Sids
    /\ task \in Turns \cup {Nil}
    /\ up \in Seq(Posted) /\ acks \in Seq(Replies)
    /\ echo \in BOOLEAN
    /\ hub \in [Sids -> {"takes", "full", "refuses"}]
    /\ sends \in [Sids -> [1..Size -> Nat]]

(* A number that no packet under way has is always there to be given.       *)
LEMMA ImageFinite ==
    ASSUME NEW m \in Nat, NEW f, DOMAIN f = 1..m
    PROVE  IsFiniteSet({f[i] : i \in 1..m})
<1> DEFINE R == {f[i] : i \in 1..m}
           g == [i \in 1..m |-> f[i]]
<1>1. g \in Surjection(1..m, R)
    BY DEF Surjection
<1>2. IsFiniteSet(1..m)
    BY FS_Interval
<1> HIDE DEF g, R
<1>3. IsFiniteSet(R)
    BY <1>1, <1>2, FS_Surjection
<1> QED BY <1>3 DEF R

LEMMA NumbersFinite ==
    ASSUME NEW S, NEW ps \in Seq(S), \A i \in DOMAIN ps : ps[i].seqs \in Seq(Nat)
    PROVE  IsFiniteSet(Numbers(ps)) /\ Numbers(ps) \subseteq Nat
<1>1. PICK m \in Nat : m = Len(ps) /\ DOMAIN ps = 1..m
    BY LenProperties
<1> DEFINE f == [i \in 1..m |-> ToSet(ps[i].seqs)]
<1>2. IsFiniteSet({f[i] : i \in 1..m})
  <2>1. DOMAIN f = 1..m
      OBVIOUS
  <2> HIDE DEF f
  <2> QED BY <2>1, ImageFinite
<1>3. ASSUME NEW i \in 1..m PROVE IsFiniteSet(f[i]) /\ f[i] \subseteq Nat
  <2>1. PICK q : q = ps[i].seqs
      OBVIOUS
  <2>2. q \in Seq(Nat)
      BY <1>1, <2>1
  <2>3. PICK n \in Nat : DOMAIN q = 1..n
      BY <2>2, LenProperties
  <2>4. IsFiniteSet({q[j] : j \in 1..n})
      BY <2>3, ImageFinite
  <2>5. \A j \in 1..n : q[j] \in Nat
    <3>1. n = Len(q)
        BY <2>2, <2>3, LenProperties
    <3> QED BY <2>2, <3>1, ElementOfSeq
  <2>6. ToSet(q) = {q[j] : j \in 1..n}
      BY <2>3 DEF ToSet
  <2> QED BY <2>1, <2>4, <2>5, <2>6
<1>4. Numbers(ps) = UNION {f[i] : i \in 1..m}
    BY <1>1 DEF Numbers
<1> HIDE DEF f
<1>5. IsFiniteSet(UNION {f[i] : i \in 1..m})
    BY <1>2, <1>3, FS_UNION
<1> QED BY <1>3, <1>4, <1>5

LEMMA FreshNumber ==
    ASSUME FlowTypes
    PROVE  Fresh \in Nat /\ Fresh \notin InUse
<1>1. PICK q \in Seq(Entries) : q = inflight
    BY DEF FlowTypes
<1>2. PICK u \in Seq(Posted) : u = up
    BY DEF FlowTypes
<1>3. PICK r \in Seq(Replies) : r = acks
    BY DEF FlowTypes
<1> DEFINE A == {q[i].seq : i \in DOMAIN q}
<1>4. IsFiniteSet(A)
  <2>1. PICK m \in Nat : DOMAIN q = 1..m
      BY LenProperties
  <2> DEFINE f == [i \in 1..m |-> q[i].seq]
  <2>2. A = {f[i] : i \in 1..m}
      BY <2>1
  <2>3. DOMAIN f = 1..m
      OBVIOUS
  <2> HIDE DEF f, A
  <2> QED BY <2>2, <2>3, ImageFinite
<1>5. IsFiniteSet(Numbers(u))
  <2>1. ASSUME NEW i \in DOMAIN u PROVE u[i].seqs \in Seq(Nat)
    <3>1. i \in 1..Len(u)
        BY LenProperties
    <3>2. u[i] \in Posted
        BY <3>1, ElementOfSeq
    <3> QED BY <3>2 DEF Posted
  <2> QED BY <2>1, NumbersFinite
<1>6. IsFiniteSet(Numbers(r))
  <2>1. ASSUME NEW i \in DOMAIN r PROVE r[i].seqs \in Seq(Nat)
    <3>1. i \in 1..Len(r)
        BY LenProperties
    <3>2. r[i] \in Replies
        BY <3>1, ElementOfSeq
    <3> QED BY <3>2 DEF Replies
  <2> QED BY <2>1, NumbersFinite
<1>7. PICK N : N = A \cup Numbers(u) \cup Numbers(r)
    OBVIOUS
<1>8. InUse = N
    BY <1>1, <1>2, <1>3, <1>7 DEF InUse
<1> HIDE DEF A
<1>9. IsFiniteSet(N)
    BY <1>4, <1>5, <1>6, <1>7, FS_Union
<1>10. PICK c \in Nat : c = Cardinality(N)
    BY <1>9, FS_CardinalityType
<1>11. \E n \in 1..c + 1 : n \notin N
  <2>1. SUFFICES ASSUME 1..c + 1 \subseteq N PROVE FALSE
      OBVIOUS
  <2>2. Cardinality(1..c + 1) <= c
      BY <1>9, <1>10, <2>1, FS_Subset
  <2>3. Cardinality(1..c + 1) = c + 1
    <3>1. 1 \in Nat /\ c + 1 \in Nat
        OBVIOUS
    <3> QED BY <3>1, FS_Interval
  <2> QED BY <2>2, <2>3
<1>12. Fresh = CHOOSE n \in 1..c + 1 : n \notin N
    BY <1>8, <1>10 DEF Fresh
<1>13. PICK k : k = Fresh
    OBVIOUS
<1>14. k \in 1..c + 1 /\ k \notin N
    BY <1>11, <1>12, <1>13
<1> QED BY <1>8, <1>13, <1>14

LEMMA PauseType ==
    ASSUME NEW p \in Pauses \cup {Nil}
    PROVE  Pause(p) \in Pauses
<1>1. PICK n : n = IF p = Nil THEN 1 ELSE Capped(PauseMax, p.failures + 1)
    OBVIOUS
<1>2. n \in Nat \ {0}
    BY <1>1, FlowAssumption DEF Capped, Pauses
<1>3. Pause(p) = [failures |-> n, until |-> PauseTicks(n)]
    BY <1>1 DEF Pause
<1> QED BY <1>2, <1>3, PauseTicksType DEF Pauses

----------------------------------------------------------------------------
(* Type correctness, action by action.                                      *)
LEMMA InitTypes == FlowInit => FlowTypes
<1> SUFFICES ASSUME FlowInit PROVE FlowTypes
    OBVIOUS
<1>1. <<>> \in Seq(Entries) /\ <<>> \in Seq(Posted) /\ <<>> \in Seq(Replies)
    BY EmptySeq
<1>2. 0 \in 0..Size
    BY FlowAssumption
<1>3. [until |-> 0, delay |-> 0] \in Delays
    BY DEF Delays
<1> QED BY <1>1, <1>2, <1>3 DEF FlowInit, FlowTypes, NoBackoff, Unsent

LEMMA LookTypes == ASSUME FlowTypes, Look PROVE FlowTypes'
<1>1. PICK due : due = {s \in Sids : paused[s] # Nil /\ paused[s].until = 0}
    OBVIOUS
<1>2. PICK cut : cut = IF WindowOpen THEN {s \in Sids \ Skipped : offsets[s] < Size} ELSE {}
    OBVIOUS
<1>3. PICK rows : rows = cut \cup (Sids \ (offered \ due))
    OBVIOUS
<1>4. PICK probed : probed = [s \in Sids |-> IF s \in due
                      THEN [paused[s] EXCEPT !.until = PauseTicks(paused[s].failures)]
                      ELSE paused[s]]
    OBVIOUS
<1>5. /\ inflight' = Kept(inflight, Live) /\ backoff' = Expired /\ paused' = probed
      /\ offered' = offered \ due
      /\ \/ task' = Nil /\ saved' = probed
         \/ /\ task' = [pc |-> "send", rows |-> rows, seq |-> 0, chunks |-> [s \in cut |-> offsets[s] + 1]]
            /\ UNCHANGED saved
      /\ UNCHANGED <<offsets, up, acks, world, sends>>
    BY <1>1, <1>2, <1>3, <1>4 DEF Look
<1>6. probed \in [Sids -> Pauses \cup {Nil}]
  <2>1. ASSUME NEW s \in Sids PROVE probed[s] \in Pauses \cup {Nil}
    <3>1. CASE s \in due
      <4>1. paused[s] \in Pauses
          BY <1>1, <3>1 DEF FlowTypes
      <4>2. PICK n \in Nat \ {0} : n = paused[s].failures
          BY <4>1 DEF Pauses
      <4>3. PauseTicks(n) \in Nat
          BY PauseTicksType
      <4>4. [paused[s] EXCEPT !.until = PauseTicks(paused[s].failures)] \in Pauses
          BY <4>1, <4>2, <4>3 DEF Pauses
      <4> QED BY <1>4, <3>1, <4>4
    <3>2. CASE s \notin due
        BY <1>4, <3>2 DEF FlowTypes
    <3> QED BY <3>1, <3>2
  <2> QED BY <1>4, <2>1
<1>7. inflight' \in Seq(Entries)
  <2>1. inflight \in Seq(Entries)
      BY DEF FlowTypes
  <2> QED BY <1>5, <2>1, KeptShape
<1>8. backoff' \in [Sids -> Delays]
  <2>1. inflight \in Seq(Entries) /\ backoff \in [Sids -> Delays]
      BY DEF FlowTypes
  <2>2. Expired \in [Sids -> Delays]
      BY <2>1, AnsweredRests DEF Expired
  <2> QED BY <1>5, <2>2
<1>9. task' \in Turns \cup {Nil}
  <2>1. cut \subseteq Sids /\ rows \subseteq Sids
      BY <1>2, <1>3
  <2>2. \A s \in cut : offsets[s] + 1 \in 1..Size
      BY <1>2, FlowAssumption DEF FlowTypes
  <2>3. PICK chunks : chunks = [s \in cut |-> offsets[s] + 1]
      OBVIOUS
  <2>4. chunks \in Chunks
    <3>1. DOMAIN chunks = cut /\ \A s \in cut : chunks[s] \in 1..Size
        BY <2>2, <2>3
    <3>2. chunks \in [cut -> 1..Size]
        BY <2>2, <2>3
    <3> QED BY <2>1, <3>1, <3>2 DEF Chunks
  <2>5. [pc |-> "send", rows |-> rows, seq |-> 0, chunks |-> chunks] \in Turns
      BY <2>1, <2>4 DEF Turns
  <2> QED BY <1>5, <2>3, <2>5
<1>10. saved' \in [Sids -> Pauses \cup {Nil}] /\ offered' \in SUBSET Sids
    BY <1>5, <1>6 DEF FlowTypes
<1> QED BY <1>5, <1>6, <1>7, <1>8, <1>9, <1>10 DEF FlowTypes, world

LEMMA SendTypes == ASSUME FlowTypes, Send PROVE FlowTypes'
<1>1. PICK n \in Nat : n = Fresh
    BY FreshNumber
<1>2. task \in Turns /\ DOMAIN task.chunks \subseteq Sids /\ task.chunks \in [DOMAIN task.chunks -> 1..Size]
    BY PartsOfSessions DEF FlowTypes, Send, Turns
<1>3. task' \in Turns
    BY <1>1, <1>2 DEF Send, Turns
<1>4. PICK p : p = [rows |-> task.rows, chunks |-> task.chunks, seqs |-> <<Fresh>>]
    OBVIOUS
<1>5. p \in Posted
  <2>1. <<n>> \in Seq(Nat)
      OBVIOUS
  <2> QED BY <1>1, <1>2, <1>4, <2>1 DEF Posted, Turns
<1>6. up \in Seq(Posted)
    BY DEF FlowTypes
<1>7. up' \in Seq(Posted)
  <2>1. CASE echo /\ Len(up) >= Depth
    <3>1. Len(up) \in Nat /\ Len(up) > 0
        BY <1>6, <2>1, LenProperties, FlowAssumption
    <3>2. Front(up) \in Seq(Posted)
        BY <1>6, <3>1 DEF Front
    <3>3. Last(up) \in Posted
        BY <1>6, <3>1 DEF Last
    <3>4. Coalesce(Last(up), p) \in Posted
        BY <1>5, <3>3, ConcatProperties DEF Coalesce, Posted
    <3> QED BY <1>4, <2>1, <3>2, <3>4, AppendProperties DEF Send, SubmitPacket
  <2>2. CASE ~(echo /\ Len(up) >= Depth)
      BY <1>4, <1>5, <1>6, <2>2, AppendProperties DEF Send, SubmitPacket
  <2> QED BY <2>1, <2>2
<1>8. sends' \in [Sids -> [1..Size -> Nat]]
  <2>1. ASSUME NEW s \in Sids PROVE sends'[s] \in [1..Size -> Nat]
    <3>1. sends'[s] = IF s \in DOMAIN task.chunks
                      THEN [sends[s] EXCEPT ![task.chunks[s]] = @ + 1] ELSE sends[s]
        BY DEF Send
    <3>2. sends[s] \in [1..Size -> Nat]
        BY DEF FlowTypes
    <3>3. CASE s \in DOMAIN task.chunks
      <4>1. PICK c \in 1..Size : c = task.chunks[s]
          BY <1>2, <3>3
      <4>2. PICK f \in [1..Size -> Nat] : f = sends[s]
          BY <3>2
      <4>3. sends'[s] = [f EXCEPT ![c] = @ + 1]
          BY <3>1, <3>3, <4>1, <4>2
      <4> QED BY <4>3
    <3> QED BY <3>1, <3>2, <3>3
  <2>2. sends' = [s \in Sids |-> sends'[s]]
      BY DEF Send
  <2> QED BY <2>1, <2>2
<1> QED BY <1>3, <1>7, <1>8 DEF FlowTypes, Send, world

LEMMA SentTypes == ASSUME FlowTypes, Sent PROVE FlowTypes'
<1>1. task \in Turns
    BY DEF FlowTypes, Sent
<1>2. [seq |-> task.seq, left |-> Timeout, chunks |-> task.chunks] \in Entries
    BY <1>1, FlowAssumption DEF Turns, Entries
<1>3. inflight' \in Seq(Entries)
    BY <1>2, AppendProperties DEF FlowTypes, Sent
<1>4. offered' \in SUBSET Sids
    BY <1>1 DEF FlowTypes, Sent, Turns
<1> QED BY <1>3, <1>4 DEF FlowTypes, Sent, world

LEMMA ReplyGiven ==
    ASSUME FlowTypes, NEW seqs \in Seq(Nat), NEW told \in Extents, NEW rejected \in SUBSET Sids
    PROVE  Answer(seqs, told, rejected) \in Seq(Replies)
<1>1. PICK r : r = [seqs |-> IF echo THEN seqs ELSE <<>>, offsets |-> told,
                     rejected |-> IF echo THEN rejected ELSE {}]
    OBVIOUS
<1>2. <<>> \in Seq(Nat)
    BY EmptySeq
<1>3. r \in Replies
    BY <1>1, <1>2 DEF Replies
<1> QED BY <1>1, <1>3, AppendProperties DEF Answer, FlowTypes

LEMMA HeadOfLane ==
    ASSUME FlowTypes, up # <<>>
    PROVE  Head(up) \in Posted /\ Tail(up) \in Seq(Posted)
BY HeadTailProperties DEF FlowTypes

LEMMA StoreTypes == ASSUME FlowTypes, Store PROVE FlowTypes'
<1>1. PICK p : p = Head(up)
    OBVIOUS
<1>2. p \in Posted /\ up' \in Seq(Posted)
    BY <1>1, HeadOfLane DEF Store
<1>3. PICK rejected : rejected = {s \in p.rows : hub[s] = "refuses"}
    OBVIOUS
<1>4. PICK now : now = [s \in Sids |->
          IF s \in p.rows /\ hub[s] = "takes" /\ s \in DOMAIN p.chunks /\ p.chunks[s] = stored[s] + 1
          THEN stored[s] + 1 ELSE stored[s]]
    OBVIOUS
<1>5. stored' = now /\ acks' = Answer(p.seqs, [s \in p.rows \ rejected |-> now[s]], rejected)
    BY <1>1, <1>3, <1>4 DEF Store
<1>6. p.rows \subseteq Sids /\ p.seqs \in Seq(Nat) /\ p.chunks \in [DOMAIN p.chunks -> 1..Size]
    BY <1>2, PartsOfSessions DEF Posted
<1>7. now \in [Sids -> 0..Size]
  <2>1. ASSUME NEW s \in Sids PROVE now[s] \in 0..Size
    <3>1. s \in DOMAIN p.chunks => p.chunks[s] \in 1..Size
        BY <1>6
    <3>2. stored[s] \in 0..Size /\ 1..Size \subseteq 0..Size
        BY FlowAssumption DEF FlowTypes
    <3>3. CASE s \in p.rows /\ hub[s] = "takes" /\ s \in DOMAIN p.chunks /\ p.chunks[s] = stored[s] + 1
      <4>1. now[s] = p.chunks[s]
          BY <1>4, <3>3
      <4> QED BY <3>1, <3>2, <3>3, <4>1
    <3>4. CASE ~(s \in p.rows /\ hub[s] = "takes" /\ s \in DOMAIN p.chunks /\ p.chunks[s] = stored[s] + 1)
        BY <1>4, <3>2, <3>4
    <3> QED BY <3>3, <3>4
  <2> QED BY <1>4, <2>1
<1>8. PICK told : told = [s \in p.rows \ rejected |-> now[s]]
    OBVIOUS
<1>9. told \in Extents /\ rejected \in SUBSET Sids
  <2>1. p.rows \ rejected \subseteq Sids /\ told \in [p.rows \ rejected -> 0..Size]
      BY <1>6, <1>7, <1>8
  <2> QED BY <1>3, <1>6, <2>1 DEF Extents
<1>10. acks' \in Seq(Replies)
    BY <1>5, <1>6, <1>8, <1>9, ReplyGiven
<1> QED BY <1>2, <1>5, <1>7, <1>10 DEF FlowTypes, Store, agent

LEMMA StoreFailsTypes == ASSUME FlowTypes, StoreFails PROVE FlowTypes'
<1>1. PICK p : p = Head(up)
    OBVIOUS
<1>2. p \in Posted /\ up' \in Seq(Posted)
    BY <1>1, HeadOfLane DEF StoreFails
<1>3. PICK told : told = <<>>
    OBVIOUS
<1>4. told \in Extents
  <2>1. told \in [{} -> 0..Size] /\ {} \subseteq Sids
      BY <1>3
  <2> QED BY <2>1 DEF Extents
<1>5. Answer(p.seqs, told, {}) \in Seq(Replies)
    BY <1>2, <1>4, ReplyGiven DEF Posted
<1>6. acks' \in Seq(Replies)
    BY <1>1, <1>3, <1>5 DEF StoreFails, FlowTypes
<1> QED BY <1>2, <1>6 DEF FlowTypes, StoreFails, agent

(* What on_ack does, in parts.                                              *)
Meant(a) == {i \in DOMAIN inflight : IF echo THEN inflight[i].seq \in ToSet(a.seqs) ELSE i = 1}
Rested(a) == [s \in Sids |-> IF s \in a.rejected THEN NoBackoff ELSE backoff[s]]

AckStep(a) ==
    /\ a \in Replies /\ acks' \in Seq(Replies) /\ acks' = Tail(acks)
    /\ DOMAIN a.offsets \subseteq Sids /\ a.offsets \in [DOMAIN a.offsets -> 0..Size]
    /\ offsets' = [s \in Sids |-> IF s \in DOMAIN a.offsets THEN a.offsets[s] ELSE offsets[s]]
    /\ inflight' = Kept(inflight, DOMAIN inflight \ Meant(a))
    /\ paused' = [s \in Sids |-> PauseAfter(a, s)]
    /\ backoff' = Answered(a, Rested(a), inflight, Meant(a))
    /\ Rested(a) \in [Sids -> Delays]
    /\ sends' = [s \in Sids |-> IF paused[s] # Nil /\ paused'[s] = Nil THEN Unsent ELSE sends[s]]
    /\ UNCHANGED <<offered, task, saved, up, world>>

LEMMA OnAckParts ==
    ASSUME FlowTypes, OnAck
    PROVE  \E a : a = Head(acks) /\ acks # <<>> /\ AckStep(a)
<1>0. PICK a : a = Head(acks)
    OBVIOUS
<1>1. acks \in Seq(Replies) /\ acks # <<>>
    BY DEF FlowTypes, OnAck
<1>2. a \in Replies /\ Tail(acks) \in Seq(Replies)
    BY <1>0, <1>1, HeadTailProperties
<1>3. DOMAIN a.offsets \subseteq Sids /\ a.offsets \in [DOMAIN a.offsets -> 0..Size]
    BY <1>2, PartsOfSessions DEF Replies
<1>4. Rested(a) \in [Sids -> Delays]
    BY DEF Rested, FlowTypes, NoBackoff, Delays
<1> QED BY <1>0, <1>2, <1>3, <1>4 DEF OnAck, Meant, Rested, AckStep

LEMMA OnAckTypes == ASSUME FlowTypes, OnAck PROVE FlowTypes'
<1>0. PICK a : a = Head(acks) /\ AckStep(a)
    BY OnAckParts
<1>2. offsets' \in [Sids -> 0..Size]
    BY <1>0 DEF AckStep, FlowTypes
<1>3. inflight' \in Seq(Entries)
  <2>1. inflight \in Seq(Entries)
      BY DEF FlowTypes
  <2> QED BY <1>0, <2>1, KeptShape DEF AckStep
<1>4. backoff' \in [Sids -> Delays]
  <2>1. inflight \in Seq(Entries)
      BY DEF FlowTypes
  <2> QED BY <1>0, <2>1, AnsweredRests DEF AckStep
<1>5. paused' \in [Sids -> Pauses \cup {Nil}]
  <2>1. ASSUME NEW s \in Sids PROVE PauseAfter(a, s) \in Pauses \cup {Nil}
    <3>1. PICK p \in Pauses \cup {Nil} : p = paused[s]
        BY DEF FlowTypes
    <3>2. Pause(p) \in Pauses
        BY PauseType
    <3>3. PauseAfter(a, s) = Pause(p) \/ PauseAfter(a, s) = Nil \/ PauseAfter(a, s) = p
        BY <3>1 DEF PauseAfter
    <3> QED BY <3>2, <3>3
  <2> QED BY <1>0, <2>1 DEF AckStep
<1>6. sends' \in [Sids -> [1..Size -> Nat]]
    BY <1>0 DEF AckStep, FlowTypes, Unsent
<1> QED BY <1>2, <1>3, <1>4, <1>5, <1>6, <1>0 DEF AckStep, FlowTypes, world

LEMMA DisconnectedTypes ==
    ASSUME FlowTypes, Disconnected, backoff' \in [Sids -> Delays],
           paused' \in [Sids -> Pauses \cup {Nil}], UNCHANGED <<saved, echo, hub, stored>>
    PROVE  FlowTypes'
<1>1. <<>> \in Seq(Entries) /\ <<>> \in Seq(Posted) /\ <<>> \in Seq(Replies)
    BY EmptySeq
<1>2. 0 \in 0..Size
    BY FlowAssumption
<1> QED BY <1>1, <1>2 DEF Disconnected, FlowTypes, Unsent

LEMMA LaterType ==
    ASSUME NEW p \in [Sids -> Pauses \cup {Nil}]
    PROVE  Later(p) \in [Sids -> Pauses \cup {Nil}]
           /\ \A s \in Sids : Later(p)[s] = Nil <=> p[s] = Nil
<1>1. ASSUME NEW s \in Sids, p[s] # Nil
      PROVE  [p[s] EXCEPT !.until = Less(@)] \in Pauses
    BY <1>1 DEF Pauses, Less
<1> QED BY <1>1, FlowAssumption DEF Later

LEMMA PassesTypes == ASSUME FlowTypes, Passes PROVE FlowTypes'
<1>1. inflight' \in Seq(Entries)
  <2>1. PICK q \in Seq(Entries) : q = inflight
      BY DEF FlowTypes
  <2>2. PICK m \in Nat : m = Len(q) /\ DOMAIN q = 1..m
      BY LenProperties
  <2>3. inflight' = [i \in 1..m |-> [q[i] EXCEPT !.left = Less(@)]]
      BY <2>1, <2>2 DEF Passes
  <2>4. ASSUME NEW i \in 1..m PROVE [q[i] EXCEPT !.left = Less(@)] \in Entries
    <3>1. q[i] \in Entries
        BY <2>2, ElementOfSeq
    <3>2. PICK p \in Entries : p = q[i]
        BY <3>1
    <3>3. Less(p.left) \in 0..Timeout
        BY FlowAssumption DEF Entries, Less
    <3>4. [p EXCEPT !.left = Less(p.left)] \in Entries
        BY <3>3 DEF Entries
    <3> QED BY <3>2, <3>4
  <2>5. PICK r : r = [i \in 1..m |-> [q[i] EXCEPT !.left = Less(@)]]
      OBVIOUS
  <2>6. DOMAIN r = 1..m /\ \A i \in 1..m : r[i] \in Entries
      BY <2>4, <2>5
  <2>7. r \in [1..m -> Entries]
      BY <2>5, <2>6
  <2>8. r \in Seq(Entries)
      BY <2>7, IsASeq
  <2>9. inflight' = r
      BY <2>3, <2>5
  <2> QED BY <2>8, <2>9
<1>2. backoff' \in [Sids -> Delays]
  <2>1. ASSUME NEW s \in Sids PROVE [backoff[s] EXCEPT !.until = Less(@)] \in Delays
    <3>1. PICK b \in Delays : b = backoff[s]
        BY DEF FlowTypes
    <3>2. Less(b.until) \in Nat
        BY DEF Delays, Less
    <3>3. [b EXCEPT !.until = Less(b.until)] \in Delays
        BY <3>2 DEF Delays
    <3> QED BY <3>1, <3>3
  <2> QED BY <2>1 DEF Passes
<1>3. paused' \in [Sids -> Pauses \cup {Nil}] /\ saved' \in [Sids -> Pauses \cup {Nil}]
    BY LaterType DEF Passes, FlowTypes
<1>4. sends' \in [Sids -> [1..Size -> Nat]]
    BY DEF Passes, Unsent
<1> QED BY <1>1, <1>2, <1>3, <1>4 DEF Passes, FlowTypes

LEMMA ChangesMindTypes == ASSUME FlowTypes, NEW s \in Sids, ChangesMind(s) PROVE FlowTypes'
BY DEF FlowTypes, ChangesMind, agent

LEMMA NextTypes == ASSUME FlowTypes, [FlowNext]_flowVars PROVE FlowTypes'
<1>1. CASE Look
    BY <1>1, LookTypes
<1>2. CASE Send
    BY <1>2, SendTypes
<1>3. CASE Sent
    BY <1>3, SentTypes
<1>4. CASE Store
    BY <1>4, StoreTypes
<1>5. CASE StoreFails
    BY <1>5, StoreFailsTypes
<1>6. CASE OnAck
    BY <1>6, OnAckTypes
<1>7. CASE Reconnect
    BY <1>7, DisconnectedTypes DEF Reconnect, FlowTypes
<1>8. CASE Restart
  <2>1. NoBackoff \in Delays
      BY DEF NoBackoff, Delays
  <2> QED BY <1>8, <2>1, DisconnectedTypes DEF Restart, FlowTypes
<1>9. CASE Tick \/ SlowTick
    BY <1>9, PassesTypes DEF Tick, SlowTick
<1>10. ASSUME NEW s \in Sids, ChangesMind(s) PROVE FlowTypes'
    BY <1>10, ChangesMindTypes
<1>11. CASE UNCHANGED flowVars
    BY <1>11 DEF FlowTypes, flowVars, agent, world
<1> QED BY <1>1, <1>2, <1>3, <1>4, <1>5, <1>6, <1>7, <1>8, <1>9, <1>10, <1>11 DEF FlowNext, Loop

----------------------------------------------------------------------------
(* How many packets of q have chunk c of session s.                         *)
Holds(p, s, c) == s \in DOMAIN p.chunks /\ p.chunks[s] = c
Holders(q, s, c) == {i \in DOMAIN q : Holds(q[i], s, c)}
Count(q, s, c) == Cardinality(Holders(q, s, c))

LEMMA CountType ==
    ASSUME NEW q \in Seq(Entries), NEW s, NEW c
    PROVE  IsFiniteSet(Holders(q, s, c)) /\ Count(q, s, c) \in Nat
<1>1. PICK m \in Nat : m = Len(q) /\ DOMAIN q = 1..m
    BY LenProperties
<1>2. Holders(q, s, c) \subseteq 1..m /\ IsFiniteSet(1..m)
    BY <1>1, FS_Interval DEF Holders
<1> QED BY <1>2, FS_Subset, FS_CardinalityType DEF Count

LEMMA CountAppend ==
    ASSUME NEW q \in Seq(Entries), NEW p \in Entries, NEW s, NEW c
    PROVE  /\ Count(Append(q, p), s, c) >= Count(q, s, c)
           /\ Holds(p, s, c) => Count(Append(q, p), s, c) = Count(q, s, c) + 1
<1>1. PICK m \in Nat : m = Len(q) /\ DOMAIN q = 1..m
    BY LenProperties
<1>2. PICK r : r = Append(q, p)
    OBVIOUS
<1>3. /\ r \in Seq(Entries) /\ DOMAIN r = 1..m + 1 /\ r[m + 1] = p
      /\ \A j \in 1..m : r[j] = q[j]
  <2>1. r \in Seq(Entries) /\ Len(r) = m + 1 /\ r[m + 1] = p /\ \A j \in 1..m : r[j] = q[j]
      BY <1>1, <1>2, AppendProperties
  <2> QED BY <2>1, LenProperties
<1>4. m + 1 \notin Holders(q, s, c)
    BY <1>1 DEF Holders
<1>5. Holders(r, s, c) = IF Holds(p, s, c) THEN Holders(q, s, c) \cup {m + 1} ELSE Holders(q, s, c)
  <2>1. ASSUME NEW i PROVE i \in 1..m + 1 <=> i \in 1..m \/ i = m + 1
      OBVIOUS
  <2>2. \A i : i \in Holders(r, s, c) <=> i \in 1..m + 1 /\ Holds(r[i], s, c)
      BY <1>3 DEF Holders
  <2>3. \A i : i \in Holders(q, s, c) <=> i \in 1..m /\ Holds(q[i], s, c)
      BY <1>1 DEF Holders
  <2> QED BY <1>3, <2>1, <2>2, <2>3
<1>6. IsFiniteSet(Holders(q, s, c)) /\ Count(q, s, c) \in Nat
    BY CountType
<1>7. Holds(p, s, c) => Cardinality(Holders(r, s, c)) = Cardinality(Holders(q, s, c)) + 1
    BY <1>4, <1>5, <1>6, FS_AddElement
<1> QED BY <1>2, <1>5, <1>6, <1>7 DEF Count

(* r is q without the packets at other positions than those in I, and h     *)
(* leads to where a packet of r was.                                        *)
Thinned(q, r, I, h) ==
    /\ r \in Seq(Entries)
    /\ h \in [DOMAIN r -> I \cap DOMAIN q]
    /\ \A j \in DOMAIN r : h[j] \in I /\ h[j] \in DOMAIN q /\ r[j] = q[h[j]]
    /\ \A i, j \in DOMAIN r : i < j => h[i] < h[j]
    /\ \A s, c : Holders(q, s, c) \subseteq I => Count(q, s, c) <= Count(r, s, c)

LEMMA KeptThinned ==
    ASSUME NEW q \in Seq(Entries), NEW I
    PROVE  \E h : Thinned(q, Kept(q, I), I, h)
<1>1. PICK r : r = Kept(q, I)
    OBVIOUS
<1>2. r \in Seq(Entries)
    BY <1>1, KeptShape
<1>3. PICK h : Subsequence(r, q, I \cap 1..Len(q), h)
    BY <1>1, KeptShape
<1>4. DOMAIN r = 1..Len(r) /\ DOMAIN q = 1..Len(q)
    BY <1>2, LenProperties
<1>5. /\ h \in [DOMAIN r -> I \cap DOMAIN q]
      /\ \A j \in DOMAIN r : r[j] = q[h[j]]
      /\ \A i, j \in DOMAIN r : i < j => h[i] < h[j]
    BY <1>3, <1>4 DEF Subsequence
<1>6. ASSUME NEW s, NEW c, Holders(q, s, c) \subseteq I
      PROVE  Count(q, s, c) <= Count(r, s, c)
  <2>1. PICK P : P = Holders(q, s, c)
      OBVIOUS
  <2>2. PICK Q : Q = Holders(r, s, c)
      OBVIOUS
  <2>3. P \in SUBSET (I \cap 1..Len(q)) /\ Q \subseteq 1..Len(r)
      BY <1>4, <1>6, <2>1, <2>2 DEF Holders
  <2>4. \A j \in 1..Len(r) : h[j] \in P => j \in Q
      BY <1>4, <1>5, <2>1, <2>2 DEF Holders
  <2>5. Cardinality(P) <= Cardinality(Q)
      BY <1>1, <1>3, <2>3, <2>4, KeptCounts
  <2> QED BY <2>1, <2>2, <2>5 DEF Count
<1>7. Thinned(q, r, I, h)
    BY <1>2, <1>5, <1>6 DEF Thinned
<1> QED BY <1>1, <1>7

----------------------------------------------------------------------------
(* Numbers that are under way: the k-th packet from the Agent's end of the  *)
(* answers a to its end of the packets u has number n.                      *)
Under(a, u, k, n) ==
    \/ k \in DOMAIN a /\ n \in ToSet(a[k].seqs)
    \/ \E j \in DOMAIN u : k = Len(a) + j /\ n \in ToSet(u[j].seqs)

LEMMA NotEmpty ==
    ASSUME NEW S, NEW q \in Seq(S), q # <<>>
    PROVE  \E m \in Nat : m = Len(q) /\ DOMAIN q = 1..m /\ m >= 1
<1>1. PICK m : m = Len(q)
    OBVIOUS
<1>2. m \in Nat /\ m # 0 /\ DOMAIN q = 1..m
    BY <1>1, LenProperties, EmptySeq
<1>3. m >= 1
    BY <1>2
<1> QED BY <1>1, <1>2, <1>3

LEMMA UnderInUse ==
    ASSUME NEW a, NEW u, NEW k, NEW n, Under(a, u, k, n)
    PROVE  n \in Numbers(a) \cup Numbers(u)
BY DEF Under, Numbers

LEMMA MovedOn ==
    ASSUME NEW a \in Seq(Replies), NEW u \in Seq(Posted), u # <<>>,
           NEW r \in Replies, r.seqs = Head(u).seqs,
           NEW k, NEW n, Under(Append(a, r), Tail(u), k, n)
    PROVE  Under(a, u, k, n)
<1>1. PICK l \in Nat : l = Len(a) /\ DOMAIN a = 1..l
    BY LenProperties
<1>2. PICK m \in Nat : m = Len(u) /\ DOMAIN u = 1..m /\ m >= 1
    BY NotEmpty
<1>3. PICK b : b = Append(a, r)
    OBVIOUS
<1>4. PICK v : v = Tail(u)
    OBVIOUS
<1>5. DOMAIN b = 1..l + 1 /\ Len(b) = l + 1 /\ b[l + 1] = r /\ \A i \in 1..l : b[i] = a[i]
  <2>1. b \in Seq(Replies) /\ Len(b) = l + 1 /\ b[l + 1] = r /\ \A i \in 1..l : b[i] = a[i]
      BY <1>1, <1>3, AppendProperties
  <2> QED BY <2>1, LenProperties
<1>6. DOMAIN v = 1..m - 1 /\ \A i \in 1..m - 1 : v[i] = u[i + 1]
  <2>1. v \in Seq(Posted) /\ Len(v) = m - 1 /\ \A i \in 1..Len(v) : v[i] = u[i + 1]
      BY <1>2, <1>4, HeadTailProperties
  <2> QED BY <2>1, LenProperties
<1>7. Head(u) = u[1]
    BY <1>2, HeadTailProperties
<1>8. CASE k \in DOMAIN b /\ n \in ToSet(b[k].seqs)
  <2>1. CASE k = l + 1
    <3>1. 1 \in DOMAIN u /\ k = Len(a) + 1 /\ n \in ToSet(u[1].seqs)
        BY <1>1, <1>2, <1>5, <1>7, <1>8, <2>1
    <3> QED BY <3>1 DEF Under
  <2>2. CASE k # l + 1
    <3>1. k \in 1..l /\ b[k] = a[k]
        BY <1>5, <1>8, <2>2
    <3> QED BY <1>1, <1>8, <3>1 DEF Under
  <2> QED BY <2>1, <2>2
<1>9. ASSUME NEW j \in DOMAIN v, k = Len(b) + j, n \in ToSet(v[j].seqs)
      PROVE  Under(a, u, k, n)
  <2>1. j + 1 \in DOMAIN u /\ v[j] = u[j + 1] /\ k = Len(a) + (j + 1)
    <3>1. j \in 1..m - 1
        BY <1>6
    <3>2. j + 1 \in 1..m /\ l + 1 + j = l + (j + 1)
        BY <3>1
    <3> QED BY <1>1, <1>2, <1>5, <1>6, <1>9, <3>1, <3>2
  <2>2. \E i \in DOMAIN u : k = Len(a) + i /\ n \in ToSet(u[i].seqs)
      BY <1>9, <2>1
  <2> QED BY <2>2 DEF Under
<1> QED BY <1>3, <1>4, <1>8, <1>9 DEF Under

LEMMA TakenOff ==
    ASSUME NEW a \in Seq(Replies), a # <<>>, NEW u \in Seq(Posted)
    PROVE  /\ \A k \in Nat : \A n : Under(Tail(a), u, k, n) => k >= 1 /\ Under(a, u, k + 1, n)
           /\ \A n \in ToSet(Head(a).seqs) : Under(a, u, 1, n)
<1>1. PICK l \in Nat : l = Len(a) /\ DOMAIN a = 1..l /\ l >= 1
    BY NotEmpty
<1>2. PICK m \in Nat : DOMAIN u = 1..m
    BY LenProperties
<1>3. PICK b : b = Tail(a)
    OBVIOUS
<1>4. DOMAIN b = 1..l - 1 /\ Len(b) = l - 1 /\ \A i \in 1..l - 1 : b[i] = a[i + 1]
  <2>1. b \in Seq(Replies) /\ Len(b) = l - 1 /\ \A i \in 1..Len(b) : b[i] = a[i + 1]
      BY <1>1, <1>3, HeadTailProperties
  <2> QED BY <2>1, LenProperties
<1>5. ASSUME NEW k \in Nat, NEW n, Under(b, u, k, n)
      PROVE  k >= 1 /\ Under(a, u, k + 1, n)
  <2>1. CASE k \in DOMAIN b /\ n \in ToSet(b[k].seqs)
    <3>1. k >= 1 /\ k + 1 \in DOMAIN a /\ b[k] = a[k + 1]
        BY <1>1, <1>4, <2>1
    <3> QED BY <2>1, <3>1 DEF Under
  <2>2. ASSUME NEW j \in DOMAIN u, k = Len(b) + j, n \in ToSet(u[j].seqs)
        PROVE  k >= 1 /\ Under(a, u, k + 1, n)
    <3>1. k >= 1 /\ k + 1 = Len(a) + j
      <4>1. j \in Nat /\ j >= 1
          BY <1>2
      <4>2. k = (l - 1) + j
          BY <1>4, <2>2
      <4> QED BY <1>1, <4>1, <4>2
    <3>2. \E i \in DOMAIN u : k + 1 = Len(a) + i /\ n \in ToSet(u[i].seqs)
        BY <2>2, <3>1
    <3> QED BY <3>1, <3>2 DEF Under
  <2> QED BY <1>5, <2>1, <2>2 DEF Under
<1>6. ASSUME NEW n \in ToSet(Head(a).seqs) PROVE Under(a, u, 1, n)
  <2>1. Head(a) = a[1] /\ 1 \in DOMAIN a
      BY <1>1, HeadTailProperties
  <2> QED BY <1>6, <2>1 DEF Under
<1> QED BY <1>3, <1>5, <1>6

(* A packet with number m is put on the lane, alone or with the newest.     *)
LEMMA PutOn ==
    ASSUME NEW a \in Seq(Replies), NEW u \in Seq(Posted), NEW p \in Posted, NEW m \in Nat,
           p.seqs = <<m>>, NEW v,
           \/ v = Append(u, p)
           \/ u # <<>> /\ v = Append(Front(u), Coalesce(Last(u), p))
    PROVE  \A k \in Nat : \A n : Under(a, v, k, n) =>
              /\ k <= Len(a) + Len(v)
              /\ Under(a, u, k, n) \/ (n = m /\ k = Len(a) + Len(v))
<1>1. PICK l \in Nat : l = Len(a) /\ DOMAIN a = 1..l
    BY LenProperties
<1>2. PICK w \in Nat : w = Len(u) /\ DOMAIN u = 1..w
    BY LenProperties
<1>3. PICK d \in Nat :
        /\ Len(v) = d /\ DOMAIN v = 1..d
        /\ \A j \in 1..d : \A n \in ToSet(v[j].seqs) :
             (j \in 1..w /\ n \in ToSet(u[j].seqs)) \/ (n = m /\ j = d)
  <2>1. \A n : n \in ToSet(<<m>>) => n = m
      BY DEF ToSet
  <2>2. CASE v = Append(u, p)
    <3>1. v \in Seq(Posted) /\ Len(v) = w + 1 /\ v[w + 1] = p /\ \A j \in 1..w : v[j] = u[j]
        BY <1>2, <2>2, AppendProperties
    <3>2. DOMAIN v = 1..w + 1
        BY <3>1, LenProperties
    <3>3. ASSUME NEW j \in 1..w + 1, NEW n \in ToSet(v[j].seqs)
          PROVE  (j \in 1..w /\ n \in ToSet(u[j].seqs)) \/ (n = m /\ j = w + 1)
      <4>1. CASE j = w + 1
          BY <2>1, <3>1, <3>3, <4>1
      <4>2. CASE j # w + 1
        <5>1. j \in 1..w
            BY <4>2
        <5> QED BY <3>1, <3>3, <5>1
      <4> QED BY <4>1, <4>2
    <3>4. PICK d \in Nat : d = w + 1
        OBVIOUS
    <3> QED BY <3>1, <3>2, <3>3, <3>4
  <2>3. CASE u # <<>> /\ v = Append(Front(u), Coalesce(Last(u), p))
    <3>1. w >= 1
      <4>1. Len(u) # 0
          BY <2>3, EmptySeq
      <4> QED BY <1>2, <4>1
    <3>2. PICK f : f = Front(u)
        OBVIOUS
    <3>3. f \in Seq(Posted) /\ Len(f) = w - 1 /\ \A j \in 1..w - 1 : f[j] = u[j]
        BY <1>2, <3>1, <3>2 DEF Front
    <3>4. PICK e : e = Last(u)
        OBVIOUS
    <3>5. e = u[w] /\ e \in Posted
        BY <1>2, <3>1, <3>4, ElementOfSeq DEF Last
    <3>6. PICK c : c = Coalesce(e, p)
        OBVIOUS
    <3>7. c \in Posted /\ c.seqs = e.seqs \o <<m>>
        BY <3>5, <3>6, ConcatProperties DEF Coalesce, Posted
    <3>8. \A n \in ToSet(c.seqs) : n \in ToSet(u[w].seqs) \/ n = m
      <4>1. PICK x \in Seq(Nat) : x = e.seqs
          BY <3>5 DEF Posted
      <4>2. PICK y \in Seq(Nat) : y = <<m>>
        <5>1. <<m>> \in Seq(Nat)
            OBVIOUS
        <5> QED BY <5>1
      <4>3. PICK z : z = x \o y
          OBVIOUS
      <4>4. /\ DOMAIN x = 1..Len(x) /\ Len(x) \in Nat /\ Len(y) = 1 /\ y[1] = m
            /\ Len(z) = Len(x) + 1 /\ DOMAIN z = 1..Len(x) + 1
            /\ \A i \in 1..Len(x) + 1 : z[i] = IF i <= Len(x) THEN x[i] ELSE y[i - Len(x)]
          BY <4>2, <4>3, LenProperties
      <4>5. ASSUME NEW i \in DOMAIN z PROVE z[i] = m \/ z[i] \in ToSet(x)
        <5>1. CASE i <= Len(x)
            BY <4>4, <5>1 DEF ToSet
        <5>2. CASE ~(i <= Len(x))
          <6>1. i = Len(x) + 1
              BY <4>4, <5>2
          <6>2. i - Len(x) = 1
              BY <4>4, <6>1
          <6> QED BY <4>4, <5>2, <6>2
        <5> QED BY <5>1, <5>2
      <4>6. c.seqs = z /\ u[w].seqs = x
          BY <3>5, <3>7, <4>1, <4>2, <4>3
      <4> QED BY <4>5, <4>6 DEF ToSet
    <3>9. v \in Seq(Posted) /\ Len(v) = w /\ v[w] = c /\ \A j \in 1..w - 1 : v[j] = u[j]
      <4>1. v = Append(f, c)
          BY <2>3, <3>2, <3>4, <3>6
      <4>2. (w - 1) + 1 = w
          BY <3>1
      <4> QED BY <3>3, <3>7, <4>1, <4>2, AppendProperties
    <3>10. DOMAIN v = 1..w
        BY <3>9, LenProperties
    <3>11. ASSUME NEW j \in 1..w, NEW n \in ToSet(v[j].seqs)
           PROVE  (j \in 1..w /\ n \in ToSet(u[j].seqs)) \/ (n = m /\ j = w)
      <4>1. CASE j = w
          BY <3>8, <3>9, <3>11, <4>1
      <4>2. CASE j # w
        <5>1. j \in 1..w - 1
            BY <3>1, <4>2
        <5> QED BY <3>9, <3>11, <5>1
      <4> QED BY <4>1, <4>2
    <3> QED BY <3>9, <3>10, <3>11
  <2> QED BY <2>2, <2>3
<1>4. ASSUME NEW k \in Nat, NEW n, Under(a, v, k, n)
      PROVE  /\ k <= Len(a) + Len(v)
             /\ Under(a, u, k, n) \/ (n = m /\ k = Len(a) + Len(v))
  <2>1. CASE k \in DOMAIN a /\ n \in ToSet(a[k].seqs)
      BY <1>1, <1>3, <2>1 DEF Under
  <2>2. ASSUME NEW j \in DOMAIN v, k = Len(a) + j, n \in ToSet(v[j].seqs)
        PROVE  /\ k <= Len(a) + Len(v)
               /\ Under(a, u, k, n) \/ (n = m /\ k = Len(a) + Len(v))
    <3>1. (j \in 1..w /\ n \in ToSet(u[j].seqs)) \/ (n = m /\ j = Len(v))
        BY <1>3, <2>2
    <3>2. k <= Len(a) + Len(v)
        BY <1>1, <1>3, <2>2
    <3> QED BY <1>2, <2>2, <3>1, <3>2 DEF Under
  <2> QED BY <1>4, <2>1, <2>2 DEF Under
<1> QED BY <1>4

----------------------------------------------------------------------------
(* The invariant.  Session s is spent when its next chunk was sent more     *)
(* often than packets with it are still unanswered.                         *)
InHand(t, s, c) == IF t # Nil /\ t.pc = "note" /\ Holds(t, s, c) THEN 1 ELSE 0

Spent(s) ==
    /\ offsets[s] < Size
    /\ sends[s][offsets[s] + 1]
         > Count(inflight, s, offsets[s] + 1) + InHand(task, s, offsets[s] + 1)

Resting == \A s \in Sids : Spent(s) => paused[s] # Nil \/ backoff[s].until > 0

(* Nor can an answer that is still under way count as progress: it is not   *)
(* for a packet with a chunk the Hub had before.                            *)
Answerable(n) == echo => \E k \in Nat : Under(acks, up, k, n)

NothingOld ==
    \A s \in Sids : Spent(s) =>
        \A i \in DOMAIN inflight :
            s \in DOMAIN inflight[i].chunks /\ inflight[i].chunks[s] <= offsets[s]
                => ~Answerable(inflight[i].seq)

(* Packets wait in the order in which they were sent.                       *)
NotAhead(f, g) == \A s \in DOMAIN f \cap DOMAIN g : f[s] <= g[s]

Before(m, n) ==
    echo => \A k, l \in Nat : Under(acks, up, k, m) /\ Under(acks, up, l, n) => k <= l

InOrder ==
    /\ \A i, j \in DOMAIN inflight : i < j =>
        /\ inflight[i].left <= inflight[j].left
        /\ NotAhead(inflight[i].chunks, inflight[j].chunks)
        /\ Before(inflight[i].seq, inflight[j].seq)
    /\ task # Nil => \A i \in DOMAIN inflight :
        /\ NotAhead(inflight[i].chunks, task.chunks)
        /\ task.pc = "note" => Before(inflight[i].seq, task.seq)

(* Nothing beyond the next chunk was sent, and a packet is cut while the    *)
(* window has room.                                                         *)
Frontier ==
    /\ \A s \in Sids, c \in 1..Size : c > offsets[s] + 1 => sends[s][c] = 0
    /\ \A i \in DOMAIN inflight : \A s \in DOMAIN inflight[i].chunks :
         inflight[i].chunks[s] <= offsets[s] + 1
    /\ task # Nil => \A s \in DOMAIN task.chunks :
        /\ task.chunks[s] <= offsets[s] + 1
        /\ \A c \in 1..Size : c > task.chunks[s] => sends[s][c] = 0
        /\ task.pc = "send" => sends[s][task.chunks[s]] < Window

(* The Agent's offsets, those of the answers under way and what is stored   *)
(* follow each other.                                                       *)
Trail ==
    /\ \A s \in Sids : offsets[s] <= stored[s]
    /\ \A k \in DOMAIN acks : \A s \in DOMAIN acks[k].offsets :
         offsets[s] <= acks[k].offsets[s] /\ acks[k].offsets[s] <= stored[s]
    /\ \A k, l \in DOMAIN acks : k < l => NotAhead(acks[k].offsets, acks[l].offsets)

FlowInv == FlowTypes /\ Resting /\ NothingOld /\ InOrder /\ Frontier /\ Trail /\ NoHotLoop

----------------------------------------------------------------------------
(* A session of whose next chunk nothing was sent is not spent.             *)
LEMMA NobodySpent ==
    ASSUME FlowTypes', NEW s \in Sids, offsets'[s] < Size => sends'[s][offsets'[s] + 1] = 0
    PROVE  ~Spent(s)'
<1>1. PICK q \in Seq(Entries) : q = inflight'
    BY DEF FlowTypes
<1>2. PICK c : c = offsets'[s] + 1
    OBVIOUS
<1>3. PICK n \in Nat : n = Count(q, s, c)
    BY CountType
<1>4. PICK t : t = InHand(task', s, c)
    OBVIOUS
<1>5. t = 0 \/ t = 1
    BY <1>4 DEF InHand
<1>6. SUFFICES ASSUME Spent(s)' PROVE FALSE
    OBVIOUS
<1>7. offsets'[s] < Size /\ sends'[s][c] > n + t
    BY <1>1, <1>2, <1>3, <1>4, <1>6 DEF Spent
<1>8. sends'[s][c] = 0
    BY <1>2, <1>7
<1> QED BY <1>5, <1>7, <1>8

LEMMA InFlightType ==
    ASSUME FlowTypes, NEW i \in DOMAIN inflight
    PROVE  /\ inflight[i] \in Entries /\ inflight[i].left \in 0..Timeout
           /\ DOMAIN inflight[i].chunks \subseteq Sids
           /\ \A s \in DOMAIN inflight[i].chunks : inflight[i].chunks[s] \in 1..Size
<1>1. PICK q \in Seq(Entries) : q = inflight
    BY DEF FlowTypes
<1>2. i \in 1..Len(q)
    BY <1>1, LenProperties
<1>3. q[i] \in Entries
    BY <1>2, ElementOfSeq
<1>4. PICK e \in Entries : e = inflight[i]
    BY <1>1, <1>3
<1>5. e.chunks \in Chunks /\ e.left \in 0..Timeout
    BY DEF Entries
<1> QED BY <1>4, <1>5, PartsOfSessions

LEMMA TaskType ==
    ASSUME FlowTypes, task # Nil
    PROVE  /\ task \in Turns
           /\ DOMAIN task.chunks \subseteq Sids
           /\ \A s \in DOMAIN task.chunks : task.chunks[s] \in 1..Size
<1>1. task \in Turns
    BY DEF FlowTypes
<1>2. task.chunks \in Chunks
    BY <1>1 DEF Turns
<1> QED BY <1>1, <1>2, PartsOfSessions

LEMMA SendsType ==
    ASSUME FlowTypes, NEW s \in Sids, NEW c \in 1..Size
    PROVE  sends[s][c] \in Nat
<1>1. PICK f \in [1..Size -> Nat] : f = sends[s]
    BY DEF FlowTypes
<1> QED BY <1>1

(* What a session sent of its next chunk.                                   *)
LEMMA SpentSends ==
    ASSUME FlowTypes, NEW s \in Sids
    PROVE  /\ Count(inflight, s, offsets[s] + 1) \in Nat
           /\ Spent(s) => offsets[s] + 1 \in 1..Size /\ sends[s][offsets[s] + 1] > 0
<1>1. PICK q \in Seq(Entries) : q = inflight
    BY DEF FlowTypes
<1>2. PICK c : c = offsets[s] + 1
    OBVIOUS
<1>3. PICK n \in Nat : n = Count(q, s, c)
    BY CountType
<1>4. PICK t : t = InHand(task, s, c)
    OBVIOUS
<1>5. t = 0 \/ t = 1
    BY <1>4 DEF InHand
<1>6. offsets[s] \in 0..Size
    BY DEF FlowTypes
<1>7. ASSUME Spent(s) PROVE c \in 1..Size /\ sends[s][c] > 0
  <2>1. offsets[s] < Size /\ sends[s][c] > n + t
      BY <1>1, <1>2, <1>3, <1>4, <1>7 DEF Spent
  <2>2. c \in 1..Size
      BY <1>2, <1>6, <2>1, FlowAssumption
  <2>3. sends[s][c] \in Nat
      BY <2>2 DEF FlowTypes
  <2> QED BY <1>5, <2>1, <2>2, <2>3
<1> QED BY <1>1, <1>2, <1>3, <1>7

LEMMA InitInv == FlowInit => FlowInv
<1> SUFFICES ASSUME FlowInit PROVE FlowInv
    OBVIOUS
<1>1. FlowTypes
    BY InitTypes
<1>2. /\ inflight = <<>> /\ task = Nil /\ acks = <<>> /\ up = <<>>
      /\ \A s \in Sids : offsets[s] = 0 /\ stored[s] = 0 /\ \A c \in 1..Size : sends[s][c] = 0
    BY DEF FlowInit, Unsent
<1>3. \A s \in Sids : ~Spent(s)
    BY <1>1, <1>2, SpentSends
<1>4. DOMAIN inflight = {} /\ DOMAIN acks = {}
    BY <1>2
<1>5. Resting /\ NothingOld
    BY <1>3 DEF Resting, NothingOld
<1>6. InOrder /\ Frontier
    BY <1>2, <1>4 DEF InOrder, Frontier
<1>7. Trail
    BY <1>2, <1>4 DEF Trail
<1>8. NoHotLoop
    BY <1>2, FlowAssumption DEF NoHotLoop
<1> QED BY <1>1, <1>5, <1>6, <1>7, <1>8 DEF FlowInv

----------------------------------------------------------------------------
(* The invariant, action by action.  When time passes or the connection is  *)
(* new, nothing counts as sent.                                             *)
LEMMA DisconnectedInv ==
    ASSUME FlowInv, FlowTypes', Disconnected, UNCHANGED <<echo, stored>>
    PROVE  FlowInv'
<1>1. /\ inflight' = <<>> /\ task' = Nil /\ acks' = <<>> /\ up' = <<>>
      /\ \A s \in Sids : offsets'[s] = 0 /\ \A c \in 1..Size : sends'[s][c] = 0
    BY DEF Disconnected, Unsent
<1>2. \A s \in Sids : ~Spent(s)'
  <2>1. ASSUME NEW s \in Sids PROVE ~Spent(s)'
    <3>1. offsets'[s] < Size => sends'[s][offsets'[s] + 1] = 0
        BY <1>1, FlowAssumption
    <3> QED BY <3>1, NobodySpent
  <2> QED BY <2>1
<1>3. DOMAIN inflight' = {} /\ DOMAIN acks' = {}
    BY <1>1
<1>4. Resting' /\ NothingOld'
    BY <1>2 DEF Resting, NothingOld
<1>5. InOrder' /\ Frontier'
    BY <1>1, <1>3 DEF InOrder, Frontier
<1>6. Trail'
  <2>1. \A s \in Sids : stored[s] >= 0
      BY DEF FlowInv, FlowTypes
  <2> QED BY <1>1, <1>3, <2>1 DEF Trail
<1>7. NoHotLoop'
    BY <1>1, FlowAssumption DEF NoHotLoop
<1> QED BY <1>4, <1>5, <1>6, <1>7 DEF FlowInv

LEMMA PassesInv == ASSUME FlowInv, FlowTypes', Passes PROVE FlowInv'
<1>1. \A s \in Sids : \A c \in 1..Size : sends'[s][c] = 0
    BY DEF Passes, Unsent
<1>2. FlowTypes
    BY DEF FlowInv
<1>3. /\ DOMAIN inflight' = DOMAIN inflight
      /\ \A i \in DOMAIN inflight :
            /\ inflight'[i].seq = inflight[i].seq /\ inflight'[i].chunks = inflight[i].chunks
            /\ inflight'[i].left = Less(inflight[i].left)
  <2>1. ASSUME NEW i \in DOMAIN inflight
        PROVE  /\ inflight'[i].seq = inflight[i].seq /\ inflight'[i].chunks = inflight[i].chunks
               /\ inflight'[i].left = Less(inflight[i].left)
    <3>1. PICK e \in Entries : e = inflight[i]
        BY <1>2, InFlightType
    <3>2. inflight'[i] = [e EXCEPT !.left = Less(e.left)]
        BY <3>1 DEF Passes
    <3> QED BY <3>1, <3>2 DEF Entries
  <2> QED BY <2>1 DEF Passes
<1>4. UNCHANGED <<offsets, task, up, acks, echo, stored>>
    BY DEF Passes
<1>5. \A s \in Sids : ~Spent(s)'
  <2>1. ASSUME NEW s \in Sids PROVE ~Spent(s)'
    <3>1. offsets'[s] < Size => sends'[s][offsets'[s] + 1] = 0
        BY <1>1, <1>2, <1>4, FlowAssumption DEF FlowTypes
    <3> QED BY <3>1, NobodySpent
  <2> QED BY <2>1
<1>6. Resting' /\ NothingOld'
    BY <1>5 DEF Resting, NothingOld
<1>7. InOrder'
  <2>0. \A m, n : Before(m, n) => Before(m, n)'
      BY <1>4 DEF Before
  <2>1. ASSUME NEW i \in DOMAIN inflight, NEW j \in DOMAIN inflight, i < j
        PROVE  /\ inflight'[i].left <= inflight'[j].left
               /\ NotAhead(inflight'[i].chunks, inflight'[j].chunks)
               /\ Before(inflight[i].seq, inflight[j].seq)'
    <3>1. inflight[i].left \in Nat /\ inflight[j].left \in Nat
        BY <1>2, InFlightType, FlowAssumption
    <3>2. inflight[i].left <= inflight[j].left
        BY <2>1 DEF FlowInv, InOrder
    <3>3. Less(inflight[i].left) <= Less(inflight[j].left)
        BY <3>1, <3>2 DEF Less
    <3>4. NotAhead(inflight[i].chunks, inflight[j].chunks) /\ Before(inflight[i].seq, inflight[j].seq)
        BY <2>1 DEF FlowInv, InOrder
    <3>5. PICK x, y : x = inflight[i].seq /\ y = inflight[j].seq
        OBVIOUS
    <3>6. inflight'[i].seq = x /\ inflight'[j].seq = y
        BY <1>3, <3>5
    <3>7. Before(x, y)'
        BY <2>0, <3>4, <3>5
    <3> QED BY <1>3, <3>3, <3>4, <3>6, <3>7
  <2>2. ASSUME task # Nil, NEW i \in DOMAIN inflight
        PROVE  /\ NotAhead(inflight'[i].chunks, task.chunks)
               /\ task.pc = "note" => Before(inflight[i].seq, task.seq)'
    <3>1. /\ NotAhead(inflight[i].chunks, task.chunks)
          /\ task.pc = "note" => Before(inflight[i].seq, task.seq)
        BY <2>2 DEF FlowInv, InOrder
    <3>2. PICK x, y : x = inflight[i].seq /\ y = task.seq
        OBVIOUS
    <3>3. inflight'[i].seq = x /\ task'.seq = y
        BY <1>3, <1>4, <3>2
    <3> QED BY <1>3, <2>0, <3>1, <3>2, <3>3
  <2> QED BY <1>3, <1>4, <2>1, <2>2 DEF InOrder
<1>8. Frontier'
  <2>1. ASSUME task # Nil, NEW s \in DOMAIN task.chunks
        PROVE  /\ task.chunks[s] <= offsets[s] + 1
               /\ \A c \in 1..Size : sends'[s][c] = 0
               /\ task.pc = "send" => sends'[s][task.chunks[s]] < Window
    <3>1. s \in Sids /\ task.chunks[s] \in 1..Size
        BY <1>2, <2>1, TaskType
    <3>2. task.chunks[s] <= offsets[s] + 1 /\ (task.pc = "send" => sends[s][task.chunks[s]] < Window)
        BY <2>1 DEF FlowInv, Frontier
    <3>3. sends[s][task.chunks[s]] \in Nat
      <4>1. PICK c \in 1..Size : c = task.chunks[s]
          BY <3>1
      <4>2. PICK f \in [1..Size -> Nat] : f = sends[s]
          BY <1>2, <3>1 DEF FlowTypes
      <4>3. f[c] \in Nat
          OBVIOUS
      <4> QED BY <4>1, <4>2, <4>3
    <3>4. sends'[s][task.chunks[s]] = 0
        BY <1>1, <3>1
    <3> QED BY <1>1, <3>1, <3>2, <3>3, <3>4, FlowAssumption
  <2>2. \A i \in DOMAIN inflight : \A s \in DOMAIN inflight[i].chunks :
          inflight[i].chunks[s] <= offsets[s] + 1
      BY DEF FlowInv, Frontier
  <2> QED BY <1>1, <1>3, <1>4, <2>1, <2>2 DEF Frontier
<1>9. Trail'
    BY <1>4 DEF FlowInv, Trail
<1>10. NoHotLoop'
    BY <1>1, FlowAssumption DEF NoHotLoop
<1> QED BY <1>6, <1>7, <1>8, <1>9, <1>10 DEF FlowInv

(* What does not touch the Agent or its count changes only what is under    *)
(* way.                                                                     *)
LEMMA AgentApart ==
    ASSUME FlowInv, FlowTypes', Trail', UNCHANGED <<agent, sends, echo>>,
           echo => \A k \in Nat : \A n : Under(acks, up, k, n)' => Under(acks, up, k, n)
    PROVE  FlowInv'
<1>1. UNCHANGED <<offsets, inflight, backoff, paused, task, sends, echo>>
    BY DEF agent
<1>2. \A s : Spent(s)' <=> Spent(s)
    BY <1>1 DEF Spent
<1>3. \A n : Answerable(n)' => Answerable(n)
    BY <1>1 DEF Answerable
<1>4. \A m, n : Before(m, n) => Before(m, n)'
    BY <1>1 DEF Before
<1>5. Resting'
    BY <1>1, <1>2 DEF FlowInv, Resting
<1>6. NothingOld'
    BY <1>1, <1>2, <1>3 DEF FlowInv, NothingOld
<1>7. InOrder'
    BY <1>1, <1>4 DEF FlowInv, InOrder
<1>8. Frontier' /\ NoHotLoop'
    BY <1>1 DEF FlowInv, Frontier, NoHotLoop
<1> QED BY <1>5, <1>6, <1>7, <1>8 DEF FlowInv

LEMMA ChangesMindInv == ASSUME FlowInv, FlowTypes', NEW s \in Sids, ChangesMind(s) PROVE FlowInv'
<1>1. UNCHANGED <<agent, acks, up, echo, stored, sends>>
    BY DEF ChangesMind
<1>2. Trail'
    BY <1>1 DEF FlowInv, Trail, agent
<1>3. \A k \in Nat : \A n : Under(acks, up, k, n)' => Under(acks, up, k, n)
    BY <1>1
<1> QED BY <1>1, <1>2, <1>3, AgentApart

LEMMA AnsweredUnder ==
    ASSUME FlowTypes, up # <<>>, up' = Tail(up), NEW told \in Extents, NEW rejected \in SUBSET Sids,
           acks' = Answer(Head(up).seqs, told, rejected)
    PROVE  echo => \A k \in Nat : \A n : Under(acks, up, k, n)' => Under(acks, up, k, n)
<1>1. PICK a \in Seq(Replies) : a = acks
    BY DEF FlowTypes
<1>2. PICK u \in Seq(Posted) : u = up
    BY DEF FlowTypes
<1>3. PICK r : r = [seqs |-> Head(u).seqs, offsets |-> told, rejected |-> rejected]
    OBVIOUS
<1>4. r \in Replies /\ r.seqs = Head(u).seqs
  <2>1. Head(u) \in Posted
      BY <1>2, HeadTailProperties
  <2> QED BY <1>3, <2>1 DEF Posted, Replies
<1>5. ASSUME echo, NEW k \in Nat, NEW n, Under(acks, up, k, n)' PROVE Under(acks, up, k, n)
  <2>1. acks' = Append(a, r) /\ up' = Tail(u)
      BY <1>1, <1>2, <1>3, <1>5 DEF Answer
  <2>2. Under(Append(a, r), Tail(u), k, n)
      BY <1>5, <2>1
  <2>3. Under(a, u, k, n)
      BY <1>2, <1>4, <2>2, MovedOn
  <2> QED BY <1>1, <1>2, <2>3
<1> QED BY <1>5

(* An answer that says no less than those before it.                        *)
LEMMA AnsweredTrail ==
    ASSUME FlowTypes, Trail, NEW r, acks' = Append(acks, r), UNCHANGED offsets,
           \A s \in Sids : stored'[s] \in Nat /\ stored[s] <= stored'[s],
           DOMAIN r.offsets \subseteq Sids,
           \A s \in DOMAIN r.offsets : r.offsets[s] = stored'[s]
    PROVE  Trail'
<1>1. PICK a \in Seq(Replies) : a = acks
    BY DEF FlowTypes
<1>2. PICK l \in Nat : l = Len(a) /\ DOMAIN a = 1..l
    BY LenProperties
<1>3. PICK b : b = Append(a, r)
    OBVIOUS
<1>4. DOMAIN b = 1..l + 1 /\ b[l + 1] = r /\ \A k \in 1..l : b[k] = a[k]
    BY <1>1, <1>2, <1>3
<1>5. \A s \in Sids : offsets[s] \in Nat /\ stored[s] \in Nat /\ offsets[s] <= stored'[s]
    BY FlowAssumption DEF FlowTypes, Trail
<1>6. ASSUME NEW k \in 1..l, NEW s \in DOMAIN a[k].offsets
      PROVE  s \in Sids /\ offsets[s] <= a[k].offsets[s] /\ a[k].offsets[s] <= stored'[s]
  <2>1. a[k] \in Replies
      BY <1>2, ElementOfSeq
  <2>2. a[k].offsets \in Extents
      BY <2>1 DEF Replies
  <2>3. s \in Sids /\ a[k].offsets[s] \in 0..Size
      BY <1>6, <2>2, PartsOfSessions
  <2>4. offsets[s] <= a[k].offsets[s] /\ a[k].offsets[s] <= stored[s]
      BY <1>1, <1>2, <1>6 DEF Trail
  <2> QED BY <1>5, <2>3, <2>4, FlowAssumption
<1>7. ASSUME NEW k \in 1..l + 1, NEW s \in DOMAIN b[k].offsets
      PROVE  offsets[s] <= b[k].offsets[s] /\ b[k].offsets[s] <= stored'[s]
  <2>1. CASE k = l + 1
      BY <1>4, <1>5, <1>7, <2>1
  <2>2. CASE k # l + 1
    <3>1. k \in 1..l
        BY <2>2
    <3> QED BY <1>4, <1>6, <1>7, <3>1
  <2> QED BY <2>1, <2>2
<1>8. ASSUME NEW k \in 1..l + 1, NEW m \in 1..l + 1, k < m
      PROVE  NotAhead(b[k].offsets, b[m].offsets)
  <2>1. k \in 1..l /\ b[k] = a[k]
      BY <1>4, <1>8
  <2>2. CASE m = l + 1
    <3>1. ASSUME NEW s \in DOMAIN a[k].offsets \cap DOMAIN r.offsets
          PROVE  a[k].offsets[s] <= r.offsets[s]
        BY <1>6, <2>1
    <3> QED BY <1>4, <2>1, <2>2, <3>1 DEF NotAhead
  <2>3. CASE m # l + 1
    <3>1. m \in 1..l /\ b[m] = a[m]
        BY <1>4, <2>3
    <3> QED BY <1>1, <1>2, <1>8, <2>1, <3>1 DEF Trail
  <2> QED BY <2>2, <2>3
<1>9. acks' = b
    BY <1>1, <1>3
<1> QED BY <1>4, <1>5, <1>7, <1>8, <1>9 DEF Trail

LEMMA StoreInv == ASSUME FlowInv, FlowTypes', Store PROVE FlowInv'
<1>1. PICK p : p = Head(up)
    OBVIOUS
<1>2. FlowTypes /\ Trail
    BY DEF FlowInv
<1>3. p \in Posted /\ p.rows \subseteq Sids
    BY <1>1, <1>2, HeadOfLane DEF Store, Posted
<1>4. PICK rejected : rejected = {s \in p.rows : hub[s] = "refuses"}
    OBVIOUS
<1>5. PICK now : now = [s \in Sids |->
          IF s \in p.rows /\ hub[s] = "takes" /\ s \in DOMAIN p.chunks /\ p.chunks[s] = stored[s] + 1
          THEN stored[s] + 1 ELSE stored[s]]
    OBVIOUS
<1>6. PICK told : told = [s \in p.rows \ rejected |-> now[s]]
    OBVIOUS
<1>7. stored' = now /\ acks' = Answer(p.seqs, told, rejected)
    BY <1>1, <1>4, <1>5, <1>6 DEF Store
<1>8. PICK r : r = [seqs |-> IF echo THEN p.seqs ELSE <<>>, offsets |-> told,
                     rejected |-> IF echo THEN rejected ELSE {}]
    OBVIOUS
<1>9. \A s \in Sids : stored'[s] \in Nat /\ stored[s] <= stored'[s]
    BY <1>2, <1>5, <1>7, FlowAssumption DEF FlowTypes
<1>10. told \in Extents
  <2>1. stored' \in [Sids -> 0..Size]
      BY DEF FlowTypes
  <2>2. told \in [p.rows \ rejected -> 0..Size] /\ p.rows \ rejected \subseteq Sids
      BY <1>3, <1>6, <1>7, <2>1
  <2> QED BY <2>2 DEF Extents
<1>11. acks' = Append(acks, r) /\ r.offsets = told
    BY <1>7, <1>8 DEF Answer
<1>12. UNCHANGED <<agent, sends, echo, offsets>>
    BY DEF Store, agent
<1>13. Trail'
  <2>1. DOMAIN r.offsets \subseteq Sids /\ \A s \in DOMAIN r.offsets : r.offsets[s] = stored'[s]
      BY <1>3, <1>6, <1>7, <1>11
  <2> QED BY <1>2, <1>9, <1>11, <1>12, <2>1, AnsweredTrail
<1>14. rejected \in SUBSET Sids
    BY <1>3, <1>4
<1>15. echo => \A k \in Nat : \A n : Under(acks, up, k, n)' => Under(acks, up, k, n)
  <2>1. up # <<>> /\ up' = Tail(up)
      BY DEF Store
  <2> QED BY <1>1, <1>2, <1>7, <1>10, <1>14, <2>1, AnsweredUnder
<1> QED BY <1>12, <1>13, <1>15, AgentApart

LEMMA StoreFailsInv == ASSUME FlowInv, FlowTypes', StoreFails PROVE FlowInv'
<1>1. FlowTypes /\ Trail /\ UNCHANGED <<agent, sends, echo, offsets, stored>>
    BY DEF FlowInv, StoreFails, agent
<1>2. CASE echo
  <2>1. PICK told : told = <<>>
      OBVIOUS
  <2>2. told \in Extents /\ DOMAIN told = {}
    <3>1. told \in [{} -> 0..Size] /\ {} \subseteq Sids /\ DOMAIN told = {}
        BY <2>1
    <3> QED BY <3>1 DEF Extents
  <2>3. acks' = Answer(Head(up).seqs, told, {}) /\ up # <<>> /\ up' = Tail(up)
      BY <1>2, <2>1 DEF StoreFails
  <2>4. PICK r : r = [seqs |-> Head(up).seqs, offsets |-> told, rejected |-> {}]
      OBVIOUS
  <2>5. acks' = Append(acks, r) /\ r.offsets = told
      BY <1>2, <2>3, <2>4 DEF Answer
  <2>6. \A s \in Sids : stored'[s] \in Nat /\ stored[s] <= stored'[s]
      BY <1>1, FlowAssumption DEF FlowTypes
  <2>7. Trail'
      BY <1>1, <2>2, <2>5, <2>6, AnsweredTrail
  <2>8. {} \in SUBSET Sids
      OBVIOUS
  <2>9. echo => \A k \in Nat : \A n : Under(acks, up, k, n)' => Under(acks, up, k, n)
      BY <1>1, <2>2, <2>3, <2>8, AnsweredUnder
  <2> QED BY <1>1, <2>7, <2>9, AgentApart
<1>3. CASE ~echo
  <2>1. UNCHANGED acks
      BY <1>3 DEF StoreFails
  <2>2. Trail'
      BY <1>1, <2>1 DEF Trail
  <2> QED BY <1>1, <1>3, <2>2, AgentApart
<1> QED BY <1>2, <1>3

LEMMA SentInv == ASSUME FlowInv, FlowTypes', Sent PROVE FlowInv'
<1>1. PICK q \in Seq(Entries) : q = inflight
    BY DEF FlowInv, FlowTypes
<1>2. PICK t : t = task
    OBVIOUS
<1>3. t \in Turns /\ DOMAIN t.chunks \subseteq Sids /\ t # Nil /\ t.pc = "note"
    BY <1>2, TaskType DEF FlowInv, Sent
<1>4. PICK e : e = [seq |-> t.seq, left |-> Timeout, chunks |-> t.chunks]
    OBVIOUS
<1>5. e \in Entries /\ e.seq = t.seq /\ e.left = Timeout /\ e.chunks = t.chunks
    BY <1>3, <1>4, FlowAssumption DEF Turns, Entries
<1>6. PICK r : r = Append(q, e)
    OBVIOUS
<1>7. PICK m \in Nat : m = Len(q) /\ DOMAIN q = 1..m
    BY LenProperties
<1>8. DOMAIN r = 1..m + 1 /\ r[m + 1] = e /\ \A i \in 1..m : r[i] = q[i]
  <2>1. r \in Seq(Entries) /\ Len(r) = m + 1 /\ r[m + 1] = e /\ \A j \in 1..m : r[j] = q[j]
      BY <1>5, <1>6, <1>7, AppendProperties
  <2> QED BY <2>1, LenProperties
<1>9. /\ inflight' = r /\ task' = Nil
      /\ UNCHANGED <<offsets, backoff, paused, up, acks, echo, stored, sends>>
    BY <1>1, <1>2, <1>4, <1>6 DEF Sent, world
<1>10. \A n : Answerable(n)' <=> Answerable(n)
    BY <1>9 DEF Answerable
<1>11. \A k, l : Before(k, l) => Before(k, l)'
    BY <1>9 DEF Before
<1>12. ASSUME NEW s \in Sids, Spent(s)' PROVE Spent(s)
  <2>1. PICK c : c = offsets[s] + 1
      OBVIOUS
  <2>2. PICK a \in Nat : a = Count(q, s, c)
      BY CountType
  <2>3. Count(r, s, c) >= a /\ (Holds(e, s, c) => Count(r, s, c) = a + 1)
      BY <1>5, <1>6, <2>2, CountAppend
  <2>4. PICK b \in Nat : b = Count(r, s, c)
    <3>1. r \in Seq(Entries)
        BY <1>5, <1>6, AppendProperties
    <3> QED BY <3>1, CountType
  <2>5. InHand(t, s, c) = IF Holds(e, s, c) THEN 1 ELSE 0
      BY <1>3, <1>5 DEF InHand, Holds
  <2>6. InHand(Nil, s, c) = 0
      BY DEF InHand
  <2>7. offsets[s] < Size /\ sends[s][c] > b + 0
      BY <1>9, <1>12, <2>1, <2>4, <2>6 DEF Spent
  <2>8. sends[s][c] \in Nat
    <3>1. offsets[s] \in 0..Size
        BY DEF FlowInv, FlowTypes
    <3>2. c \in 1..Size
        BY <2>1, <2>7, <3>1, FlowAssumption
    <3> QED BY <3>2, SendsType DEF FlowInv
  <2>9. sends[s][c] > a + InHand(t, s, c)
      BY <2>3, <2>4, <2>5, <2>7, <2>8
  <2> QED BY <1>1, <1>2, <2>1, <2>2, <2>7, <2>9 DEF Spent
<1>13. Resting'
    BY <1>9, <1>12 DEF FlowInv, Resting
<1>14. NothingOld'
  <2>1. ASSUME NEW s \in Sids, Spent(s)', NEW i \in 1..m + 1,
               s \in DOMAIN r[i].chunks, r[i].chunks[s] <= offsets[s]
        PROVE  ~Answerable(r[i].seq)
    <3>1. Spent(s)
        BY <1>12, <2>1
    <3>2. CASE i = m + 1
      <4>1. PICK d \in 1..Size : d = t.chunks[s]
          BY <1>2, <1>3, <1>5, <1>8, <2>1, <3>2, TaskType DEF FlowInv
      <4>2. d <= offsets[s]
          BY <1>5, <1>8, <2>1, <3>2, <4>1
      <4>3. \A c \in 1..Size : c > d => sends[s][c] = 0
          BY <1>2, <1>3, <1>5, <1>8, <2>1, <3>2, <4>1 DEF FlowInv, Frontier
      <4>4. offsets[s] + 1 \in 1..Size /\ sends[s][offsets[s] + 1] > 0
          BY <3>1, SpentSends DEF FlowInv
      <4>5. offsets[s] \in Nat
          BY FlowAssumption DEF FlowInv, FlowTypes
      <4> QED BY <4>2, <4>3, <4>4, <4>5
    <3>3. CASE i # m + 1
      <4>1. i \in DOMAIN inflight /\ r[i] = inflight[i]
          BY <1>1, <1>7, <1>8, <3>3
      <4> QED BY <2>1, <3>1, <4>1 DEF FlowInv, NothingOld
    <3> QED BY <3>2, <3>3
  <2>2. ASSUME NEW s \in Sids, Spent(s)', NEW i \in DOMAIN inflight',
               s \in DOMAIN inflight'[i].chunks, inflight'[i].chunks[s] <= offsets'[s]
        PROVE  ~Answerable(inflight[i].seq)'
    <3>1. PICK n : n = r[i].seq
        OBVIOUS
    <3>2. ~Answerable(n)
        BY <1>8, <1>9, <2>1, <2>2, <3>1
    <3>3. ~Answerable(n)'
        BY <1>10, <3>2
    <3>4. inflight'[i].seq = n
        BY <1>9, <3>1
    <3> QED BY <3>3, <3>4
  <2> QED BY <2>2 DEF NothingOld
<1>15. InOrder'
  <2>1. ASSUME NEW i \in 1..m + 1, NEW j \in 1..m + 1, i < j
        PROVE  /\ r[i].left <= r[j].left
               /\ NotAhead(r[i].chunks, r[j].chunks)
               /\ Before(r[i].seq, r[j].seq)
    <3>1. i \in DOMAIN inflight /\ r[i] = inflight[i]
        BY <1>1, <1>7, <1>8, <2>1
    <3>2. CASE j = m + 1
      <4>1. inflight[i].left \in 0..Timeout
          BY <3>1, InFlightType DEF FlowInv
      <4>2. r[j] = e
          BY <1>8, <3>2
      <4>3. NotAhead(inflight[i].chunks, t.chunks) /\ Before(inflight[i].seq, t.seq)
          BY <1>2, <1>3, <3>1 DEF FlowInv, InOrder
      <4> QED BY <1>5, <3>1, <4>1, <4>2, <4>3, FlowAssumption
    <3>3. CASE j # m + 1
      <4>1. j \in DOMAIN inflight /\ r[j] = inflight[j]
          BY <1>1, <1>7, <1>8, <3>3
      <4> QED BY <2>1, <3>1, <4>1 DEF FlowInv, InOrder
    <3> QED BY <3>2, <3>3
  <2>2. ASSUME NEW i \in DOMAIN inflight', NEW j \in DOMAIN inflight', i < j
        PROVE  /\ inflight'[i].left <= inflight'[j].left
               /\ NotAhead(inflight'[i].chunks, inflight'[j].chunks)
               /\ Before(inflight[i].seq, inflight[j].seq)'
    <3>1. PICK x, y : x = r[i].seq /\ y = r[j].seq
        OBVIOUS
    <3>2. Before(x, y)'
        BY <1>8, <1>9, <1>11, <2>1, <2>2, <3>1
    <3>3. inflight'[i].seq = x /\ inflight'[j].seq = y
        BY <1>9, <3>1
    <3> QED BY <1>8, <1>9, <2>1, <2>2, <3>2, <3>3
  <2> QED BY <1>9, <2>2 DEF InOrder
<1>16. Frontier'
  <2>1. ASSUME NEW i \in 1..m + 1, NEW s \in DOMAIN r[i].chunks
        PROVE  r[i].chunks[s] <= offsets[s] + 1
    <3>1. CASE i = m + 1
        BY <1>2, <1>3, <1>5, <1>8, <3>1 DEF FlowInv, Frontier
    <3>2. CASE i # m + 1
      <4>1. i \in DOMAIN inflight /\ r[i] = inflight[i]
          BY <1>1, <1>7, <1>8, <3>2
      <4> QED BY <4>1 DEF FlowInv, Frontier
    <3> QED BY <3>1, <3>2
  <2>2. \A s \in Sids, c \in 1..Size : c > offsets[s] + 1 => sends[s][c] = 0
      BY DEF FlowInv, Frontier
  <2> QED BY <1>8, <1>9, <2>1, <2>2 DEF Frontier
<1>17. Trail' /\ NoHotLoop'
    BY <1>9 DEF FlowInv, Trail, NoHotLoop
<1> QED BY <1>13, <1>14, <1>15, <1>16, <1>17 DEF FlowInv

LEMMA SendInv == ASSUME FlowInv, FlowTypes', Send PROVE FlowInv'
<1>0. FlowTypes
    BY DEF FlowInv
<1>1. PICK q \in Seq(Entries) : q = inflight
    BY <1>0 DEF FlowTypes
<1>2. PICK t : t = task
    OBVIOUS
<1>3. t \in Turns /\ DOMAIN t.chunks \subseteq Sids /\ t # Nil /\ t.pc = "send"
    BY <1>0, <1>2, TaskType DEF Send
<1>4. PICK n \in Nat : n = Fresh /\ n \notin InUse
    BY <1>0, FreshNumber
<1>5. PICK p : p = [rows |-> t.rows, chunks |-> t.chunks, seqs |-> <<n>>]
    OBVIOUS
<1>6. p \in Posted /\ p.seqs = <<n>>
  <2>1. <<n>> \in Seq(Nat)
      OBVIOUS
  <2> QED BY <1>3, <1>5, <2>1 DEF Posted, Turns
<1>7. PICK a \in Seq(Replies) : a = acks
    BY <1>0 DEF FlowTypes
<1>8. PICK u \in Seq(Posted) : u = up
    BY <1>0 DEF FlowTypes
<1>9. PICK v : v = up'
    OBVIOUS
<1>10. v = Append(u, p) \/ (u # <<>> /\ v = Append(Front(u), Coalesce(Last(u), p)))
  <2>1. SubmitPacket(p)
      BY <1>2, <1>4, <1>5 DEF Send
  <2>2. CASE echo /\ Len(up) >= Depth
    <3>1. u # <<>>
      <4>1. Len(<<>>) = 0 /\ Len(u) >= Depth
          BY <1>8, <2>2
      <4> QED BY <4>1, FlowAssumption
    <3> QED BY <1>8, <1>9, <2>1, <2>2, <3>1 DEF SubmitPacket
  <2>3. CASE ~(echo /\ Len(up) >= Depth)
      BY <1>8, <1>9, <2>1, <2>3 DEF SubmitPacket
  <2> QED BY <2>2, <2>3
<1>11. PICK z : z = Len(a) + Len(v)
    OBVIOUS
<1>12. \A k \in Nat : \A x : Under(a, v, k, x) => k <= z /\ (Under(a, u, k, x) \/ (x = n /\ k = z))
  <2>1. \A k \in Nat : \A x : Under(a, v, k, x) =>
           /\ k <= Len(a) + Len(v)
           /\ Under(a, u, k, x) \/ (x = n /\ k = Len(a) + Len(v))
      BY <1>6, <1>10, PutOn
  <2> QED BY <1>11, <2>1
<1>13. \A k : ~Under(a, u, k, n)
    BY <1>4, <1>7, <1>8, UnderInUse DEF InUse
<1>14. /\ task'.pc = "note" /\ task'.seq = n /\ task'.chunks = t.chunks
       /\ acks' = a /\ up' = v
       /\ UNCHANGED <<offsets, inflight, backoff, paused, echo, stored>>
    BY <1>2, <1>3, <1>4, <1>7, <1>9 DEF Send, world, Turns
<1>15. ASSUME NEW s \in Sids, NEW c \in 1..Size
       PROVE  /\ sends[s][c] \in Nat
              /\ Holds(t, s, c) => sends'[s][c] = sends[s][c] + 1
              /\ ~Holds(t, s, c) => sends'[s][c] = sends[s][c]
  <2>1. PICK f \in [1..Size -> Nat] : f = sends[s]
      BY <1>0 DEF FlowTypes
  <2>2. sends'[s] = IF s \in DOMAIN t.chunks THEN [f EXCEPT ![t.chunks[s]] = @ + 1] ELSE f
      BY <1>2, <2>1 DEF Send
  <2> QED BY <2>1, <2>2 DEF Holds
<1>16. task' # Nil
  <2>1. task' = [t EXCEPT !.pc = "note", !.seq = n]
      BY <1>2, <1>4 DEF Send
  <2>2. task' \in Turns
      BY <1>3, <2>1 DEF Turns
  <2> QED BY <2>2, FlowAssumption
<1>17. ASSUME NEW s \in Sids, Spent(s)' PROVE Spent(s)
  <2>1. PICK c : c = offsets[s] + 1
      OBVIOUS
  <2>2. PICK m \in Nat : m = Count(q, s, c)
      BY CountType
  <2>3. PICK h : h = InHand(task', s, c)
      OBVIOUS
  <2>4. h = IF Holds(t, s, c) THEN 1 ELSE 0
      BY <1>14, <1>16, <2>3 DEF InHand, Holds
  <2>5. InHand(t, s, c) = 0
      BY <1>3 DEF InHand
  <2>6. offsets[s] < Size /\ sends'[s][c] > m + h
      BY <1>1, <1>14, <1>17, <2>1, <2>2, <2>3 DEF Spent
  <2>7. c \in 1..Size
    <3>1. offsets[s] \in 0..Size
        BY <1>0 DEF FlowTypes
    <3> QED BY <2>1, <2>6, <3>1, FlowAssumption
  <2>8. sends[s][c] > m
      BY <1>15, <2>4, <2>6, <2>7
  <2> QED BY <1>1, <1>2, <2>1, <2>2, <2>5, <2>6, <2>8 DEF Spent
<1>18. \A i \in DOMAIN inflight : inflight[i].seq # n
    BY <1>4 DEF InUse
<1>19. Resting'
    BY <1>14, <1>17 DEF FlowInv, Resting
<1>20. \A x : x # n /\ Answerable(x)' => Answerable(x)
  <2>1. ASSUME NEW x, x # n, Answerable(x)', echo PROVE \E k \in Nat : Under(a, u, k, x)
    <3>1. PICK k \in Nat : Under(a, v, k, x)
        BY <1>14, <2>1 DEF Answerable
    <3> QED BY <1>12, <2>1, <3>1
  <2> QED BY <1>7, <1>8, <2>1 DEF Answerable
<1>21. NothingOld'
  <2>1. ASSUME NEW s \in Sids, Spent(s)', NEW i \in DOMAIN inflight,
               s \in DOMAIN inflight[i].chunks, inflight[i].chunks[s] <= offsets[s]
        PROVE  ~Answerable(inflight[i].seq)'
    <3>1. PICK x : x = inflight[i].seq
        OBVIOUS
    <3>2. ~Answerable(x) /\ x # n
        BY <1>17, <1>18, <2>1, <3>1 DEF FlowInv, NothingOld
    <3>3. ~Answerable(x)'
        BY <1>20, <3>2
    <3>4. inflight'[i].seq = x
        BY <1>14, <3>1
    <3> QED BY <3>3, <3>4
  <2> QED BY <1>14, <2>1 DEF NothingOld
<1>22. \A x, y : x # n /\ y # n /\ Before(x, y) => Before(x, y)'
  <2>1. ASSUME NEW x, NEW y, x # n, y # n, Before(x, y), echo,
               NEW k \in Nat, NEW l \in Nat, Under(a, v, k, x), Under(a, v, l, y)
        PROVE  k <= l
    <3>1. Under(a, u, k, x) /\ Under(a, u, l, y)
        BY <1>12, <2>1
    <3> QED BY <1>7, <1>8, <2>1, <3>1 DEF Before
  <2> QED BY <1>14, <2>1 DEF Before
<1>23. \A x : Before(x, n)'
  <2>1. ASSUME NEW x, NEW k \in Nat, NEW l \in Nat, Under(a, v, k, x), Under(a, v, l, n)
        PROVE  k <= l
    <3>1. k <= z /\ l = z
        BY <1>12, <1>13, <2>1
    <3> QED BY <3>1
  <2> QED BY <1>14, <2>1 DEF Before
<1>24. InOrder'
  <2>1. ASSUME NEW i \in DOMAIN inflight, NEW j \in DOMAIN inflight, i < j
        PROVE  /\ inflight[i].left <= inflight[j].left
               /\ NotAhead(inflight[i].chunks, inflight[j].chunks)
               /\ Before(inflight[i].seq, inflight[j].seq)'
    <3>1. PICK x, y : x = inflight[i].seq /\ y = inflight[j].seq
        OBVIOUS
    <3>2. x # n /\ y # n /\ Before(x, y)
        BY <1>18, <2>1, <3>1 DEF FlowInv, InOrder
    <3>3. Before(x, y)'
        BY <1>22, <3>2
    <3>4. inflight'[i].seq = x /\ inflight'[j].seq = y
        BY <1>14, <3>1
    <3> QED BY <2>1, <3>3, <3>4 DEF FlowInv, InOrder
  <2>2. ASSUME NEW i \in DOMAIN inflight
        PROVE  NotAhead(inflight[i].chunks, t.chunks) /\ Before(inflight[i].seq, task.seq)'
    <3>1. PICK x : x = inflight[i].seq
        OBVIOUS
    <3>2. Before(x, n)'
        BY <1>23
    <3>3. inflight'[i].seq = x
        BY <1>14, <3>1
    <3>4. NotAhead(inflight[i].chunks, t.chunks)
        BY <1>2, <1>3 DEF FlowInv, InOrder
    <3> QED BY <1>14, <3>2, <3>3, <3>4
  <2> QED BY <1>14, <2>1, <2>2 DEF InOrder
<1>25. \A s \in DOMAIN t.chunks :
         /\ s \in Sids /\ t.chunks[s] \in 1..Size
         /\ t.chunks[s] <= offsets[s] + 1
         /\ \A c \in 1..Size : c > t.chunks[s] => sends[s][c] = 0
         /\ sends[s][t.chunks[s]] < Window
    BY <1>0, <1>2, <1>3, TaskType DEF FlowInv, Frontier
<1>26. Frontier'
  <2>1. ASSUME NEW s \in Sids, NEW c \in 1..Size, c > offsets[s] + 1 PROVE sends'[s][c] = 0
    <3>1. sends[s][c] = 0
        BY <2>1 DEF FlowInv, Frontier
    <3>2. offsets[s] \in Nat
        BY <1>0, FlowAssumption DEF FlowTypes
    <3>3. ~Holds(t, s, c)
      <4>1. CASE s \in DOMAIN t.chunks
        <5>1. PICK d \in 1..Size : d = t.chunks[s] /\ d <= offsets[s] + 1
            BY <1>25, <4>1
        <5> QED BY <2>1, <3>2, <5>1 DEF Holds
      <4> QED BY <4>1 DEF Holds
    <3> QED BY <1>15, <3>1, <3>3
  <2>2. ASSUME NEW s \in DOMAIN t.chunks, NEW c \in 1..Size, c > t.chunks[s] PROVE sends'[s][c] = 0
    <3>1. PICK d \in 1..Size : d = t.chunks[s]
        BY <1>25
    <3>2. ~Holds(t, s, c)
        BY <2>2, <3>1 DEF Holds
    <3> QED BY <1>15, <1>25, <2>2, <3>2
  <2>3. \A i \in DOMAIN inflight : \A s \in DOMAIN inflight[i].chunks :
           inflight[i].chunks[s] <= offsets[s] + 1
      BY DEF FlowInv, Frontier
  <2> QED BY <1>14, <1>25, <2>1, <2>2, <2>3 DEF Frontier
<1>27. Trail'
    BY <1>7, <1>14 DEF FlowInv, Trail
<1>28. NoHotLoop'
  <2>1. ASSUME NEW s \in Sids, NEW c \in 1..Size PROVE sends'[s][c] <= Window
    <3>1. CASE Holds(t, s, c)
      <4>1. s \in DOMAIN t.chunks /\ c = t.chunks[s]
          BY <3>1 DEF Holds
      <4>2. sends[s][c] < Window
          BY <1>25, <4>1
      <4> QED BY <1>15, <3>1, <4>2, FlowAssumption
    <3>2. CASE ~Holds(t, s, c)
        BY <1>15, <3>2 DEF FlowInv, NoHotLoop
    <3> QED BY <3>1, <3>2
  <2> QED BY <2>1 DEF NoHotLoop
<1> QED BY <1>19, <1>21, <1>24, <1>26, <1>27, <1>28 DEF FlowInv

(* What a turn of the loop does, in parts.                                  *)
LookStep(cut) ==
    /\ task = Nil
    /\ cut \subseteq Sids
    /\ \A s \in cut : WindowOpen /\ s \notin Skipped /\ offsets[s] < Size
    /\ inflight' = Kept(inflight, Live) /\ backoff' = Expired
    /\ \A s \in Sids : paused'[s] = Nil <=> paused[s] = Nil
    /\ \/ task' = Nil
       \/ task'.pc = "send" /\ task'.chunks = [s \in cut |-> offsets[s] + 1]
    /\ UNCHANGED <<offsets, up, acks, world, sends>>

LEMMA LookParts ==
    ASSUME FlowTypes, Look
    PROVE  \E cut : LookStep(cut)
<1>1. PICK due : due = {s \in Sids : paused[s] # Nil /\ paused[s].until = 0}
    OBVIOUS
<1>2. PICK cut : cut = IF WindowOpen THEN {s \in Sids \ Skipped : offsets[s] < Size} ELSE {}
    OBVIOUS
<1>3. PICK rows : rows = cut \cup (Sids \ (offered \ due))
    OBVIOUS
<1>4. PICK probed : probed = [s \in Sids |-> IF s \in due
                      THEN [paused[s] EXCEPT !.until = PauseTicks(paused[s].failures)]
                      ELSE paused[s]]
    OBVIOUS
<1>5. /\ task = Nil /\ inflight' = Kept(inflight, Live) /\ backoff' = Expired /\ paused' = probed
      /\ \/ task' = Nil
         \/ task' = [pc |-> "send", rows |-> rows, seq |-> 0, chunks |-> [s \in cut |-> offsets[s] + 1]]
      /\ UNCHANGED <<offsets, up, acks, world, sends>>
    BY <1>1, <1>2, <1>3, <1>4 DEF Look
<1>6. ASSUME NEW s \in Sids PROVE probed[s] = Nil <=> paused[s] = Nil
  <2>1. CASE s \in due
    <3>1. paused[s] \in Pauses
        BY <1>1, <2>1 DEF FlowTypes
    <3>2. PICK n \in Nat \ {0} : n = paused[s].failures
        BY <3>1 DEF Pauses
    <3>3. PauseTicks(n) \in Nat
        BY PauseTicksType
    <3>4. [paused[s] EXCEPT !.until = PauseTicks(paused[s].failures)] \in Pauses
        BY <3>1, <3>2, <3>3 DEF Pauses
    <3>5. probed[s] \in Pauses
        BY <1>4, <2>1, <3>4
    <3> QED BY <3>1, <3>5, FlowAssumption
  <2>2. CASE s \notin due
      BY <1>4, <2>2
  <2> QED BY <2>1, <2>2
<1>7. \A s \in cut : WindowOpen /\ s \notin Skipped /\ offsets[s] < Size /\ s \in Sids
    BY <1>2
<1> QED BY <1>5, <1>6, <1>7 DEF LookStep

(* A session rests after its packet was given up, and still does when it    *)
(* rested before.                                                           *)
LEMMA ExpiredRests ==
    ASSUME FlowTypes, NEW s \in Sids,
           \/ backoff[s].until > 0
           \/ \E i \in DOMAIN inflight \ Live : s \in DOMAIN inflight[i].chunks
    PROVE  Expired[s].until > 0
<1>1. PICK q \in Seq(Entries) : q = inflight
    BY DEF FlowTypes
<1>2. PICK b \in [Sids -> Delays] : b = backoff
    BY DEF FlowTypes
<1>3. PICK D : D = DOMAIN inflight \ Live
    OBVIOUS
<1>4. DOMAIN q = 1..Len(q)
    BY LenProperties
<1>5. \A p : ~Done(Silence, p, s)
    BY DEF Done, Silence
<1>6. s \in Sids \ Silence.rejected
    BY DEF Silence
<1>7. \/ b[s].until > 0 /\ \A i \in D \cap 1..Len(q) : ~Done(Silence, q[i], s)
      \/ \E i \in D \cap 1..Len(q) :
            /\ Stuck(Silence, q[i], s)
            /\ \A j \in D \cap 1..Len(q) : i < j => ~Done(Silence, q[j], s)
  <2>1. CASE backoff[s].until > 0
      BY <1>2, <1>5, <2>1
  <2>2. CASE \E i \in DOMAIN inflight \ Live : s \in DOMAIN inflight[i].chunks
      BY <1>1, <1>3, <1>4, <1>5, <2>2 DEF Stuck
  <2> QED BY <2>1, <2>2
<1>8. Answered(Silence, b, q, D)[s].until > 0
    BY <1>6, <1>7, AnsweredRests
<1> QED BY <1>1, <1>2, <1>3, <1>8 DEF Expired

LEMMA LookInv == ASSUME FlowInv, FlowTypes', Look PROVE FlowInv'
<1>0. FlowTypes
    BY DEF FlowInv
<1>1. PICK q \in Seq(Entries) : q = inflight
    BY <1>0 DEF FlowTypes
<1>2. PICK cut : LookStep(cut)
    BY <1>0, LookParts
<1>3. PICK r : r = Kept(q, Live)
    OBVIOUS
<1>4. PICK h : Thinned(q, r, Live, h)
    BY <1>3, KeptThinned
<1>5. /\ inflight' = r /\ task = Nil
      /\ UNCHANGED <<offsets, up, acks, echo, stored, sends>>
      /\ backoff' = Expired
    BY <1>1, <1>2, <1>3 DEF LookStep, world
<1>6. \A i \in DOMAIN inflight : inflight[i].left \in Nat /\ (i \notin Live <=> inflight[i].left = 0)
  <2>1. ASSUME NEW i \in DOMAIN inflight
        PROVE  inflight[i].left \in Nat /\ (i \notin Live <=> inflight[i].left = 0)
    <3>1. inflight[i].left \in 0..Timeout
        BY <1>0, InFlightType
    <3> QED BY <3>1, FlowAssumption DEF Live
  <2> QED BY <2>1
<1>7. \A s, c : InHand(task', s, c) = 0 /\ InHand(task, s, c) = 0
    BY <1>2 DEF LookStep, InHand
<1>8. \A j \in DOMAIN r : h[j] \in DOMAIN inflight /\ h[j] \in Live /\ r[j] = inflight[h[j]]
    BY <1>1, <1>4 DEF Thinned
<1>9. ASSUME NEW s \in Sids, Spent(s)'
      PROVE  \/ Spent(s)
             \/ \E i \in DOMAIN inflight \ Live : Holds(inflight[i], s, offsets[s] + 1)
  <2>1. PICK c : c = offsets[s] + 1
      OBVIOUS
  <2>2. PICK m \in Nat : m = Count(q, s, c)
      BY CountType
  <2>3. PICK k \in Nat : k = Count(r, s, c)
    <3>1. r \in Seq(Entries)
        BY <1>4 DEF Thinned
    <3> QED BY <3>1, CountType
  <2>4. offsets[s] < Size /\ sends[s][c] > k + 0
      BY <1>5, <1>7, <1>9, <2>1, <2>3 DEF Spent
  <2>5. CASE Holders(q, s, c) \subseteq Live
    <3>1. m <= k
        BY <1>4, <2>2, <2>3, <2>5 DEF Thinned
    <3>2. c \in 1..Size
      <4>1. offsets[s] \in 0..Size
          BY <1>0 DEF FlowTypes
      <4> QED BY <2>1, <2>4, <4>1, FlowAssumption
    <3>3. sends[s][c] \in Nat
        BY <1>0, <3>2, SendsType
    <3>4. sends[s][c] > m + 0
        BY <2>4, <3>1, <3>3
    <3> QED BY <1>1, <1>7, <2>1, <2>2, <2>4, <3>4 DEF Spent
  <2>6. CASE ~(Holders(q, s, c) \subseteq Live)
      BY <1>1, <2>1, <2>6 DEF Holders
  <2> QED BY <2>5, <2>6
<1>10. Resting'
  <2>1. ASSUME NEW s \in Sids, Spent(s)' PROVE paused'[s] # Nil \/ backoff'[s].until > 0
    <3>1. CASE Spent(s)
      <4>1. paused[s] # Nil \/ backoff[s].until > 0
          BY <3>1 DEF FlowInv, Resting
      <4>2. backoff[s].until > 0 => Expired[s].until > 0
          BY <1>0, ExpiredRests
      <4> QED BY <1>2, <1>5, <4>1, <4>2 DEF LookStep
    <3>2. CASE \E i \in DOMAIN inflight \ Live : Holds(inflight[i], s, offsets[s] + 1)
      <4>1. Expired[s].until > 0
          BY <1>0, <3>2, ExpiredRests DEF Holds
      <4> QED BY <1>5, <4>1
    <3> QED BY <1>9, <2>1, <3>1, <3>2
  <2> QED BY <2>1 DEF Resting
<1>11. \A n : Answerable(n)' <=> Answerable(n)
    BY <1>5 DEF Answerable
<1>12. NothingOld'
  <2>1. ASSUME NEW s \in Sids, Spent(s)', NEW j \in DOMAIN r,
               s \in DOMAIN r[j].chunks, r[j].chunks[s] <= offsets[s]
        PROVE  ~Answerable(r[j].seq)
    <3>1. PICK i \in DOMAIN inflight : i = h[j] /\ i \in Live /\ r[j] = inflight[i]
        BY <1>8
    <3>2. CASE Spent(s)
        BY <2>1, <3>1, <3>2 DEF FlowInv, NothingOld
    <3>3. ASSUME NEW l \in DOMAIN inflight \ Live, Holds(inflight[l], s, offsets[s] + 1)
          PROVE  FALSE
      <4>1. inflight[l].left = 0 /\ inflight[i].left \in Nat /\ inflight[i].left # 0
          BY <1>6, <3>1
      <4>2. s \in DOMAIN inflight[l].chunks /\ inflight[l].chunks[s] = offsets[s] + 1
          BY <3>3 DEF Holds
      <4>3. l \in Nat /\ i \in Nat
        <5>1. DOMAIN q = 1..Len(q)
            BY LenProperties
        <5> QED BY <1>1, <5>1
      <4>4. CASE l < i
        <5>1. inflight[l].chunks[s] <= inflight[i].chunks[s]
          <6>1. NotAhead(inflight[l].chunks, inflight[i].chunks)
              BY <4>4 DEF FlowInv, InOrder
          <6> QED BY <2>1, <3>1, <4>2, <6>1 DEF NotAhead
        <5>2. PICK x \in 1..Size : x = inflight[i].chunks[s]
            BY <1>0, <2>1, <3>1, InFlightType
        <5>3. offsets[s] \in Nat
            BY <1>0, FlowAssumption DEF FlowTypes
        <5>4. x <= offsets[s] /\ offsets[s] + 1 <= x
            BY <2>1, <3>1, <4>2, <5>1, <5>2
        <5> QED BY <5>2, <5>3, <5>4
      <4>5. CASE i < l
        <5>1. inflight[i].left <= inflight[l].left
            BY <4>5 DEF FlowInv, InOrder
        <5> QED BY <4>1, <5>1
      <4>6. l # i
          BY <3>1
      <4> QED BY <4>3, <4>4, <4>5, <4>6
    <3> QED BY <1>9, <2>1, <3>2, <3>3
  <2>2. ASSUME NEW s \in Sids, Spent(s)', NEW j \in DOMAIN inflight',
               s \in DOMAIN inflight'[j].chunks, inflight'[j].chunks[s] <= offsets'[s]
        PROVE  ~Answerable(inflight[j].seq)'
    <3>1. PICK n : n = r[j].seq
        OBVIOUS
    <3>2. ~Answerable(n)
        BY <1>5, <2>1, <2>2, <3>1
    <3>3. ~Answerable(n)'
        BY <1>11, <3>2
    <3>4. inflight'[j].seq = n
        BY <1>5, <3>1
    <3> QED BY <3>3, <3>4
  <2> QED BY <2>2 DEF NothingOld
<1>13. \A m, n : Before(m, n) => Before(m, n)'
    BY <1>5 DEF Before
<1>14. InOrder'
  <2>1. ASSUME NEW i \in DOMAIN inflight', NEW j \in DOMAIN inflight', i < j
        PROVE  /\ inflight'[i].left <= inflight'[j].left
               /\ NotAhead(inflight'[i].chunks, inflight'[j].chunks)
               /\ Before(inflight[i].seq, inflight[j].seq)'
    <3>1. PICK k, l : k = h[i] /\ l = h[j]
        OBVIOUS
    <3>2. /\ k \in DOMAIN inflight /\ l \in DOMAIN inflight
          /\ inflight'[i] = inflight[k] /\ inflight'[j] = inflight[l]
        BY <1>5, <1>8, <3>1
    <3>3. k < l
        BY <1>4, <1>5, <2>1, <3>1 DEF Thinned
    <3>4. PICK x, y : x = inflight[k].seq /\ y = inflight[l].seq
        OBVIOUS
    <3>5. /\ inflight[k].left <= inflight[l].left
          /\ NotAhead(inflight[k].chunks, inflight[l].chunks)
          /\ Before(x, y)
        BY <3>2, <3>3, <3>4 DEF FlowInv, InOrder
    <3>6. Before(x, y)'
        BY <1>13, <3>5
    <3> QED BY <3>2, <3>4, <3>5, <3>6
  <2>2. ASSUME task' # Nil, NEW i \in DOMAIN inflight'
        PROVE  NotAhead(inflight'[i].chunks, task'.chunks) /\ task'.pc = "send"
    <3>1. task'.pc = "send" /\ task'.chunks = [s \in cut |-> offsets[s] + 1]
        BY <1>2, <2>2 DEF LookStep
    <3>2. PICK k : k \in DOMAIN inflight /\ inflight'[i] = inflight[k]
        BY <1>5, <1>8
    <3>3. \A s \in DOMAIN inflight[k].chunks : inflight[k].chunks[s] <= offsets[s] + 1
        BY <3>2 DEF FlowInv, Frontier
    <3> QED BY <3>1, <3>2, <3>3 DEF NotAhead
  <2> QED BY <2>1, <2>2 DEF InOrder
<1>15. ASSUME NEW s \in cut PROVE sends[s][offsets[s] + 1] < Window
  <2>1. s \in Sids /\ WindowOpen /\ paused[s] = Nil /\ ~(Expired[s].until > 0) /\ offsets[s] < Size
      BY <1>2 DEF LookStep, Skipped
  <2>2. PICK c : c = offsets[s] + 1
      OBVIOUS
  <2>3. c \in 1..Size
    <3>1. offsets[s] \in 0..Size
        BY <1>0, <2>1 DEF FlowTypes
    <3> QED BY <2>1, <2>2, <3>1, FlowAssumption
  <2>4. ~Spent(s)
    <3>1. ~(backoff[s].until > 0)
        BY <1>0, <2>1, ExpiredRests
    <3> QED BY <2>1, <3>1 DEF FlowInv, Resting
  <2>5. PICK m \in Nat : m = Count(q, s, c)
      BY CountType
  <2>6. sends[s][c] <= m
    <3>1. ~(sends[s][c] > m + 0)
        BY <1>1, <1>7, <2>1, <2>2, <2>4, <2>5 DEF Spent
    <3>2. sends[s][c] \in Nat
        BY <1>0, <2>1, <2>3, SendsType
    <3> QED BY <3>1, <3>2
  <2>7. PICK P : P = Holders(q, s, c)
      OBVIOUS
  <2>8. PICK L : L = {i \in Live : DOMAIN inflight[i].chunks # {}}
      OBVIOUS
  <2>9. P \subseteq L
    <3>1. ASSUME NEW i \in P PROVE i \in L
      <4>1. i \in DOMAIN inflight /\ s \in DOMAIN inflight[i].chunks
          BY <1>1, <2>7 DEF Holders, Holds
      <4>2. i \in Live
          BY <1>0, <2>1, <4>1, ExpiredRests
      <4> QED BY <2>8, <4>1, <4>2
    <3> QED BY <3>1
  <2>10. IsFiniteSet(L)
    <3>1. PICK k \in Nat : DOMAIN inflight = 1..k
        BY <1>1, LenProperties
    <3>2. L \subseteq 1..k /\ IsFiniteSet(1..k)
        BY <2>8, <3>1, FS_Interval DEF Live
    <3> QED BY <3>2, FS_Subset
  <2>11. Cardinality(P) <= Cardinality(L) /\ Cardinality(L) \in Nat /\ Cardinality(P) = m
      BY <2>5, <2>7, <2>9, <2>10, FS_Subset, FS_CardinalityType DEF Count
  <2>12. Cardinality(L) < Window
      BY <2>1, <2>8 DEF WindowOpen
  <2>13. sends[s][c] \in Nat
      BY <1>0, <2>1, <2>3, SendsType
  <2> QED BY <2>2, <2>6, <2>11, <2>12, <2>13, FlowAssumption
<1>16. Frontier'
  <2>1. \A s \in Sids, c \in 1..Size : c > offsets[s] + 1 => sends[s][c] = 0
      BY DEF FlowInv, Frontier
  <2>2. ASSUME NEW i \in DOMAIN r, NEW s \in DOMAIN r[i].chunks
        PROVE  r[i].chunks[s] <= offsets[s] + 1
      BY <1>8 DEF FlowInv, Frontier
  <2>3. ASSUME task' # Nil, NEW s \in DOMAIN task'.chunks
        PROVE  /\ task'.chunks[s] <= offsets[s] + 1
               /\ \A c \in 1..Size : c > task'.chunks[s] => sends[s][c] = 0
               /\ sends[s][task'.chunks[s]] < Window
    <3>1. task'.chunks = [x \in cut |-> offsets[x] + 1]
        BY <1>2, <2>3 DEF LookStep
    <3>2. s \in cut /\ s \in Sids /\ task'.chunks[s] = offsets[s] + 1
        BY <1>2, <2>3, <3>1 DEF LookStep
    <3>3. offsets[s] \in Nat
        BY <1>0, <3>2, FlowAssumption DEF FlowTypes
    <3> QED BY <1>15, <2>1, <3>2, <3>3
  <2> QED BY <1>5, <2>1, <2>2, <2>3 DEF Frontier
<1>17. Trail' /\ NoHotLoop'
    BY <1>5 DEF FlowInv, Trail, NoHotLoop
<1> QED BY <1>10, <1>12, <1>14, <1>16, <1>17 DEF FlowInv

(* What is answered next was answered no later than the rest, and the       *)
(* offsets only grow.                                                       *)
LEMMA AckTrail ==
    ASSUME FlowInv, NEW a, a = Head(acks), acks # <<>>, AckStep(a)
    PROVE  /\ Trail'
           /\ \A s \in Sids : offsets[s] <= offsets'[s]
<1>0. FlowTypes /\ Trail
    BY DEF FlowInv
<1>1. PICK b \in Seq(Replies) : b = acks /\ b # <<>>
    BY <1>0 DEF FlowTypes
<1>2. PICK l \in Nat : l = Len(b) /\ DOMAIN b = 1..l /\ l >= 1
    BY <1>1, NotEmpty
<1>3. PICK d : d = Tail(b)
    OBVIOUS
<1>4. DOMAIN d = 1..l - 1 /\ \A k \in 1..l - 1 : d[k] = b[k + 1]
  <2>1. d \in Seq(Replies) /\ Len(d) = l - 1 /\ \A i \in 1..Len(d) : d[i] = b[i + 1]
      BY <1>1, <1>2, <1>3, HeadTailProperties
  <2> QED BY <2>1, LenProperties
<1>5. a = b[1] /\ 1 \in DOMAIN acks
    BY <1>1, <1>2, HeadTailProperties
<1>6. acks' = d /\ UNCHANGED stored
    BY <1>1, <1>3 DEF AckStep, world
<1>7. ASSUME NEW s \in Sids
      PROVE  /\ offsets[s] \in Nat /\ offsets'[s] \in Nat /\ stored[s] \in Nat
             /\ offsets[s] <= offsets'[s] /\ offsets'[s] <= stored[s]
  <2>1. offsets[s] \in Nat /\ stored[s] \in Nat /\ offsets[s] <= stored[s]
      BY <1>0, FlowAssumption DEF FlowTypes, Trail
  <2>2. CASE s \in DOMAIN a.offsets
    <3>1. offsets'[s] = a.offsets[s] /\ a.offsets[s] \in 0..Size
        BY <2>2 DEF AckStep
    <3>2. offsets[s] <= a.offsets[s] /\ a.offsets[s] <= stored[s]
        BY <1>0, <1>1, <1>5, <2>2 DEF Trail
    <3> QED BY <2>1, <3>1, <3>2, FlowAssumption
  <2>3. CASE s \notin DOMAIN a.offsets
    <3>1. offsets'[s] = offsets[s]
        BY <2>3 DEF AckStep
    <3> QED BY <2>1, <3>1
  <2> QED BY <2>2, <2>3
<1>8. ASSUME NEW k \in 1..l - 1, NEW s \in DOMAIN d[k].offsets
      PROVE  offsets'[s] <= d[k].offsets[s] /\ d[k].offsets[s] <= stored[s]
  <2>1. k + 1 \in DOMAIN acks /\ d[k] = acks[k + 1]
      BY <1>1, <1>2, <1>4
  <2>2. offsets[s] <= d[k].offsets[s] /\ d[k].offsets[s] <= stored[s]
      BY <1>0, <1>8, <2>1 DEF Trail
  <2>3. s \in Sids
    <3>1. d[k] \in Replies
        BY <1>1, <1>2, <2>1, ElementOfSeq
    <3>2. d[k].offsets \in Extents
        BY <3>1 DEF Replies
    <3> QED BY <1>8, <3>2, PartsOfSessions
  <2>4. CASE s \in DOMAIN a.offsets
    <3>1. offsets'[s] = a.offsets[s]
        BY <2>3, <2>4 DEF AckStep
    <3>2. NotAhead(acks[1].offsets, acks[k + 1].offsets)
      <4>1. 1 < k + 1 /\ 1 \in DOMAIN acks
          BY <1>5
      <4> QED BY <1>0, <2>1, <4>1 DEF Trail
    <3>3. a.offsets[s] <= d[k].offsets[s]
        BY <1>1, <1>5, <1>8, <2>1, <2>4, <3>2 DEF NotAhead
    <3> QED BY <2>2, <3>1, <3>3
  <2>5. CASE s \notin DOMAIN a.offsets
    <3>1. offsets'[s] = offsets[s]
        BY <2>3, <2>5 DEF AckStep
    <3> QED BY <2>2, <3>1
  <2> QED BY <2>4, <2>5
<1>9. ASSUME NEW k \in 1..l - 1, NEW m \in 1..l - 1, k < m
      PROVE  NotAhead(d[k].offsets, d[m].offsets)
  <2>1. /\ k + 1 \in DOMAIN acks /\ d[k] = acks[k + 1]
        /\ m + 1 \in DOMAIN acks /\ d[m] = acks[m + 1] /\ k + 1 < m + 1
      BY <1>1, <1>2, <1>4, <1>9
  <2> QED BY <1>0, <2>1 DEF Trail
<1> QED BY <1>4, <1>6, <1>7, <1>8, <1>9 DEF Trail

LEMMA OnAckInv == ASSUME FlowInv, FlowTypes', OnAck PROVE FlowInv'
<1>0. FlowTypes
    BY DEF FlowInv
<1>1. PICK a : a = Head(acks) /\ acks # <<>> /\ AckStep(a)
    BY <1>0, OnAckParts
<1>2. PICK q \in Seq(Entries) : q = inflight
    BY <1>0 DEF FlowTypes
<1>3. PICK M : M = Meant(a)
    OBVIOUS
<1>4. PICK I : I = DOMAIN inflight \ M
    OBVIOUS
<1>5. PICK r : r = Kept(q, I)
    OBVIOUS
<1>6. PICK h : Thinned(q, r, I, h)
    BY <1>5, KeptThinned
<1>7. PICK b : b = Rested(a)
    OBVIOUS
<1>8. /\ inflight' = r /\ backoff' = Answered(a, b, q, M) /\ b \in [Sids -> Delays]
      /\ UNCHANGED <<task, up, echo, stored>>
    BY <1>1, <1>2, <1>3, <1>4, <1>5, <1>7 DEF AckStep, world
<1>9. \A j \in DOMAIN r : h[j] \in DOMAIN inflight /\ h[j] \notin M /\ r[j] = inflight[h[j]]
    BY <1>2, <1>4, <1>6 DEF Thinned
<1>10. Trail' /\ \A s \in Sids : offsets[s] <= offsets'[s]
    BY <1>1, AckTrail
<1>11. \A s \in Sids : offsets[s] \in Nat /\ offsets'[s] \in Nat
    BY <1>0, FlowAssumption DEF FlowTypes
<1>12. ASSUME NEW s \in Sids
       PROVE  \/ sends'[s] = sends[s] /\ ~(paused[s] # Nil /\ paused'[s] = Nil)
              \/ \A c \in 1..Size : sends'[s][c] = 0
    BY <1>1 DEF AckStep, Unsent
<1>13. DOMAIN inflight = 1..Len(q) /\ DOMAIN inflight \subseteq Nat /\ M \subseteq DOMAIN inflight
  <2>1. DOMAIN q = 1..Len(q)
      BY LenProperties
  <2> QED BY <1>2, <1>3, <2>1 DEF Meant
(* A session that is spent afterwards was, or has just been told of a       *)
(* packet with its next chunk.                                              *)
<1>14. ASSUME NEW s \in Sids, Spent(s)'
       PROVE  /\ sends'[s] = sends[s] /\ ~(paused[s] # Nil /\ paused'[s] = Nil)
              /\ offsets'[s] = offsets[s]
              /\ Spent(s) \/ \E i \in M : Holds(inflight[i], s, offsets[s] + 1)
  <2>1. PICK c : c = offsets'[s] + 1
      OBVIOUS
  <2>2. PICK k \in Nat : k = Count(r, s, c)
    <3>1. r \in Seq(Entries)
        BY <1>6 DEF Thinned
    <3> QED BY <3>1, CountType
  <2>3. PICK t : t = InHand(task, s, c)
      OBVIOUS
  <2>4. t = 0 \/ t = 1
      BY <2>3 DEF InHand
  <2>5. offsets'[s] < Size /\ sends'[s][c] > k + t
      BY <1>8, <1>14, <2>1, <2>2, <2>3 DEF Spent
  <2>6. c \in 1..Size
    <3>1. offsets'[s] \in 0..Size
        BY DEF FlowTypes
    <3> QED BY <2>1, <2>5, <3>1, FlowAssumption
  <2>7. sends'[s] = sends[s] /\ ~(paused[s] # Nil /\ paused'[s] = Nil)
    <3>1. sends'[s][c] # 0
        BY <2>4, <2>5
    <3> QED BY <1>12, <2>6, <3>1
  <2>8. offsets'[s] = offsets[s]
    <3>1. c > offsets[s] + 1 => sends[s][c] = 0
        BY <2>6 DEF FlowInv, Frontier
    <3>2. sends[s][c] # 0
        BY <2>4, <2>5, <2>7
    <3> QED BY <1>10, <1>11, <2>1, <3>1, <3>2
  <2>9. CASE Holders(q, s, c) \subseteq I
    <3>1. PICK m \in Nat : m = Count(q, s, c)
        BY CountType
    <3>2. m <= k
        BY <1>6, <2>2, <2>9, <3>1 DEF Thinned
    <3>3. sends[s][c] \in Nat
        BY <1>0, <2>6, SendsType
    <3>4. sends[s][c] > m + t
        BY <2>4, <2>5, <2>7, <3>2, <3>3
    <3>5. Spent(s)
        BY <1>2, <2>1, <2>3, <2>5, <2>8, <3>1, <3>4 DEF Spent
    <3> QED BY <2>7, <2>8, <3>5
  <2>10. CASE ~(Holders(q, s, c) \subseteq I)
    <3>1. \E i \in M : Holds(inflight[i], s, offsets[s] + 1)
        BY <1>2, <1>4, <2>1, <2>8, <2>10 DEF Holders
    <3> QED BY <2>7, <2>8, <3>1
  <2> QED BY <2>9, <2>10
<1>15. ASSUME NEW s \in Sids, offsets'[s] = offsets[s], NEW p, Done(a, p, s)
       PROVE  s \in DOMAIN p.chunks /\ p.chunks[s] <= offsets[s]
  <2>1. s \in DOMAIN a.offsets /\ s \in DOMAIN p.chunks /\ a.offsets[s] >= p.chunks[s]
      BY <1>15 DEF Done
  <2>2. a.offsets[s] = offsets[s]
      BY <1>1, <1>15, <2>1 DEF AckStep
  <2> QED BY <2>1, <2>2
<1>16. \A i \in M : Answerable(inflight[i].seq)
  <2>1. ASSUME NEW i \in M, echo PROVE \E k \in Nat : Under(acks, up, k, inflight[i].seq)
    <3>1. inflight[i].seq \in ToSet(Head(acks).seqs)
        BY <1>1, <1>3, <2>1 DEF Meant
    <3>2. PICK x \in Seq(Replies) : x = acks
        BY <1>0 DEF FlowTypes
    <3>3. PICK u \in Seq(Posted) : u = up
        BY <1>0 DEF FlowTypes
    <3>4. Under(x, u, 1, inflight[i].seq)
        BY <1>1, <3>1, <3>2, <3>3, TakenOff
    <3> QED BY <3>2, <3>3, <3>4
  <2> QED BY <2>1 DEF Answerable
<1>17. ASSUME NEW k \in Nat, NEW n, Under(acks, up, k, n)'
       PROVE  k >= 1 /\ Under(acks, up, k + 1, n)
  <2>1. PICK x \in Seq(Replies) : x = acks
      BY <1>0 DEF FlowTypes
  <2>2. PICK u \in Seq(Posted) : u = up
      BY <1>0 DEF FlowTypes
  <2>3. acks' = Tail(x) /\ up' = u
      BY <1>1, <1>8, <2>1, <2>2 DEF AckStep
  <2>4. Under(Tail(x), u, k, n)
      BY <1>17, <2>3
  <2>5. k >= 1 /\ Under(x, u, k + 1, n)
      BY <1>1, <2>1, <2>4, TakenOff
  <2> QED BY <2>1, <2>2, <2>5
<1>18. Resting'
  <2>1. ASSUME NEW s \in Sids, Spent(s)' PROVE paused'[s] # Nil \/ backoff'[s].until > 0
    <3>1. CASE s \in a.rejected
      <4>1. paused'[s] = Pause(paused[s])
          BY <1>1, <3>1 DEF AckStep, PauseAfter
      <4>2. PICK p \in Pauses \cup {Nil} : p = paused[s]
          BY <1>0 DEF FlowTypes
      <4>3. Pause(p) \in Pauses
          BY PauseType
      <4> QED BY <4>1, <4>2, <4>3, FlowAssumption
    <3>2. CASE s \notin a.rejected
      <4>1. b[s] = backoff[s]
          BY <1>7, <3>2 DEF Rested
      <4>2. M \cap 1..Len(q) = M
          BY <1>13
      <4>3. CASE Spent(s)
        <5>1. \A i \in M : ~Done(a, q[i], s)
            BY <1>2, <1>13, <1>14, <1>15, <1>16, <2>1, <4>3 DEF FlowInv, NothingOld
        <5>2. paused[s] # Nil \/ backoff[s].until > 0
            BY <4>3 DEF FlowInv, Resting
        <5>3. CASE backoff[s].until > 0
          <6>1. b[s].until > 0 /\ \A i \in M \cap 1..Len(q) : ~Done(a, q[i], s)
              BY <4>1, <4>2, <5>1, <5>3
          <6>2. Answered(a, b, q, M)[s].until > 0
              BY <1>8, <3>2, <6>1, AnsweredRests
          <6> QED BY <1>8, <6>2
        <5>4. CASE paused[s] # Nil
            BY <1>14, <2>1, <5>4
        <5> QED BY <5>2, <5>3, <5>4
      <4>4. ASSUME NEW i \in M, Holds(inflight[i], s, offsets[s] + 1)
            PROVE  backoff'[s].until > 0
        <5>1. s \in DOMAIN q[i].chunks /\ q[i].chunks[s] = offsets[s] + 1
            BY <1>2, <4>4 DEF Holds
        <5>2. ~Done(a, q[i], s)
            BY <1>11, <1>14, <1>15, <2>1, <5>1
        <5>3. ASSUME NEW j \in M, i < j, Done(a, q[j], s) PROVE FALSE
          <6>1. s \in DOMAIN q[j].chunks /\ q[j].chunks[s] <= offsets[s]
              BY <1>14, <1>15, <2>1, <5>3
          <6>2. NotAhead(q[i].chunks, q[j].chunks)
              BY <1>2, <1>13, <5>3 DEF FlowInv, InOrder
          <6>3. q[i].chunks[s] <= q[j].chunks[s]
              BY <5>1, <6>1, <6>2 DEF NotAhead
          <6>4. PICK x \in 1..Size : x = q[j].chunks[s]
              BY <1>0, <1>2, <1>13, <6>1, InFlightType
          <6>5. x <= offsets[s] /\ offsets[s] + 1 <= x
              BY <5>1, <6>1, <6>3, <6>4
          <6> QED BY <1>11, <6>4, <6>5
        <5>4. Stuck(a, q[i], s)
            BY <5>1, <5>2 DEF Stuck
        <5>5. \E k \in M \cap 1..Len(q) :
                 Stuck(a, q[k], s) /\ \A j \in M \cap 1..Len(q) : k < j => ~Done(a, q[j], s)
            BY <4>2, <5>3, <5>4
        <5>6. Answered(a, b, q, M)[s].until > 0
            BY <1>8, <3>2, <5>5, AnsweredRests
        <5> QED BY <1>8, <5>6
      <4> QED BY <1>14, <2>1, <4>3, <4>4
    <3> QED BY <3>1, <3>2
  <2> QED BY <2>1 DEF Resting
<1>19. NothingOld'
  <2>1. ASSUME NEW s \in Sids, Spent(s)', NEW j \in DOMAIN inflight',
               s \in DOMAIN inflight'[j].chunks, inflight'[j].chunks[s] <= offsets'[s]
        PROVE  ~Answerable(inflight[j].seq)'
    <3>1. PICK l \in DOMAIN inflight : l = h[j] /\ l \notin M /\ inflight'[j] = inflight[l]
        BY <1>8, <1>9
    <3>2. PICK n : n = inflight[l].seq /\ n = inflight'[j].seq
        BY <3>1
    <3>3. s \in DOMAIN inflight[l].chunks /\ inflight[l].chunks[s] <= offsets[s]
        BY <1>14, <2>1, <3>1
    <3>4. SUFFICES ASSUME Answerable(n)' PROVE FALSE
        BY <3>2
    <3>5. echo => \E k \in Nat : Under(acks, up, k, n)'
        BY <1>8, <3>4 DEF Answerable
    <3>6. CASE Spent(s)
      <4>1. ~Answerable(n)
          BY <3>2, <3>3, <3>6 DEF FlowInv, NothingOld
      <4>2. echo /\ \A k \in Nat : ~Under(acks, up, k, n)
          BY <4>1 DEF Answerable
      <4>3. PICK k \in Nat : Under(acks, up, k, n)'
          BY <3>5, <4>2
      <4>4. Under(acks, up, k + 1, n) /\ k + 1 \in Nat
          BY <1>17, <4>3
      <4> QED BY <4>2, <4>4
    <3>7. ASSUME NEW i \in M, Holds(inflight[i], s, offsets[s] + 1) PROVE FALSE
      <4>1. s \in DOMAIN inflight[i].chunks /\ inflight[i].chunks[s] = offsets[s] + 1
          BY <3>7 DEF Holds
      <4>2. PICK x \in 1..Size : x = inflight[l].chunks[s] /\ x <= offsets[s]
          BY <1>0, <3>3, InFlightType
      <4>3. i \in DOMAIN inflight /\ i \in Nat /\ l \in Nat /\ i # l
          BY <1>13, <3>1, <3>7
      <4>4. ~(i < l)
        <5>1. SUFFICES ASSUME i < l PROVE FALSE
            OBVIOUS
        <5>2. NotAhead(inflight[i].chunks, inflight[l].chunks)
            BY <4>3, <5>1 DEF FlowInv, InOrder
        <5>3. offsets[s] + 1 <= x
            BY <3>3, <4>1, <4>2, <5>2 DEF NotAhead
        <5> QED BY <1>11, <4>2, <5>3
      <4>5. l < i
          BY <4>3, <4>4
      <4>6. CASE echo
        <5>1. PICK y : y = inflight[i].seq
            OBVIOUS
        <5>2. y \in ToSet(Head(acks).seqs)
            BY <1>1, <1>3, <3>7, <4>6, <5>1 DEF Meant
        <5>3. Under(acks, up, 1, y)
          <6>1. PICK z \in Seq(Replies) : z = acks
              BY <1>0 DEF FlowTypes
          <6>2. PICK u \in Seq(Posted) : u = up
              BY <1>0 DEF FlowTypes
          <6>3. Under(z, u, 1, y)
              BY <1>1, <5>2, <6>1, TakenOff
          <6> QED BY <6>1, <6>2, <6>3
        <5>4. PICK k \in Nat : Under(acks, up, k, n)'
            BY <3>5, <4>6
        <5>5. k >= 1 /\ Under(acks, up, k + 1, n) /\ k + 1 \in Nat /\ 1 \in Nat
            BY <1>17, <5>4
        <5>6. Before(n, y)
            BY <3>2, <4>3, <4>5, <5>1 DEF FlowInv, InOrder
        <5>7. k + 1 <= 1
            BY <4>6, <5>3, <5>5, <5>6 DEF Before
        <5> QED BY <5>5, <5>7
      <4>7. CASE ~echo
        <5>1. i = 1
            BY <1>3, <3>7, <4>7 DEF Meant
        <5>2. l >= 1
            BY <1>13
        <5> QED BY <4>3, <4>5, <5>1, <5>2
      <4> QED BY <4>6, <4>7
    <3> QED BY <1>14, <2>1, <3>6, <3>7
  <2> QED BY <2>1 DEF NothingOld
<1>20. ASSUME NEW x, NEW y, Before(x, y) PROVE Before(x, y)'
  <2>1. ASSUME echo, NEW k \in Nat, NEW l \in Nat, Under(acks, up, k, x)', Under(acks, up, l, y)'
        PROVE  k <= l
    <3>1. Under(acks, up, k + 1, x) /\ Under(acks, up, l + 1, y) /\ k + 1 \in Nat /\ l + 1 \in Nat
        BY <1>17, <2>1
    <3>2. k + 1 <= l + 1
        BY <1>20, <2>1, <3>1 DEF Before
    <3> QED BY <3>2
  <2> QED BY <1>8, <2>1 DEF Before
<1>21. InOrder'
  <2>1. ASSUME NEW i \in DOMAIN inflight', NEW j \in DOMAIN inflight', i < j
        PROVE  /\ inflight'[i].left <= inflight'[j].left
               /\ NotAhead(inflight'[i].chunks, inflight'[j].chunks)
               /\ Before(inflight[i].seq, inflight[j].seq)'
    <3>1. PICK k, l : k = h[i] /\ l = h[j]
        OBVIOUS
    <3>2. /\ k \in DOMAIN inflight /\ l \in DOMAIN inflight
          /\ inflight'[i] = inflight[k] /\ inflight'[j] = inflight[l]
        BY <1>8, <1>9, <3>1
    <3>3. k < l
        BY <1>6, <1>8, <2>1, <3>1 DEF Thinned
    <3>4. PICK x, y : x = inflight[k].seq /\ y = inflight[l].seq
        OBVIOUS
    <3>5. /\ inflight[k].left <= inflight[l].left
          /\ NotAhead(inflight[k].chunks, inflight[l].chunks)
          /\ Before(x, y)
        BY <3>2, <3>3, <3>4 DEF FlowInv, InOrder
    <3>6. Before(x, y)'
        BY <1>20, <3>5
    <3> QED BY <3>2, <3>4, <3>5, <3>6
  <2>2. ASSUME task # Nil, NEW i \in DOMAIN inflight'
        PROVE  /\ NotAhead(inflight'[i].chunks, task.chunks)
               /\ task.pc = "note" => Before(inflight[i].seq, task.seq)'
    <3>1. PICK k : k \in DOMAIN inflight /\ inflight'[i] = inflight[k]
        BY <1>8, <1>9
    <3>2. PICK x, y : x = inflight[k].seq /\ y = task.seq
        OBVIOUS
    <3>3. /\ NotAhead(inflight[k].chunks, task.chunks)
          /\ task.pc = "note" => Before(x, y)
        BY <2>2, <3>1, <3>2 DEF FlowInv, InOrder
    <3>4. inflight'[i].seq = x /\ task'.seq = y
        BY <1>8, <3>1, <3>2
    <3> QED BY <1>20, <3>1, <3>3, <3>4
  <2> QED BY <1>8, <2>1, <2>2 DEF InOrder
<1>22. Frontier'
  <2>1. ASSUME NEW s \in Sids, NEW c \in 1..Size, c > offsets'[s] + 1 PROVE sends'[s][c] = 0
    <3>1. c > offsets[s] + 1
        BY <1>10, <1>11, <2>1
    <3>2. sends[s][c] = 0
        BY <3>1 DEF FlowInv, Frontier
    <3> QED BY <1>12, <3>2
  <2>2. ASSUME NEW i \in DOMAIN r, NEW s \in DOMAIN r[i].chunks
        PROVE  r[i].chunks[s] <= offsets'[s] + 1
    <3>1. PICK k : k \in DOMAIN inflight /\ r[i] = inflight[k]
        BY <1>9
    <3>2. s \in Sids
        BY <1>0, <2>2, <3>1, InFlightType
    <3>3. PICK x \in 1..Size : x = r[i].chunks[s]
        BY <1>0, <2>2, <3>1, InFlightType
    <3>4. x <= offsets[s] + 1
        BY <2>2, <3>1, <3>3 DEF FlowInv, Frontier
    <3> QED BY <1>10, <1>11, <3>2, <3>3, <3>4
  <2>3. ASSUME task # Nil, NEW s \in DOMAIN task.chunks
        PROVE  /\ task.chunks[s] <= offsets'[s] + 1
               /\ \A c \in 1..Size : c > task.chunks[s] => sends'[s][c] = 0
               /\ task.pc = "send" => sends'[s][task.chunks[s]] < Window
    <3>1. s \in Sids /\ task.chunks[s] \in 1..Size
        BY <1>0, <2>3, TaskType
    <3>2. PICK d \in 1..Size : d = task.chunks[s]
        BY <3>1
    <3>3. /\ d <= offsets[s] + 1
          /\ \A c \in 1..Size : c > d => sends[s][c] = 0
          /\ task.pc = "send" => sends[s][d] < Window
        BY <2>3, <3>2 DEF FlowInv, Frontier
    <3>4. sends[s][d] \in Nat
        BY <1>0, <3>1, SendsType
    <3>5. d <= offsets'[s] + 1
        BY <1>10, <1>11, <3>1, <3>3
    <3>6. \A c \in 1..Size : c > d => sends'[s][c] = 0
        BY <1>12, <3>1, <3>3
    <3>7. task.pc = "send" => sends'[s][d] < Window
        BY <1>12, <3>1, <3>3, <3>4, FlowAssumption
    <3> QED BY <3>2, <3>5, <3>6, <3>7
  <2> QED BY <1>8, <2>1, <2>2, <2>3 DEF Frontier
<1>23. NoHotLoop'
    BY <1>12, FlowAssumption DEF FlowInv, NoHotLoop
<1> QED BY <1>10, <1>18, <1>19, <1>21, <1>22, <1>23 DEF FlowInv

LEMMA FlowInvariance == ASSUME FlowInv, [FlowNext]_flowVars PROVE FlowInv'
<1>1. FlowTypes'
    BY NextTypes DEF FlowInv
<1>2. CASE Look
    BY <1>1, <1>2, LookInv
<1>3. CASE Send
    BY <1>1, <1>3, SendInv
<1>4. CASE Sent
    BY <1>1, <1>4, SentInv
<1>5. CASE Store
    BY <1>1, <1>5, StoreInv
<1>6. CASE StoreFails
    BY <1>1, <1>6, StoreFailsInv
<1>7. CASE OnAck
    BY <1>1, <1>7, OnAckInv
<1>8. CASE Reconnect \/ Restart
    BY <1>1, <1>8, DisconnectedInv DEF Reconnect, Restart
<1>9. CASE Tick \/ SlowTick
    BY <1>1, <1>9, PassesInv DEF Tick, SlowTick
<1>10. ASSUME NEW s \in Sids, ChangesMind(s) PROVE FlowInv'
    BY <1>1, <1>10, ChangesMindInv
<1>11. CASE UNCHANGED flowVars
  <2>1. UNCHANGED <<agent, acks, up, echo, stored, sends>>
      BY <1>11 DEF flowVars, world
  <2>2. Trail'
      BY <2>1 DEF FlowInv, Trail, agent
  <2>3. \A k \in Nat : \A n : Under(acks, up, k, n)' => Under(acks, up, k, n)
      BY <2>1
  <2> QED BY <1>1, <2>1, <2>2, <2>3, AgentApart
<1> QED BY <1>2, <1>3, <1>4, <1>5, <1>6, <1>7, <1>8, <1>9, <1>10, <1>11 DEF FlowNext, Loop

(* Every packet, answer, pause and backoff is well-formed, whatever is      *)
(* refused, lost, late or merged (native_sync_flow.py, native_cli.py).      *)
THEOREM FlowTypeCorrect == FlowSpec => []FlowTypes
<1>1. FlowTypes /\ [FlowNext]_flowVars => FlowTypes'
    BY NextTypes
<1> QED BY InitTypes, <1>1, PTL DEF FlowSpec

(* The invariant that the theorems below rest on: no session whose chunk    *)
(* was sent without progress is offered again early, in any order of        *)
(* answers, timeouts, refusals and reconnects (native_sync_flow.py:10-24).  *)
THEOREM FlowInvariant == FlowSpec => []FlowInv
<1>1. FlowInv /\ [FlowNext]_flowVars => FlowInv'
    BY FlowInvariance
<1> QED BY InitInv, <1>1, PTL DEF FlowSpec

(* No hot loop: for any number of sessions, any window and any timeouts, a  *)
(* chunk that makes no progress is not sent more often than the window is   *)
(* wide before time has passed (native_sync_flow.py:10-16).                 *)
THEOREM NoHotLoopHolds == FlowSpec => []NoHotLoop
<1>1. FlowInv => NoHotLoop
    BY DEF FlowInv
<1> QED BY FlowInvariant, <1>1, PTL

(* What the Agent takes as stored, and what an answer under way says is     *)
(* stored, the Hub has: nothing is fabricated (native_sync_flow.py:23-25).  *)
NothingInvented ==
    /\ \A s \in Sids : offsets[s] <= stored[s]
    /\ \A k \in DOMAIN acks : \A s \in DOMAIN acks[k].offsets : acks[k].offsets[s] <= stored[s]

THEOREM NothingIsInvented == FlowSpec => []NothingInvented
<1>1. FlowInv => NothingInvented
    BY DEF FlowInv, Trail, NothingInvented
<1> QED BY FlowInvariant, <1>1, PTL

(* The window: packets wait with a deadline that is no later than that of   *)
(* the packets sent after them, so that giving up from the front            *)
(* (native_sync_flow.py:142-146) gives up all that are late.                *)
DeadlinesInOrder ==
    \A i, j \in DOMAIN inflight : i < j => inflight[i].left <= inflight[j].left

THEOREM FrontIsOldest == FlowSpec => []DeadlinesInOrder
<1>1. FlowInv => DeadlinesInOrder
    BY DEF FlowInv, InOrder, DeadlinesInOrder
<1> QED BY FlowInvariant, <1>1, PTL

----------------------------------------------------------------------------
(* The window.  The packet that the loop is about to send has its place.    *)
Carrying(q) == {i \in DOMAIN q : DOMAIN q[i].chunks # {}}
Carries(t) == IF t # Nil /\ DOMAIN t.chunks # {} THEN 1 ELSE 0
Windowed == Cardinality(Carrying(inflight)) + Carries(task) <= Window

LEMMA CarryingType ==
    ASSUME NEW q \in Seq(Entries)
    PROVE  IsFiniteSet(Carrying(q)) /\ Cardinality(Carrying(q)) \in Nat
<1>1. PICK m \in Nat : DOMAIN q = 1..m
    BY LenProperties
<1>2. Carrying(q) \subseteq 1..m /\ IsFiniteSet(1..m)
    BY <1>1, FS_Interval DEF Carrying
<1> QED BY <1>2, FS_Subset, FS_CardinalityType

LEMMA CarryingThinned ==
    ASSUME NEW q \in Seq(Entries), NEW r, NEW I, NEW h, Thinned(q, r, I, h)
    PROVE  /\ Cardinality(Carrying(r)) <= Cardinality(Carrying(q) \cap I)
           /\ Cardinality(Carrying(r)) <= Cardinality(Carrying(q))
<1>1. r \in Seq(Entries)
    BY DEF Thinned
<1>2. DOMAIN r \subseteq Nat
  <2>1. DOMAIN r = 1..Len(r)
      BY <1>1, LenProperties
  <2> QED BY <2>1
<1>3. PICK S : S = Carrying(r)
    OBVIOUS
<1>4. PICK T : T = Carrying(q) \cap I
    OBVIOUS
<1> DEFINE g == [j \in S |-> h[j]]
<1>5. \A j \in S : j \in DOMAIN r /\ h[j] \in T
    BY <1>3, <1>4 DEF Carrying, Thinned
<1>6. \A i, j \in S : h[i] = h[j] => i = j
  <2>1. ASSUME NEW i \in S, NEW j \in S, h[i] = h[j], i # j PROVE FALSE
    <3>1. i \in Nat /\ j \in Nat
        BY <1>2, <1>5
    <3>2. i < j \/ j < i
        BY <2>1, <3>1
    <3>3. h[i] < h[j] \/ h[j] < h[i]
        BY <1>5, <3>2 DEF Thinned
    <3>4. h[i] \in Nat
      <4>1. DOMAIN q = 1..Len(q)
          BY LenProperties
      <4> QED BY <1>4, <1>5, <4>1 DEF Carrying
    <3> QED BY <2>1, <3>3, <3>4
  <2> QED BY <2>1
<1>7. g \in Injection(S, T)
    BY <1>5, <1>6 DEF Injection, IsInjective
<1>8. IsFiniteSet(Carrying(q)) /\ T \subseteq Carrying(q)
    BY <1>4, CarryingType
<1>9. IsFiniteSet(T) /\ Cardinality(T) <= Cardinality(Carrying(q))
    BY <1>8, FS_Subset
<1> HIDE DEF g
<1>10. Cardinality(S) <= Cardinality(T)
    BY <1>7, <1>9, FS_Injection
<1>11. Cardinality(S) \in Nat /\ Cardinality(T) \in Nat /\ Cardinality(Carrying(q)) \in Nat
    BY <1>1, <1>3, <1>9, CarryingType, FS_CardinalityType
<1>12. Cardinality(S) <= Cardinality(Carrying(q))
    BY <1>9, <1>10, <1>11
<1> QED BY <1>3, <1>4, <1>10, <1>12

LEMMA WindowedStep ==
    ASSUME FlowTypes, FlowTypes', Windowed, [FlowNext]_flowVars
    PROVE  Windowed'
<1>1. PICK q \in Seq(Entries) : q = inflight
    BY DEF FlowTypes
<1>2. PICK m \in Nat : m = Cardinality(Carrying(q))
    BY CarryingType
<1>3. PICK n \in Nat : n = Cardinality(Carrying(inflight'))
    BY CarryingType DEF FlowTypes
<1>4. PICK t : t = Carries(task)
    OBVIOUS
<1>5. PICK u : u = Carries(task')
    OBVIOUS
<1>6. (t = 0 \/ t = 1) /\ (u = 0 \/ u = 1)
    BY <1>4, <1>5 DEF Carries
<1>7. m + t <= Window
    BY <1>1, <1>2, <1>4 DEF Windowed
<1>8. SUFFICES n + u <= Window
    BY <1>3, <1>5 DEF Windowed
<1>9. CASE UNCHANGED <<inflight, task>>
    BY <1>1, <1>2, <1>3, <1>4, <1>5, <1>7, <1>9
<1>10. CASE Look
  <2>1. PICK cut : LookStep(cut)
      BY <1>10, LookParts
  <2>2. PICK r : r = Kept(q, Live)
      OBVIOUS
  <2>3. PICK h : Thinned(q, r, Live, h)
      BY <2>2, KeptThinned
  <2>4. inflight' = r
      BY <1>1, <2>1, <2>2 DEF LookStep
  <2>5. n <= Cardinality(Carrying(q) \cap Live) /\ n <= m
      BY <1>2, <1>3, <2>3, <2>4, CarryingThinned
  <2>6. CASE u = 0
      BY <1>6, <1>7, <2>5, <2>6, FlowAssumption
  <2>7. CASE u = 1
    <3>1. task' # Nil /\ DOMAIN task'.chunks # {}
        BY <1>5, <2>7 DEF Carries
    <3>2. WindowOpen
        BY <2>1, <3>1 DEF LookStep
    <3>3. Carrying(q) \cap Live = {i \in Live : DOMAIN inflight[i].chunks # {}}
        BY <1>1 DEF Carrying, Live
    <3>4. PICK c : c = Cardinality(Carrying(q) \cap Live)
        OBVIOUS
    <3>5. c \in Nat
      <4>1. IsFiniteSet(Carrying(q)) /\ Carrying(q) \cap Live \subseteq Carrying(q)
          BY CarryingType
      <4> QED BY <3>4, <4>1, FS_Subset, FS_CardinalityType
    <3>6. c < Window /\ n <= c
        BY <2>5, <3>2, <3>3, <3>4 DEF WindowOpen
    <3> QED BY <2>7, <3>5, <3>6, FlowAssumption
  <2> QED BY <1>6, <2>6, <2>7
<1>11. CASE Send
  <2>1. task \in Turns /\ task # Nil
      BY <1>11, TaskType DEF Send
  <2>2. task'.chunks = task.chunks
      BY <1>11, <2>1 DEF Send, Turns
  <2>3. u <= t
      BY <1>4, <1>5, <2>1, <2>2 DEF Carries
  <2>4. inflight' = q
      BY <1>1, <1>11 DEF Send
  <2> QED BY <1>2, <1>3, <1>6, <1>7, <2>3, <2>4, FlowAssumption
<1>12. CASE Sent
  <2>1. task \in Turns /\ task # Nil
      BY <1>12, TaskType DEF Sent
  <2>2. PICK e : e = [seq |-> task.seq, left |-> Timeout, chunks |-> task.chunks]
      OBVIOUS
  <2>3. e \in Entries /\ e.chunks = task.chunks
      BY <2>1, <2>2, FlowAssumption DEF Turns, Entries
  <2>4. inflight' = Append(q, e) /\ task' = Nil
      BY <1>1, <1>12, <2>2 DEF Sent
  <2>5. PICK l \in Nat : l = Len(q) /\ DOMAIN q = 1..l
      BY LenProperties
  <2>6. PICK r : r = Append(q, e)
      OBVIOUS
  <2>7. DOMAIN r = 1..l + 1 /\ r[l + 1] = e /\ \A j \in 1..l : r[j] = q[j]
    <3>1. r \in Seq(Entries) /\ Len(r) = l + 1 /\ r[l + 1] = e /\ \A j \in 1..l : r[j] = q[j]
        BY <2>3, <2>5, <2>6, AppendProperties
    <3> QED BY <3>1, LenProperties
  <2>8. u = 0
      BY <1>5, <2>4 DEF Carries
  <2>9. ASSUME NEW i PROVE i \in 1..l + 1 <=> i \in 1..l \/ i = l + 1
      OBVIOUS
  <2>10. CASE DOMAIN task.chunks = {}
    <3>1. Carrying(r) = Carrying(q)
        BY <2>3, <2>5, <2>7, <2>9, <2>10 DEF Carrying
    <3> QED BY <1>2, <1>3, <1>6, <1>7, <2>4, <2>6, <2>8, <3>1, FlowAssumption
  <2>11. CASE DOMAIN task.chunks # {}
    <3>1. Carrying(r) = Carrying(q) \cup {l + 1}
        BY <2>3, <2>5, <2>7, <2>9, <2>11 DEF Carrying
    <3>2. l + 1 \notin Carrying(q)
        BY <2>5 DEF Carrying
    <3>3. Cardinality(Carrying(r)) = m + 1
        BY <1>2, <3>1, <3>2, CarryingType, FS_AddElement
    <3>4. t = 1
        BY <1>4, <2>1, <2>11 DEF Carries
    <3> QED BY <1>3, <1>7, <2>4, <2>6, <2>8, <3>3, <3>4
  <2> QED BY <2>10, <2>11
<1>13. CASE Store \/ StoreFails
    BY <1>9, <1>13 DEF Store, StoreFails, agent
<1>14. CASE OnAck
  <2>1. PICK a : AckStep(a)
      BY <1>14, OnAckParts
  <2>2. PICK I : I = DOMAIN inflight \ Meant(a)
      OBVIOUS
  <2>3. PICK r : r = Kept(q, I)
      OBVIOUS
  <2>4. PICK h : Thinned(q, r, I, h)
      BY <2>3, KeptThinned
  <2>5. inflight' = r /\ task' = task
      BY <1>1, <2>1, <2>2, <2>3 DEF AckStep
  <2>6. n <= m /\ u = t
      BY <1>2, <1>3, <1>4, <1>5, <2>4, <2>5, CarryingThinned
  <2> QED BY <1>6, <1>7, <2>6, FlowAssumption
<1>15. CASE Reconnect \/ Restart
  <2>1. inflight' = <<>> /\ task' = Nil
      BY <1>15 DEF Reconnect, Restart, Disconnected
  <2>2. Carrying(inflight') = {} /\ u = 0
      BY <1>5, <2>1 DEF Carrying, Carries
  <2> QED BY <1>3, <2>2, FS_EmptySet, FlowAssumption
<1>16. CASE Tick \/ SlowTick
  <2>1. Passes
      BY <1>16 DEF Tick, SlowTick
  <2>2. inflight' = [i \in DOMAIN inflight |-> [inflight[i] EXCEPT !.left = Less(@)]] /\ task' = task
      BY <2>1 DEF Passes
  <2>3. ASSUME NEW i \in DOMAIN inflight PROVE inflight'[i].chunks = inflight[i].chunks
    <3>1. PICK e \in Entries : e = inflight[i]
        BY InFlightType
    <3>2. inflight'[i] = [e EXCEPT !.left = Less(e.left)]
        BY <2>2, <3>1
    <3> QED BY <3>1, <3>2 DEF Entries
  <2>4. Carrying(inflight') = Carrying(q)
      BY <1>1, <2>2, <2>3 DEF Carrying
  <2> QED BY <1>2, <1>3, <1>4, <1>5, <1>7, <2>2, <2>4
<1>17. ASSUME NEW s \in Sids, ChangesMind(s) PROVE n + u <= Window
    BY <1>9, <1>17 DEF ChangesMind, agent
<1>18. CASE UNCHANGED flowVars
    BY <1>9, <1>18 DEF flowVars, agent
<1> QED
    BY <1>10, <1>11, <1>12, <1>13, <1>14, <1>15, <1>16, <1>17, <1>18 DEF FlowNext, Loop

(* The window is kept: at most Window packets with chunks wait for an       *)
(* answer (native_sync_flow.py:10-13), although the loop looks at it before *)
(* it cuts a packet and notes that packet only after it was sent.           *)
WindowKept == Cardinality(Carrying(inflight)) <= Window

THEOREM WindowIsKept == FlowSpec => []WindowKept
<1>1. FlowInit => Windowed
  <2>1. SUFFICES ASSUME FlowInit PROVE Windowed
      OBVIOUS
  <2>2. Carrying(inflight) = {} /\ Carries(task) = 0
      BY <2>1 DEF FlowInit, Carrying, Carries
  <2> QED BY <2>2, FS_EmptySet, FlowAssumption DEF Windowed
<1>2. FlowTypes /\ FlowTypes' /\ Windowed /\ [FlowNext]_flowVars => Windowed'
    BY WindowedStep
<1>3. FlowTypes /\ Windowed => WindowKept
  <2>1. SUFFICES ASSUME FlowTypes, Windowed PROVE WindowKept
      OBVIOUS
  <2>2. PICK n \in Nat : n = Cardinality(Carrying(inflight))
      BY <2>1, CarryingType DEF FlowTypes
  <2>3. PICK t : t = Carries(task) /\ (t = 0 \/ t = 1)
      BY DEF Carries
  <2>4. n + t <= Window
      BY <2>1, <2>2, <2>3 DEF Windowed
  <2>5. n <= Window
      BY <2>3, <2>4, FlowAssumption
  <2> QED BY <2>2, <2>5 DEF WindowKept
<1> QED BY FlowTypeCorrect, <1>1, <1>2, <1>3, PTL DEF FlowSpec

=============================================================================
