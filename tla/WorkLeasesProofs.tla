-------------------------- MODULE WorkLeasesProofs --------------------------
(***************************************************************************)
(* Work under a goal: no effect under two attempts, no false success, no   *)
(* work that nobody is told of; for any number of items and operations,    *)
(* whatever the order of requests, clock, maintenance and Agents.          *)
(*                                                                         *)
(* EffectsOnce is not inductive: a claim starts a new attempt of whatever  *)
(* is queued, so what must be known is that an item with an operation is   *)
(* never queued again (Once), along each of the four ways back.            *)
(* SuccessIsTrue needs that the evidence cannot change: operations that    *)
(* have ended stay as they are, none is added to an item that succeeded,   *)
(* and what it was built on exists (Grounded) and has succeeded for good.  *)
(* NoSilentWork needs that nothing is queued while the goal is not active  *)
(* (Quiet), so that a resumed or newly approved goal finds nothing that it *)
(* has not announced itself.                                               *)
(*                                                                         *)
(* What each handler does to an item and to an operation is Lawful, and    *)
(* Lawful steps keep the first two; each handler keeps the rest by itself. *)
(***************************************************************************)
EXTENDS WorkLeases, TLAPS

TypeOK ==
    /\ goal \in [state : GoalStates, approval : Nat, latest : Nat, left : Nat]
    /\ item \in [Items -> Work \cup {None}]
    /\ op \in [Ops -> Operation \cup {None}]
    /\ notice \subseteq Items
    /\ standing \in Standings

(* What an item waits for exists.                                          *)
Grounded == \A i \in Used : item[i].deps \subseteq Used

(* Work that has an operation is of the attempt that admitted it, and is   *)
(* not queued.                                                             *)
Once ==
    \A o \in OpsOfGoal :
        LET i == op[o].item IN
        i \in Used /\ item[i].state # "queued" /\ item[i].attempt = op[o].attempt

(* Nothing that can be stopped is left when a goal is not active.          *)
Quiet == goal.state # "active" => \A i \in Items : ~Open(i, Stoppable)

(* Success of an item, and of its operations.                              *)
Made(i) ==
    /\ DepsReady(item, i)
    /\ \A o \in OpsOf(i) :
        \/ op[o].state = "succeeded"
        \/ /\ op[o].role = "exploratory" /\ op[o].state = "failed"
           /\ \E c \in OpsOf(i) : op[c].covers = o

Truthful == \A i \in Items : Open(i, {"succeeded"}) => Made(i)

Claimable(i) == Open(i, {"queued"}) /\ item[i].approval = goal.approval /\ DepsReady(item, i)

Told == \A i \in Items : Claimable(i) => i \in notice

Inv == TypeOK /\ Grounded /\ Once /\ Quiet /\ Truthful /\ Told

----------------------------------------------------------------------------
(* What every step does to an item and to an operation.                     *)
ItemGoesOn(i) ==
    /\ item'[i] # None /\ item'[i].deps = item[i].deps
    /\ item[i].state = "succeeded" => item'[i].state = "succeeded"
    /\ OpsOf(i) # {} => /\ item'[i].attempt = item[i].attempt
                        /\ item'[i].state = "queued" => item[i].state = "queued"

ItemIsNew(i) ==
    item'[i] # None => item'[i].deps \subseteq Used /\ item'[i].state = "queued"

SameOperation(o) ==
    /\ op'[o] # None /\ op'[o].item = op[o].item /\ op'[o].attempt = op[o].attempt
    /\ op'[o].role = op[o].role /\ op'[o].covers = op[o].covers

Admitted(o) ==
    LET i == op'[o].item IN
    /\ op[o] = None /\ op'[o] # None
    /\ Open(i, Held) /\ item'[i].state = "running"
    /\ item'[i].attempt = item[i].attempt /\ op'[o].attempt = item[i].attempt

OperationStep(o) ==
    \/ op'[o] = op[o]
    \/ op[o] # None /\ op[o].state \notin OpDone /\ SameOperation(o)
    \/ Admitted(o)


Lawful ==
    /\ TypeOK'
    /\ \A i \in Used : ItemGoesOn(i)
    /\ \A i \in Items \ Used : ItemIsNew(i)
    /\ \A o \in Ops : OperationStep(o)
    /\ \A i \in Used : (item[i].state # "succeeded" /\ item'[i].state = "succeeded")
                          => op' = op /\ Made(i)

LEMMA GroundedKept ==
    ASSUME TypeOK, Grounded, Lawful
    PROVE  Grounded'
<1>1. Used \subseteq Used'
    BY DEF Lawful, ItemGoesOn, Used
<1> QED BY <1>1 DEF Lawful, Grounded, ItemGoesOn, ItemIsNew, Used

LEMMA OnceKept ==
    ASSUME TypeOK, Once, Lawful
    PROVE  Once'
<1> SUFFICES ASSUME NEW o \in Ops, op'[o] # None
             PROVE  /\ op'[o].item \in Used' /\ item'[op'[o].item].state # "queued"
                    /\ item'[op'[o].item].attempt = op'[o].attempt
    BY DEF Once, OpsOfGoal
<1>1. op'[o].item \in Items
    BY DEF Lawful, TypeOK, Operation
<1>2. CASE op[o] # None /\ op'[o].item = op[o].item /\ op'[o].attempt = op[o].attempt
  <2> DEFINE i == op[o].item
  <2>1. i \in Used /\ item[i].state # "queued" /\ item[i].attempt = op[o].attempt
      BY <1>2 DEF Once, OpsOfGoal
  <2>2. OpsOf(i) # {}
      BY <1>2 DEF OpsOf
  <2> HIDE DEF i
  <2>3. ItemGoesOn(i) /\ i \in Items
      BY <2>1 DEF Lawful, Used
  <2>4. item'[i] # None /\ item'[i].state # "queued" /\ item'[i].attempt = op[o].attempt
      BY <2>1, <2>2, <2>3 DEF ItemGoesOn
  <2> QED BY <1>2, <2>3, <2>4 DEF Used, i
<1>3. CASE Admitted(o)
  <2>1. item'[op'[o].item] # None
      BY <1>1, <1>3 DEF Admitted, Lawful, ItemGoesOn, Used, Open
  <2> QED BY <1>1, <1>3, <2>1 DEF Admitted, Used
<1> QED BY <1>2, <1>3 DEF Lawful, OperationStep, SameOperation

(* What an item is built on does not go back.                               *)
LEMMA ReadyStays ==
    ASSUME Lawful, Grounded, NEW i \in Used, DepsReady(item, i)
    PROVE  DepsReady(item', i)
BY DEF Lawful, Grounded, DepsReady, ItemGoesOn

LEMMA TruthfulKept ==
    ASSUME TypeOK, Grounded, Once, Truthful, Lawful
    PROVE  Truthful'
<1> SUFFICES ASSUME NEW i \in Items, item'[i] # None, item'[i].state = "succeeded"
             PROVE  Made(i)'
    BY DEF Truthful, Open
<1>1. i \in Used
    BY DEF Lawful, ItemIsNew, Used
<1>2. DepsReady(item, i) => DepsReady(item', i)
    BY <1>1, ReadyStays
<1>3. CASE item[i].state # "succeeded"
    BY <1>1, <1>2, <1>3 DEF Lawful, Made, OpsOf
<1>4. CASE item[i].state = "succeeded"
  <2>1. Made(i)
      BY <1>1, <1>4 DEF Truthful, Open, Used
  <2>2. \A o \in OpsOf(i) : op'[o] = op[o]
    <3> SUFFICES ASSUME NEW o \in OpsOf(i), op'[o] # op[o] PROVE FALSE
        OBVIOUS
    <3>1. op[o] # None /\ op[o].state \in OpDone
        BY <2>1 DEF Made, OpsOf, OpDone
    <3> QED BY <3>1 DEF OpsOf, Lawful, OperationStep, Admitted
  <2>3. \A o \in Ops : op'[o] # None /\ op'[o].item = i => o \in OpsOf(i)
    <3> SUFFICES ASSUME NEW o \in Ops, op'[o] # None, op'[o].item = i, o \notin OpsOf(i)
                 PROVE  FALSE
        OBVIOUS
    <3>1. ~(op[o] # None /\ op[o].item = i)
        BY DEF OpsOf
    <3>2. Admitted(o)
        BY <3>1 DEF Lawful, OperationStep, SameOperation
    <3> QED BY <1>4, <3>2 DEF Admitted, Open, Held
  <2>4. OpsOf(i)' = OpsOf(i)
      BY <2>2, <2>3 DEF OpsOf
  <2> QED BY <1>2, <2>1, <2>2, <2>4 DEF Made
<1> QED BY <1>3, <1>4

----------------------------------------------------------------------------
(* The handlers.  x is the row of item i in a new state.                    *)
Becomes(i, x, state) ==
    /\ x \in Work /\ x # None
    /\ x.state = state /\ x.deps = item[i].deps /\ x.approval = item[i].approval

LEMMA NoneIsNone ==
    /\ None \notin Work /\ None \notin Operation
    /\ MaxAttempts \in Nat /\ LeaseTicks \in Nat /\ Duration \in Nat
BY LeasesAssumption

LEMMA RowOfItem ==
    ASSUME TypeOK, NEW i \in Used
    PROVE  item[i] \in Work /\ item[i] # None /\ Further(item[i].behind) \in 0 .. 2
<1>1. item[i] \in Work /\ item[i] # None
    BY DEF TypeOK, Used
<1> QED BY <1>1 DEF Further, Work

LEMMA StoppedRow ==
    ASSUME TypeOK, NEW reason \in {"STOPPED", "GOAL_PAUSE"}, NEW i \in Items
    PROVE  /\ Open(i, Stoppable) => /\ Becomes(i, Stopped(reason)[i], "blocked")
                                    /\ Stopped(reason)[i].attempt = item[i].attempt
           /\ ~Open(i, Stoppable) => Stopped(reason)[i] = item[i]
<1>1. CASE Open(i, Stoppable)
  <2>1. item[i] \in Work /\ Further(item[i].behind) \in 0 .. 2
      BY <1>1, RowOfItem DEF Open, Used
  <2>2. Stopped(reason)[i] = [item[i] EXCEPT !.state = "blocked", !.reason = reason, !.lease = 0,
                                             !.behind = Further(@)]
      BY <1>1 DEF Stopped
  <2> DEFINE b == Further(item[i].behind)
  <2>3. Stopped(reason)[i] = [item[i] EXCEPT !.state = "blocked", !.reason = reason, !.lease = 0,
                                             !.behind = b]
      BY <2>2
  <2>4. b \in 0 .. 2 /\ reason \in Reasons /\ "blocked" \in ItemStates /\ 0 \in Nat
      BY <2>1 DEF Reasons, ItemStates
  <2> HIDE DEF b
  <2>5. Stopped(reason)[i] \in Work
      BY <2>1, <2>3, <2>4 DEF Work
  <2> QED BY <1>1, <2>1, <2>3, <2>5, NoneIsNone DEF Becomes, Work
<1> QED BY <1>1 DEF Stopped

LEMMA StoppedOperations ==
    ASSUME TypeOK, StopOps
    PROVE  op' \in [Ops -> Operation \cup {None}] /\ \A o \in Ops : OperationStep(o)
<1>1. ASSUME NEW o \in Ops PROVE op'[o] \in Operation \cup {None} /\ OperationStep(o)
  <2>1. CASE op[o] # None /\ op[o].state = "queued"
    <3>1. op[o] \in Operation
        BY <2>1 DEF TypeOK
    <3>2. op'[o] = [op[o] EXCEPT !.state = "cancelled"]
        BY <2>1 DEF StopOps
    <3>3. op'[o] \in Operation
        BY <3>1, <3>2 DEF Operation, OpDone
    <3> QED BY <2>1, <3>1, <3>2, <3>3, NoneIsNone DEF OperationStep, SameOperation, Operation, OpDone
  <2>2. CASE ~(op[o] # None /\ op[o].state = "queued")
    <3>1. op'[o] = op[o]
        BY <2>2 DEF StopOps
    <3> QED BY <3>1 DEF OperationStep, TypeOK
  <2> QED BY <2>1, <2>2
<1> QED BY <1>1 DEF StopOps

Goal == [state : GoalStates, approval : Nat, latest : Nat, left : Nat]

LEMMA StopsLawful ==
    ASSUME TypeOK, NEW reason \in {"STOPPED", "GOAL_PAUSE"}, StopWork(reason),
           goal' \in Goal, standing' \in Standings
    PROVE  Lawful /\ Quiet' /\ Told'
<1>1. /\ item' = Stopped(reason) /\ StopOps /\ notice' \subseteq notice
    BY DEF StopWork
<1>2. op' \in [Ops -> Operation \cup {None}] /\ \A o \in Ops : OperationStep(o)
    BY <1>1, StoppedOperations
<1>3. \A i \in Items :
        /\ Open(i, Stoppable) => /\ Becomes(i, item'[i], "blocked")
                                 /\ item'[i].attempt = item[i].attempt
        /\ ~Open(i, Stoppable) => item'[i] = item[i]
    BY <1>1, StoppedRow
<1>4. item' \in [Items -> Work \cup {None}]
  <2>1. \A i \in Items : item'[i] \in Work \cup {None}
      BY <1>3 DEF Becomes, TypeOK
  <2> QED BY <1>1, <2>1 DEF Stopped
<1>5. TypeOK'
    BY <1>1, <1>2, <1>4 DEF TypeOK, Goal
<1>6. \A i \in Used : ItemGoesOn(i)
    BY <1>3 DEF Becomes, ItemGoesOn, Used, Open, Stoppable, Held
<1>7. \A i \in Items \ Used : ItemIsNew(i)
    BY <1>3 DEF ItemIsNew, Used, Open
<1>8. \A i \in Used : ~(item[i].state # "succeeded" /\ item'[i].state = "succeeded")
    BY <1>3 DEF Becomes, Used
<1>9. \A i \in Items : ~Open(i, Stoppable)'
    BY <1>3 DEF Becomes, Open, Stoppable, Held
<1>10. Quiet'
    BY <1>9 DEF Quiet
<1>11. Told'
    BY <1>9 DEF Told, Claimable, Open, Stoppable
<1> QED BY <1>2, <1>5, <1>6, <1>7, <1>8, <1>10, <1>11 DEF Lawful

LEMMA UpdateLawful ==
    ASSUME TypeOK, Update PROVE Lawful /\ Quiet' /\ Told'
<1>1. goal' \in Goal /\ standing' \in Standings /\ StopWork("STOPPED")
    BY DEF Update, TypeOK, Goal, GoalStates
<1> QED BY <1>1, StopsLawful

LEMMA ControlLawful ==
    ASSUME TypeOK, NEW s \in {"paused", "cancelled"}, Control(s) PROVE Lawful /\ Quiet' /\ Told'
<1>1. goal' \in Goal /\ standing' \in Standings
    BY DEF Control, TypeOK, Goal, GoalStates
<1>2. \E reason \in {"STOPPED", "GOAL_PAUSE"} : StopWork(reason)
    BY DEF Control
<1> QED BY <1>1, <1>2, StopsLawful

LEMMA ReconcileGoalLawful ==
    ASSUME TypeOK, ReconcileGoal PROVE Lawful /\ Quiet' /\ Told'
<1>1. goal' \in Goal /\ standing' \in Standings /\ StopWork("STOPPED")
    BY DEF ReconcileGoal, TypeOK, Goal, GoalStates
<1> QED BY <1>1, StopsLawful

LEMMA NewItemRow ==
    ASSUME NEW approval \in Nat, NEW deps \in SUBSET Items
    PROVE  /\ NewItem(approval, deps) \in Work /\ NewItem(approval, deps) # None
           /\ NewItem(approval, deps).state = "queued" /\ NewItem(approval, deps).deps = deps
<1>1. NewItem(approval, deps) \in Work
    BY DEF NewItem, Work, ItemStates, Stoppable, Held, Reasons
<1> QED BY <1>1, NoneIsNone DEF NewItem

LEMMA ApproveLawful ==
    ASSUME TypeOK, Approve PROVE Lawful /\ Quiet' /\ Told'
<1>1. PICK kickoff \in Items \ Used :
        /\ item' = [Stopped("STOPPED") EXCEPT ![kickoff] = NewItem(goal.latest + 1, {})]
        /\ notice' = (notice \ {i \in Items : Open(i, Stoppable)}) \cup {kickoff}
    BY DEF Approve
<1>2. goal' \in Goal /\ goal'.state = "active" /\ standing' \in Standings /\ StopOps
    BY NoneIsNone DEF Approve, TypeOK, Goal, GoalStates
<1>3. op' \in [Ops -> Operation \cup {None}] /\ \A o \in Ops : OperationStep(o)
    BY <1>2, StoppedOperations
<1>4. /\ item'[kickoff] \in Work /\ item'[kickoff] # None
      /\ item'[kickoff].state = "queued" /\ item'[kickoff].deps = {}
  <2>1. goal.latest + 1 \in Nat
      BY DEF TypeOK
  <2>2. item'[kickoff] = NewItem(goal.latest + 1, {})
      BY <1>1 DEF Stopped
  <2> QED BY <2>1, <2>2, NewItemRow
<1>5. \A i \in Items \ {kickoff} :
        /\ Open(i, Stoppable) => /\ Becomes(i, item'[i], "blocked")
                                 /\ item'[i].attempt = item[i].attempt
        /\ ~Open(i, Stoppable) => item'[i] = item[i]
  <2>1. \A i \in Items \ {kickoff} : item'[i] = Stopped("STOPPED")[i]
      BY <1>1 DEF Stopped
  <2> QED BY <2>1, StoppedRow
<1>6. item' \in [Items -> Work \cup {None}]
  <2>1. \A i \in Items : item'[i] \in Work \cup {None}
      BY <1>4, <1>5 DEF Becomes, TypeOK
  <2> QED BY <1>1, <2>1 DEF Stopped
<1>7. TypeOK'
    BY <1>1, <1>2, <1>3, <1>6 DEF TypeOK, Goal
<1>8. \A i \in Used : ItemGoesOn(i)
    BY <1>5 DEF Becomes, ItemGoesOn, Used, Open, Stoppable, Held
<1>9. \A i \in Items \ Used : ItemIsNew(i)
    BY <1>4, <1>5 DEF ItemIsNew, Used, Open
<1>10. \A i \in Used : ~(item[i].state # "succeeded" /\ item'[i].state = "succeeded")
    BY <1>5 DEF Becomes, Used
<1>11. Quiet'
    BY <1>2 DEF Quiet
<1>12. Told'
  <2>1. \A i \in Items \ {kickoff} : ~Open(i, {"queued"})'
      BY <1>5 DEF Becomes, Open, Stoppable
  <2> QED BY <1>1, <2>1 DEF Told, Claimable
<1> QED BY <1>3, <1>7, <1>8, <1>9, <1>10, <1>11, <1>12 DEF Lawful

----------------------------------------------------------------------------
(* Nobody is left untold when what changed is announced and nothing new has *)
(* succeeded.                                                               *)
LEMMA ToldKept ==
    ASSUME TypeOK, Told, goal'.approval = goal.approval, NEW changed \in SUBSET Items,
           notice \ changed \subseteq notice',
           \A i \in changed : Claimable(i)' => i \in notice',
           \A i \in Items \ changed : Open(i, {"queued"})' => item'[i] = item[i],
           \A d \in Items : item'[d].state = "succeeded" => item[d].state = "succeeded"
    PROVE  Told'
<1> SUFFICES ASSUME NEW i \in Items \ changed, Claimable(i)' PROVE i \in notice'
    BY DEF Told
<1>1. item'[i] = item[i] /\ item[i] # None /\ item[i] \in Work
    BY DEF Claimable, Open, TypeOK
<1>2. item[i].deps \subseteq Items
    BY <1>1 DEF Work
<1>3. DepsReady(item, i)
    BY <1>1, <1>2 DEF Claimable, DepsReady
<1>4. Claimable(i)
    BY <1>1, <1>3 DEF Claimable, Open
<1> QED BY <1>4 DEF Told

(* Items of R go back to the queue, with no operation of theirs.            *)
LEMMA RequeuedRow ==
    ASSUME TypeOK, NEW i \in Used, NEW reason \in Reasons
    PROVE  /\ Becomes(i, Requeued(i, reason), "queued")
           /\ Requeued(i, reason).attempt = item[i].attempt
<1>1. item[i] \in Work /\ item[i] # None /\ Further(item[i].behind) \in 0 .. 2
    BY RowOfItem
<1> DEFINE b == Further(item[i].behind)
<1>2. Requeued(i, reason) = [item[i] EXCEPT !.state = "queued", !.reason = reason, !.result = FALSE,
                                            !.lease = 0, !.behind = b]
    BY DEF Requeued
<1>3. b \in 0 .. 2 /\ "queued" \in ItemStates /\ 0 \in Nat /\ FALSE \in BOOLEAN
    BY <1>1 DEF ItemStates, Stoppable
<1> HIDE DEF b
<1>4. Requeued(i, reason) \in Work
    BY <1>1, <1>2, <1>3 DEF Work
<1> QED BY <1>1, <1>2, <1>4, NoneIsNone DEF Becomes, Work

LEMMA RequeueLawful ==
    ASSUME TypeOK, Told, NEW R \in SUBSET Items,
           \A i \in R : Open(i, {"blocked"}) /\ OpsOf(i) = {} /\ Becomes(i, item'[i], "queued"),
           DOMAIN item' = Items, item' = [i \in Items |-> item'[i]],
           \A i \in Items \ R : item'[i] = item[i],
           goal' \in Goal, goal'.approval = goal.approval, goal'.state = "active",
           notice' = Announced(item', R), op' = op, standing' = standing
    PROVE  Lawful /\ Quiet' /\ Told'
<1>1. item' \in [Items -> Work \cup {None}]
  <2>1. \A i \in Items : item'[i] \in Work \cup {None}
      BY DEF Becomes, TypeOK
  <2> QED BY <2>1
<1>2. TypeOK'
    BY <1>1 DEF TypeOK, Goal, Announced
<1>3. \A i \in Used : ItemGoesOn(i)
    BY DEF Becomes, ItemGoesOn, Used, Open
<1>4. \A i \in Items \ Used : ItemIsNew(i)
    BY DEF ItemIsNew, Used, Open
<1>5. \A i \in Items : item'[i].state = "succeeded" => item[i].state = "succeeded"
    BY DEF Becomes
<1>6. Told'
  <2>1. notice \ R \subseteq notice' /\ \A i \in R : Claimable(i)' => i \in notice'
      BY DEF Announced, Claimable
  <2> QED BY <1>5, <2>1, ToldKept
<1> QED BY <1>2, <1>3, <1>4, <1>5, <1>6 DEF Lawful, OperationStep, Quiet, Used

LEMMA ResumeLawful ==
    ASSUME TypeOK, Told, Resume PROVE Lawful /\ Quiet' /\ Told'
<1>1. \A i \in ResumeAll : Open(i, {"blocked"}) /\ OpsOf(i) = {} /\ i \in Used
    BY DEF Resume, ResumeAll, OpsOf, OpsOfGoal, Open, Used
<1>2. ASSUME NEW i \in ResumeAll PROVE Becomes(i, item'[i], "queued")
  <2>1. Becomes(i, Requeued(i, ""), "queued") /\ item[i] \in Work /\ i \in Items
      BY <1>1, RequeuedRow, RowOfItem DEF Reasons, Used
  <2>2. item'[i] = [Requeued(i, "") EXCEPT !.result = item[i].result]
      BY <1>2, <2>1 DEF Resume
  <2> HIDE DEF Requeued
  <2>3. item'[i] \in Work
      BY <2>1, <2>2 DEF Becomes, Work
  <2> QED BY <2>1, <2>2, <2>3, NoneIsNone DEF Becomes, Work
<1>3. /\ \A i \in Items \ ResumeAll : item'[i] = item[i]
      /\ DOMAIN item' = Items /\ item' = [i \in Items |-> item'[i]]
    BY DEF Resume
<1>4. goal' \in Goal /\ goal'.approval = goal.approval /\ goal'.state = "active"
    BY DEF Resume, TypeOK, Goal, GoalStates
<1>5. notice' = Announced(item', ResumeAll) /\ op' = op /\ standing' = standing
    BY DEF Resume
<1>6. ResumeAll \in SUBSET Items
    BY DEF ResumeAll
<1> QED BY <1>1, <1>2, <1>3, <1>4, <1>5, <1>6, RequeueLawful

LEMMA RetryLawful ==
    ASSUME TypeOK, Told, Retry PROVE Lawful /\ Quiet' /\ Told'
<1> DEFINE R == {i \in Items : Retryable(i)}
<1>1. \A i \in R : Open(i, {"blocked"}) /\ OpsOf(i) = {} /\ i \in Used
    BY DEF Retryable, Open, Used
<1>2. ASSUME NEW i \in R PROVE Becomes(i, item'[i], "queued")
    BY <1>1, <1>2, RequeuedRow DEF Retry, Reasons
<1>3. /\ \A i \in Items \ R : item'[i] = item[i]
      /\ DOMAIN item' = Items /\ item' = [i \in Items |-> item'[i]]
    BY DEF Retry
<1>4. goal' \in Goal /\ goal'.approval = goal.approval /\ goal'.state = "active"
    BY DEF Retry, TypeOK, Goal, Live
<1>5. notice' = Announced(item', R) /\ op' = op /\ standing' = standing
    BY DEF Retry
<1>6. R \in SUBSET Items
    OBVIOUS
<1> HIDE DEF R
<1> QED BY <1>1, <1>2, <1>3, <1>4, <1>5, <1>6, RequeueLawful

LEMMA CreateLawful ==
    ASSUME TypeOK, Grounded, Told, NEW i \in Items, NEW deps \in SUBSET Items, Create(i, deps)
    PROVE  Lawful /\ Quiet' /\ Told'
<1>1. /\ i \notin Used /\ deps \subseteq Used /\ goal' = goal /\ op' = op /\ standing' = standing
      /\ goal.state = "active" /\ notice' = Announced(item', {i})
      /\ item' = [item EXCEPT ![i] = NewItem(goal.approval, deps)]
    BY DEF Create, Live
<1>2. /\ item'[i] \in Work /\ item'[i] # None
      /\ item'[i].state = "queued" /\ item'[i].deps = deps
  <2>1. item'[i] = NewItem(goal.approval, deps) /\ goal.approval \in Nat
      BY <1>1 DEF TypeOK
  <2> QED BY <2>1, NewItemRow
<1>3. \A x \in Items \ {i} : item'[x] = item[x]
    BY <1>1 DEF TypeOK
<1>4. item' \in [Items -> Work \cup {None}]
    BY <1>1, <1>2 DEF TypeOK
<1>5. TypeOK'
    BY <1>1, <1>4 DEF TypeOK, Announced
<1>6. \A x \in Used : ItemGoesOn(x)
    BY <1>1, <1>3 DEF ItemGoesOn, Used
<1>7. \A x \in Items \ Used : ItemIsNew(x)
    BY <1>1, <1>2, <1>3 DEF ItemIsNew, Used
<1>8. Told'
  <2>1. notice \ {i} \subseteq notice' /\ \A x \in {i} : Claimable(x)' => x \in notice'
      BY <1>1 DEF Announced, Claimable
  <2>2. \A d \in Items : item'[d].state = "succeeded" => item[d].state = "succeeded"
      BY <1>2, <1>3
  <2>3. goal'.approval = goal.approval /\ {i} \in SUBSET Items
      BY <1>1
  <2> QED BY <1>3, <2>1, <2>2, <2>3, ToldKept
<1> QED BY <1>1, <1>3, <1>5, <1>6, <1>7, <1>8 DEF Lawful, OperationStep, Quiet, Used

LEMMA AssignLawful ==
    ASSUME TypeOK, Told, NEW i \in Items, Assign(i)
    PROVE  Lawful /\ Quiet' /\ Told'
<1>1. /\ goal' = goal /\ op' = op /\ standing' = standing /\ item' = item
      /\ goal.state = "active" /\ notice' = Announced(item, {i})
    BY DEF Assign, Live
<1>2. TypeOK'
    BY <1>1 DEF TypeOK, Announced
<1>3. Told'
    BY <1>1 DEF Told, Claimable, Announced, DepsReady, Open
<1> QED BY <1>1, <1>2, <1>3 DEF Lawful, OperationStep, Quiet, ItemGoesOn, ItemIsNew, Used

----------------------------------------------------------------------------
(* One item changes, and is not queued afterwards.                          *)
LEMMA OneItemLawful ==
    ASSUME TypeOK, Told, NEW i \in Used, NEW x \in Work, x # None,
           item' = [item EXCEPT ![i] = x],
           goal' = goal, goal.state = "active", standing' = standing,
           notice' \subseteq Items,
           x.deps = item[i].deps, item[i].state # "succeeded", x.state # "queued",
           OpsOf(i) # {} => x.attempt = item[i].attempt,
           op' \in [Ops -> Operation \cup {None}], \A o \in Ops : OperationStep(o),
           x.state = "succeeded" => op' = op /\ Made(i)
    PROVE  /\ Lawful /\ Quiet'
           /\ (x.state # "succeeded" /\ notice \ {i} \subseteq notice') => Told'
<1>1. /\ item'[i] = x /\ i \in Items
      /\ \A d \in Items \ {i} : item'[d] = item[d]
    BY DEF TypeOK, Used
<1>2. TypeOK'
    BY DEF TypeOK
<1>3. \A d \in Used : ItemGoesOn(d)
    BY <1>1 DEF ItemGoesOn, Used
<1>4. \A d \in Items \ Used : ItemIsNew(d)
    BY <1>1 DEF ItemIsNew, Used
<1>5. \A d \in Used : (item[d].state # "succeeded" /\ item'[d].state = "succeeded") => op' = op /\ Made(d)
    BY <1>1 DEF Used
<1>6. ASSUME x.state # "succeeded", notice \ {i} \subseteq notice' PROVE Told'
  <2>1. \A d \in Items : item'[d].state = "succeeded" => item[d].state = "succeeded"
      BY <1>1, <1>6
  <2>2. \A d \in {i} : Claimable(d)' => d \in notice'
      BY <1>1 DEF Claimable, Open
  <2>3. goal'.approval = goal.approval /\ {i} \in SUBSET Items
      BY <1>1
  <2> QED BY <1>1, <1>6, <2>1, <2>2, <2>3, ToldKept
<1> QED BY <1>2, <1>3, <1>4, <1>5, <1>6 DEF Lawful, Quiet

LEMMA ClaimLawful ==
    ASSUME TypeOK, Once, Told, NEW i \in Items, Claim(i)
    PROVE  Lawful /\ Quiet' /\ Told'
<1> DEFINE x == [item[i] EXCEPT !.state = "leased", !.attempt = @ + 1, !.behind = 0,
                                !.lease = LeaseEnd, !.reason = ""]
<1>1. /\ i \in Used /\ item[i].state = "queued" /\ goal' = goal /\ goal.state = "active"
      /\ standing' = standing /\ op' = op /\ notice' = notice \ {i}
    BY DEF Claim, Live, Open, Used
<1>2. item[i] \in Work
    BY <1>1, RowOfItem
<1>3. item' = [item EXCEPT ![i] = x]
    BY <1>2 DEF Claim, TypeOK, Work
<1>4. LeaseEnd \in Nat /\ item[i].attempt + 1 \in Nat
    BY <1>2, NoneIsNone DEF LeaseEnd, TypeOK, Work
<1>5. x \in Work /\ x # None /\ x.deps = item[i].deps /\ x.state = "leased"
  <2>1. "leased" \in ItemStates /\ 0 \in 0 .. 2 /\ "" \in Reasons
      BY DEF ItemStates, Stoppable, Held, Reasons
  <2>2. x \in Work
      BY <1>2, <1>4, <2>1 DEF Work
  <2> QED BY <1>2, <2>2, NoneIsNone DEF Work
<1>6. OpsOf(i) = {}
    BY <1>1 DEF Once, OpsOf, OpsOfGoal
<1>7. op' \in [Ops -> Operation \cup {None}] /\ \A o \in Ops : OperationStep(o)
    BY <1>1 DEF TypeOK, OperationStep
<1>8. notice \ {i} \subseteq notice' /\ notice' \subseteq Items
    BY <1>1 DEF TypeOK
<1> HIDE DEF x
<1> QED BY <1>1, <1>3, <1>5, <1>6, <1>7, <1>8, OneItemLawful

LEMMA HeartbeatLawful ==
    ASSUME TypeOK, Told, NEW i \in Items, NEW n, Heartbeat(i, n)
    PROVE  Lawful /\ Quiet' /\ Told'
<1> DEFINE x == [item[i] EXCEPT !.lease = LeaseEnd]
<1>1. /\ i \in Used /\ item[i].state \in Held /\ goal' = goal /\ goal.state = "active"
      /\ standing' = standing /\ op' = op /\ notice' = notice
    BY DEF Heartbeat, Live, Open, Used, HoldsLease
<1>2. item[i] \in Work
    BY <1>1, RowOfItem
<1>3. item' = [item EXCEPT ![i] = x]
    BY <1>2 DEF Heartbeat, TypeOK, Work
<1>4. LeaseEnd \in Nat
    BY <1>2, NoneIsNone DEF LeaseEnd, TypeOK, Work
<1>5. /\ x \in Work /\ x # None /\ x.deps = item[i].deps /\ x.state = item[i].state
      /\ x.attempt = item[i].attempt
    BY <1>2, <1>4, NoneIsNone DEF Work
<1>6. op' \in [Ops -> Operation \cup {None}] /\ \A o \in Ops : OperationStep(o)
    BY <1>1 DEF TypeOK, OperationStep
<1>7. notice \ {i} \subseteq notice' /\ notice' \subseteq Items
    BY <1>1 DEF TypeOK
<1>8. x.state # "queued" /\ x.state # "succeeded"
    BY <1>1, <1>5 DEF Held
<1> HIDE DEF x
<1> QED BY <1>1, <1>3, <1>5, <1>6, <1>7, <1>8, OneItemLawful

LEMMA ExecuteLawful ==
    ASSUME TypeOK, Told, NEW i \in Items, NEW n \in Nat, NEW role \in Roles,
           NEW covers \in Ops \cup {None}, Execute(i, n, role, covers)
    PROVE  Lawful /\ Quiet' /\ Told'
<1> DEFINE x == [item[i] EXCEPT !.state = "running"]
<1>1. /\ i \in Used /\ Open(i, Held) /\ goal' = goal /\ goal.state = "active"
      /\ standing' = standing /\ notice' = notice /\ item[i].attempt = n
    BY DEF Execute, Live, Open, Used, HoldsLease
<1>2. item[i] \in Work
    BY <1>1, RowOfItem
<1>3. item' = [item EXCEPT ![i] = x]
    BY <1>2 DEF Execute, TypeOK, Work
<1>4. /\ x \in Work /\ x # None /\ x.deps = item[i].deps /\ x.state = "running"
      /\ x.attempt = item[i].attempt
    BY <1>2, NoneIsNone DEF Work, ItemStates, Stoppable, Held
<1>5. PICK o \in Ops :
        /\ op[o] = None
        /\ op' = [op EXCEPT ![o] = [item |-> i, attempt |-> n, role |-> role,
                                    covers |-> covers, state |-> "queued"]]
    BY DEF Execute
<1> DEFINE new == [item |-> i, attempt |-> n, role |-> role, covers |-> covers, state |-> "queued"]
<1>6. new \in Operation /\ new # None /\ new.item = i /\ new.attempt = n
    BY NoneIsNone DEF Operation
<1>7. op'[o] = new /\ \A p \in Ops \ {o} : op'[p] = op[p]
    BY <1>5 DEF TypeOK
<1>8. op' \in [Ops -> Operation \cup {None}]
    BY <1>5, <1>6 DEF TypeOK
<1> HIDE DEF new, x
<1>9. item'[i] = x
    BY <1>3 DEF TypeOK
<1>10. Admitted(o)
    BY <1>1, <1>4, <1>5, <1>6, <1>7, <1>9 DEF Admitted
<1>11. \A p \in Ops : OperationStep(p)
    BY <1>7, <1>10 DEF OperationStep
<1>12. notice \ {i} \subseteq notice' /\ notice' \subseteq Items
    BY <1>1 DEF TypeOK
<1>13. item[i].state # "succeeded"
    BY <1>1 DEF Open, Held
<1> QED BY <1>1, <1>3, <1>4, <1>8, <1>11, <1>12, <1>13, OneItemLawful

(* What recovered_explorations finds good is good: a failed operation is    *)
(* among it only as an exploration that another one supersedes.             *)
LEMMA RecoveredIsGood ==
    ASSUME NEW rows, NEW o \in Recovered(rows), op[o].state # "succeeded"
    PROVE  /\ op[o].role = "exploratory" /\ op[o].state = "failed"
           /\ \E c \in rows : op[c].covers = o
<1> SUFFICES ASSUME ~(/\ op[o].role = "exploratory" /\ op[o].state = "failed"
                      /\ \E c \in rows : op[c].covers = o)
             PROVE  FALSE
    OBVIOUS
<1>1. o \in rows /\ \A S \in SUBSET rows : MadeGood(rows, S) => o \in S
    BY DEF Recovered
<1>2. MadeGood(rows, rows \ {o})
    BY DEF MadeGood
<1> QED BY <1>1, <1>2

(* A result is accepted when what it says of the operations is true.        *)
LEMMA ReportIsTrue ==
    ASSUME TypeOK, Once, NEW i \in Used, Reportable(i, item[i].attempt, "succeeded")
    PROVE  Made(i)
<1>1. Listed(i, item[i].attempt) = OpsOf(i)
    BY DEF Listed, OpsOf, Once, OpsOfGoal
<1>2. Recovered(OpsOf(i)) = OpsOf(i) /\ DepsReady(item, i)
    BY <1>1 DEF Reportable
<1>3. ASSUME NEW o \in OpsOf(i), op[o].state # "succeeded"
      PROVE  /\ op[o].role = "exploratory" /\ op[o].state = "failed"
             /\ \E c \in OpsOf(i) : op[c].covers = o
    BY <1>2, <1>3, RecoveredIsGood
<1> QED BY <1>2, <1>3 DEF Made

LEMMA FinishedLawful ==
    ASSUME TypeOK, Grounded, Once, Told, NEW i \in Items, Live, Open(i, Held \cup {"blocked"}),
           item[i].approval = goal.approval,
           NEW outcome \in {"succeeded", "failed", "blocked"},
           Reportable(i, item[i].attempt, outcome), Finished(i, outcome)
    PROVE  Lawful /\ Quiet' /\ Told'
<1> DEFINE x == [item[i] EXCEPT !.state = outcome, !.result = TRUE, !.lease = 0]
<1>1. /\ i \in Used /\ goal' = goal /\ goal.state = "active"
      /\ standing' = standing /\ op' = op
    BY DEF Finished, Live, Open, Used
<1>2. item[i] \in Work /\ item[i].state \notin {"succeeded", "queued"}
    BY <1>1, RowOfItem DEF Open, Held
<1>3. item' = [item EXCEPT ![i] = x]
    BY <1>2 DEF Finished, TypeOK, Work
<1>4. /\ x \in Work /\ x # None /\ x.deps = item[i].deps /\ x.state = outcome
      /\ x.attempt = item[i].attempt
  <2>1. outcome \in ItemStates /\ 0 \in Nat
      BY DEF ItemStates
  <2>2. x \in Work
      BY <1>2, <2>1 DEF Work
  <2> QED BY <1>2, <2>2, NoneIsNone DEF Work
<1>5. op' \in [Ops -> Operation \cup {None}] /\ \A o \in Ops : OperationStep(o)
    BY <1>1 DEF TypeOK, OperationStep
<1> HIDE DEF x
<1>6. item'[i] = x /\ \A d \in Items \ {i} : item'[d] = item[d]
    BY <1>3 DEF TypeOK
<1>7. outcome = "succeeded" => Made(i)
    BY <1>1, ReportIsTrue
<1> DEFINE waited == {d \in Used : Open(d, {"queued"}) /\ i \in item[d].deps
                                   /\ item[d].approval = goal.approval}
<1>8. notice' = IF outcome # "succeeded" THEN notice ELSE Announced(item', waited)
    BY DEF Finished
<1>9. notice' \subseteq Items
    BY <1>8 DEF Announced, TypeOK, Used
<1>10. /\ Lawful /\ Quiet'
       /\ (x.state # "succeeded" /\ notice \ {i} \subseteq notice') => Told'
    BY <1>1, <1>2, <1>3, <1>4, <1>5, <1>7, <1>9, OneItemLawful
<1>11. CASE outcome # "succeeded"
    BY <1>4, <1>8, <1>10, <1>11
<1>12. CASE outcome = "succeeded"
  <2> SUFFICES ASSUME NEW d \in Items, Claimable(d)' PROVE d \in notice'
      BY <1>10 DEF Told
  <2>1. d # i /\ item'[d] = item[d] /\ item[d] \in Work /\ d \in Used
        /\ item[d].state = "queued" /\ item[d].approval = goal.approval
      BY <1>1, <1>4, <1>6, <1>12 DEF Claimable, Open, TypeOK, Used
  <2>2. CASE d \in waited
      BY <1>8, <1>12, <2>2 DEF Announced, Claimable
  <2>3. CASE d \notin waited
    <3>1. i \notin item[d].deps
        BY <2>1, <2>3 DEF Open, Used
    <3>2. item[d].deps \subseteq Items
        BY <2>1 DEF Work
    <3>3. DepsReady(item, d)
        BY <1>6, <2>1, <3>1, <3>2 DEF Claimable, DepsReady
    <3>4. d \in notice
        BY <2>1, <3>3 DEF Told, Claimable, Open, Used
    <3> QED BY <1>8, <1>12, <2>3, <3>4 DEF Announced
  <2> QED BY <2>2, <2>3
<1> QED BY <1>10, <1>11, <1>12

LEMMA ResultLawful ==
    ASSUME TypeOK, Grounded, Once, Told, NEW i \in Items, NEW n \in Nat,
           NEW outcome \in {"succeeded", "failed", "blocked"},
           Result(i, n, outcome) \/ Archive(i, n, outcome)
    PROVE  Lawful /\ Quiet' /\ Told'
<1>1. /\ Live /\ Open(i, Held \cup {"blocked"}) /\ item[i].approval = goal.approval
      /\ item[i].attempt = n /\ Reportable(i, n, outcome) /\ Finished(i, outcome)
    BY DEF Result, Archive, HoldsLease, Open, Held
<1> QED BY <1>1, FinishedLawful

----------------------------------------------------------------------------
(* Only operations change.                                                  *)
LEMMA OperationLawful ==
    ASSUME TypeOK, Quiet, Told, NEW o \in Ops, op[o] # None, op[o].state \notin OpDone,
           NEW state \in {"running"} \cup OpDone, op' = [op EXCEPT ![o].state = state],
           UNCHANGED <<goal, item, notice, standing>>
    PROVE  Lawful /\ Quiet' /\ Told'
<1>1. op[o] \in Operation
    BY DEF TypeOK
<1>2. op'[o] = [op[o] EXCEPT !.state = state] /\ \A p \in Ops \ {o} : op'[p] = op[p]
    BY DEF TypeOK
<1>3. op'[o] \in Operation
    BY <1>1, <1>2 DEF Operation
<1>4. OperationStep(o)
    BY <1>1, <1>2, <1>3, NoneIsNone DEF OperationStep, SameOperation, Operation
<1>5. TypeOK'
    BY <1>2, <1>3 DEF TypeOK
<1>6. (\A i \in Used : ItemGoesOn(i)) /\ (\A i \in Items \ Used : ItemIsNew(i))
    BY DEF ItemGoesOn, ItemIsNew, Used
<1>7. Lawful
    BY <1>2, <1>4, <1>5, <1>6 DEF Lawful, OperationStep
<1>8. Quiet' /\ Told'
    BY DEF Quiet, Told, Claimable, Open, DepsReady
<1> QED BY <1>7, <1>8

LEMMA StartLawful ==
    ASSUME TypeOK, Quiet, Told, NEW o \in Ops, Start(o)
    PROVE  Lawful /\ Quiet' /\ Told'
<1>1. op[o] # None /\ op[o].state \notin OpDone
    BY DEF Start, OpDone
<1> QED BY <1>1, OperationLawful DEF Start

LEMMA EndsLawful ==
    ASSUME TypeOK, Quiet, Told, NEW o \in Ops, NEW s \in OpDone, Ends(o, s)
    PROVE  Lawful /\ Quiet' /\ Told'
<1>1. op[o] # None /\ op[o].state \notin OpDone
    BY DEF Ends, OpDone
<1> QED BY <1>1, OperationLawful DEF Ends

(* The clock.                                                               *)
LEMMA TickLawful ==
    ASSUME TypeOK, Quiet, Told, Tick
    PROVE  Lawful /\ Quiet' /\ Told'
<1>1. /\ goal' \in Goal /\ goal'.approval = goal.approval /\ goal'.state = goal.state
      /\ op' = op /\ notice' = notice /\ standing' = standing
    BY DEF Tick, TypeOK, Goal
<1>2. ASSUME NEW i \in Items
      PROVE  /\ item'[i] \in Work \cup {None}
             /\ item'[i] # item[i] => /\ Open(i, Held) /\ Becomes(i, item'[i], item[i].state)
                                      /\ item'[i].attempt = item[i].attempt
  <2>1. CASE Open(i, Held) /\ item[i].lease > 0
    <3>1. item[i] \in Work /\ item'[i] = [item[i] EXCEPT !.lease = @ - 1]
        BY <2>1 DEF Tick, TypeOK, Open
    <3>2. item'[i] \in Work
        BY <2>1, <3>1 DEF Work
    <3> QED BY <2>1, <3>1, <3>2, NoneIsNone DEF Becomes, Work
  <2>2. CASE ~(Open(i, Held) /\ item[i].lease > 0)
      BY <2>2 DEF Tick, TypeOK
  <2> QED BY <2>1, <2>2
<1>3. item' \in [Items -> Work \cup {None}]
    BY <1>2 DEF Tick
<1>4. TypeOK'
    BY <1>1, <1>3 DEF TypeOK, Goal
<1>5. \A i \in Used : ItemGoesOn(i)
    BY <1>2 DEF Becomes, ItemGoesOn, Used, Open
<1>6. \A i \in Items \ Used : ItemIsNew(i)
    BY <1>2 DEF ItemIsNew, Used, Open
<1>7. \A i \in Items : item'[i].state = item[i].state /\ (item'[i] # None <=> item[i] # None)
    BY <1>2 DEF Becomes, Open
<1>8. Quiet'
    BY <1>1, <1>7 DEF Quiet, Open
<1>9. Told'
  <2>1. \A i \in Items \ {} : Open(i, {"queued"})' => item'[i] = item[i]
      BY <1>2, <1>7 DEF Open, Held
  <2>2. {} \in SUBSET Items /\ notice \ {} \subseteq notice'
        /\ \A i \in {} : Claimable(i)' => i \in notice'
      BY <1>1
  <2> QED BY <1>1, <1>7, <2>1, <2>2, ToldKept
<1> QED BY <1>1, <1>4, <1>5, <1>6, <1>7, <1>8, <1>9 DEF Lawful, OperationStep, Used

(* Leases that ended: without an operation, the item is queued again.       *)
LEMMA ReconcileLeasesLawful ==
    ASSUME TypeOK, Told, ReconcileLeases
    PROVE  Lawful /\ Quiet' /\ Told'
<1> DEFINE ended == {i \in Items : Expired(i)}
           again == {i \in ended : AfterExpiry(i) = "queued"}
<1>1. /\ goal' = goal /\ goal.state = "active" /\ op' = op /\ standing' = standing
      /\ notice' = Announced(item', again)
    BY DEF ReconcileLeases
<1>2. ASSUME NEW i \in Items
      PROVE  /\ item'[i] \in Work \cup {None}
             /\ item'[i] # item[i] =>
                  /\ i \in ended /\ Open(i, Held) /\ Becomes(i, item'[i], AfterExpiry(i))
                  /\ item'[i].attempt = item[i].attempt
  <2>1. CASE i \in ended
    <3> DEFINE b == Further(item[i].behind)
    <3>1. item[i] \in Work /\ b \in 0 .. 2 /\ Open(i, Held)
        BY <2>1, RowOfItem DEF Expired, Open, Used
    <3>2. item'[i] = [item[i] EXCEPT !.state = AfterExpiry(i), !.lease = 0,
                                     !.reason = "LEASE_EXPIRED", !.behind = b]
        BY <2>1 DEF ReconcileLeases
    <3>3. AfterExpiry(i) \in ItemStates /\ 0 \in Nat /\ "LEASE_EXPIRED" \in Reasons
        BY DEF AfterExpiry, ItemStates, Stoppable, Reasons
    <3> HIDE DEF b
    <3>4. item'[i] \in Work
        BY <3>1, <3>2, <3>3 DEF Work
    <3> QED BY <2>1, <3>1, <3>2, <3>4, NoneIsNone DEF Becomes, Work
  <2>2. CASE i \notin ended
      BY <2>2 DEF ReconcileLeases, TypeOK
  <2> QED BY <2>1, <2>2
<1>3. item' \in [Items -> Work \cup {None}]
    BY <1>2 DEF ReconcileLeases
<1>4. again \in SUBSET Items
    OBVIOUS
<1>5. \A i \in ended : AfterExpiry(i) \in {"queued", "blocked"}
                        /\ (AfterExpiry(i) = "queued" => OpsOf(i) = {})
    BY DEF AfterExpiry
<1>6. \A i \in Items : item'[i] = item[i] \/ (i \in ended /\ item'[i].state = AfterExpiry(i))
    BY <1>2 DEF Becomes
<1>7. \A i \in Items \ again : Open(i, {"queued"})' => item'[i] = item[i]
    BY <1>6 DEF Open
<1> HIDE DEF ended, again
<1>8. TypeOK'
    BY <1>1, <1>3, <1>4 DEF TypeOK, Announced
<1>9. \A i \in Used : ItemGoesOn(i)
    BY <1>2, <1>5 DEF Becomes, ItemGoesOn, Used, Open, Held
<1>10. \A i \in Items \ Used : ItemIsNew(i)
    BY <1>2 DEF ItemIsNew, Used, Open
<1>11. \A i \in Items : item'[i].state = "succeeded" => item[i].state = "succeeded"
    BY <1>5, <1>6
<1>12. Told'
  <2>1. notice \ again \subseteq notice' /\ \A i \in again : Claimable(i)' => i \in notice'
      BY <1>1, <1>4 DEF Announced, Claimable
  <2>2. goal'.approval = goal.approval
      BY <1>1
  <2> QED BY <1>4, <1>7, <1>11, <2>1, <2>2, ToldKept
<1> QED BY <1>1, <1>8, <1>9, <1>10, <1>11, <1>12 DEF Lawful, OperationStep, Quiet, Used

(* The owner or a participant loses, or gets back, what it needs.           *)
LEMMA StandingLawful ==
    ASSUME TypeOK, Quiet, Told, StandingChanges \/ UNCHANGED leaseVars
    PROVE  Lawful /\ Quiet' /\ Told'
<1>1. goal' = goal /\ item' = item /\ op' = op /\ notice' = notice /\ standing' \in Standings
    BY DEF StandingChanges, leaseVars, TypeOK
<1>2. TypeOK'
    BY <1>1 DEF TypeOK
<1>3. Lawful
    BY <1>1, <1>2 DEF Lawful, OperationStep, ItemGoesOn, ItemIsNew, Used
<1>4. Quiet' /\ Told'
    BY <1>1 DEF Quiet, Told, Claimable, Open, DepsReady
<1> QED BY <1>3, <1>4

----------------------------------------------------------------------------
LEMMA InitInv == Init => Inv
<1> SUFFICES ASSUME Init PROVE Inv
    OBVIOUS
<1>1. TypeOK
    BY DEF Init, TypeOK, GoalStates, Standings
<1>2. \A i \in Items : item[i] = None
    BY DEF Init
<1>3. \A o \in Ops : op[o] = None
    BY DEF Init
<1> QED BY <1>1, <1>2, <1>3
        DEF Inv, Grounded, Used, Once, OpsOfGoal, Quiet, Truthful, Told, Claimable, Open

LEMMA RequestLawful ==
    ASSUME Inv, Requests
    PROVE  Lawful /\ Quiet' /\ Told'
<1>1. CASE Update \/ Approve \/ Resume \/ Retry
    BY <1>1, UpdateLawful, ApproveLawful, ResumeLawful, RetryLawful DEF Inv
<1>2. ASSUME NEW s \in {"paused", "cancelled"}, Control(s) PROVE Lawful /\ Quiet' /\ Told'
    BY <1>2, ControlLawful DEF Inv
<1>3. ASSUME NEW i \in Items, Assign(i) \/ Claim(i) PROVE Lawful /\ Quiet' /\ Told'
    BY <1>3, AssignLawful, ClaimLawful DEF Inv
<1>4. ASSUME NEW i \in Items, NEW deps \in SUBSET Items, Create(i, deps)
      PROVE  Lawful /\ Quiet' /\ Told'
    BY <1>4, CreateLawful DEF Inv
<1>5. \A n \in 1 .. MaxAttempts : n \in Nat
    BY NoneIsNone
<1>6. ASSUME NEW i \in Items, NEW n \in 1 .. MaxAttempts, Heartbeat(i, n)
      PROVE  Lawful /\ Quiet' /\ Told'
    BY <1>6, HeartbeatLawful DEF Inv
<1>7. ASSUME NEW i \in Items, NEW n \in 1 .. MaxAttempts,
             NEW role \in Roles, NEW covers \in Ops \cup {None},
             Execute(i, n, role, covers)
      PROVE  Lawful /\ Quiet' /\ Told'
    BY <1>5, <1>7, ExecuteLawful DEF Inv
<1>8. ASSUME NEW i \in Items, NEW n \in 1 .. MaxAttempts,
             NEW s \in {"succeeded", "failed", "blocked"}, Result(i, n, s) \/ Archive(i, n, s)
      PROVE  Lawful /\ Quiet' /\ Told'
    BY <1>5, <1>8, ResultLawful DEF Inv
<1> QED BY <1>1, <1>2, <1>3, <1>4, <1>6, <1>7, <1>8 DEF Requests

LEMMA NextLawful ==
    ASSUME Inv, [Next]_leaseVars
    PROVE  Lawful /\ Quiet' /\ Told'
<1>1. CASE Requests
    BY <1>1, RequestLawful
<1>2. CASE ReconcileLeases \/ ReconcileGoal
    BY <1>2, ReconcileLeasesLawful, ReconcileGoalLawful DEF Inv
<1>3. ASSUME NEW o \in Ops, Start(o) PROVE Lawful /\ Quiet' /\ Told'
    BY <1>3, StartLawful DEF Inv
<1>4. ASSUME NEW o \in Ops, NEW s \in OpDone, Ends(o, s) PROVE Lawful /\ Quiet' /\ Told'
    BY <1>4, EndsLawful DEF Inv
<1>5. CASE Tick
    BY <1>5, TickLawful DEF Inv
<1>6. CASE StandingChanges \/ UNCHANGED leaseVars
    BY <1>6, StandingLawful DEF Inv
<1> QED BY <1>1, <1>2, <1>3, <1>4, <1>5, <1>6 DEF Next

(* The inductive invariant.                                                 *)
THEOREM WorkInvariance == Spec => []Inv
<1>1. Inv /\ [Next]_leaseVars => Inv'
  <2> SUFFICES ASSUME Inv, [Next]_leaseVars PROVE Inv'
      OBVIOUS
  <2>1. Lawful /\ Quiet' /\ Told'
      BY NextLawful
  <2> QED BY <2>1, GroundedKept, OnceKept, TruthfulKept DEF Inv, Lawful
<1> QED BY <1>1, InitInv, PTL DEF Spec

(* No work that has admitted an operation is attempted a second time, along *)
(* any sequence of requests, expiries, resumptions, retries and approvals   *)
(* (coordination.py:626-628, 1069-1076).                                    *)
THEOREM EffectsHappenOnce == Spec => []EffectsOnce
<1>1. Inv => EffectsOnce
    BY DEF Inv, Once, EffectsOnce
<1> QED BY <1>1, WorkInvariance, PTL

(* What is reported as succeeded is true and stays true, whatever happens   *)
(* to the goal afterwards (coordination.py:889-932).                        *)
THEOREM ReportsAreTrue == Spec => []SuccessIsTrue
<1>1. Inv => SuccessIsTrue
    BY DEF Inv, Truthful, Made, SuccessIsTrue
<1> QED BY <1>1, WorkInvariance, PTL

(* Whatever made it claimable, work that can be claimed has been announced  *)
(* (coordination.py:337, 579, 601, 939-943, 1075).                          *)
THEOREM NoWorkIsSilent == Spec => []NoSilentWork
<1>1. Inv => NoSilentWork
    BY DEF Inv, Told, Claimable, NoSilentWork
<1> QED BY <1>1, WorkInvariance, PTL

(* A success is final: no request, expiry or change of the goal takes it    *)
(* back (coordination.py:346-373, 930-943).                                 *)
THEOREM SuccessIsFinal ==
    Spec => [][\A i \in Items : Open(i, {"succeeded"}) => Open(i, {"succeeded"})']_leaseVars
<1>1. Inv /\ [Next]_leaseVars =>
        [\A i \in Items : Open(i, {"succeeded"}) => Open(i, {"succeeded"})']_leaseVars
    BY NextLawful DEF Lawful, ItemGoesOn, Open, Used
<1> QED BY <1>1, WorkInvariance, PTL DEF Spec

=============================================================================
