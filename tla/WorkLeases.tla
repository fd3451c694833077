----------------------------- MODULE WorkLeases -----------------------------
(***************************************************************************)
(* Work that several chat agents share under a goal an owner approved      *)
(* (class Coordination in src/hub/collaboration/coordination.py, with the  *)
(* two other ways back into the queue: resume in room_runtime.py and retry *)
(* in delegation.py).                                                      *)
(*                                                                         *)
(* One goal.  A participant claims an item for the time of a lease, admits *)
(* durable operations under it, and reports a result; it keeps its fencing *)
(* token and may come back with it at any later time.  Each handler is one *)
(* transaction of the Hub, so what interleaves is the order of requests,   *)
(* the clock, the maintenance, and the operations as the Agents run them.  *)
(*                                                                         *)
(* Fences are compared with the fence of the last claim only, so an item   *)
(* keeps how far its fence has moved since then: 0, 1, or 2 for further.   *)
(***************************************************************************)
EXTENDS Naturals

CONSTANTS
    Items,       \* max_work_items work item numbers
    Ops,         \* max_steps operation numbers
    MaxAttempts, \* max_attempts
    LeaseTicks,  \* lease_seconds
    Duration,    \* duration_seconds of an approval
    None

VARIABLES
    goal,        \* [state, approval, latest, left]
    item,        \* coordination_work: a record or None, by number
    op,          \* operations and coordination_operations: a record or None
    notice,      \* items announced to their assignee at their current version
    standing     \* who still has what the approval takes: all participants and the
                 \* owner, the owner and some of the participants, or not the owner

leaseVars == <<goal, item, op, notice, standing>>

GoalStates == {"proposed", "active", "paused", "cancelled", "expired"}
Held       == {"leased", "running"}
Stoppable  == Held \cup {"queued"}
OpDone     == {"succeeded", "failed", "cancelled"}

ItemStates == Stoppable \cup {"blocked", "succeeded", "failed"}
Reasons    == {"", "STOPPED", "GOAL_PAUSE", "LEASE_EXPIRED"}
Roles      == {"required", "exploratory"}
Standings  == {"all", "some", "none"}

(* The rows of an item and of an operation; behind is how far the fence of *)
(* an item has moved.                                                      *)
Work == [approval : Nat, state : ItemStates, reason : Reasons, attempt : Nat, behind : 0..2,
         lease : Nat, deps : SUBSET Items, result : BOOLEAN]
Operation == [item : Items, attempt : Nat, role : Roles,
              covers : Ops \cup {None}, state : {"queued", "running"} \cup OpDone]

ASSUME LeasesAssumption ==
    /\ {MaxAttempts, LeaseTicks, Duration} \subseteq Nat
    /\ None \notin Work \cup Operation

Used == {i \in Items : item[i] # None}
Open(i, states) == item[i] # None /\ item[i].state \in states

OpsOf(i)     == {o \in Ops : op[o] # None /\ op[o].item = i}
OpsOfGoal    == {o \in Ops : op[o] # None}
Pending(i)   == \E o \in OpsOf(i) : op[o].state \notin OpDone
DepsReady(items, i) == \A d \in items[i].deps : items[d].state = "succeeded"

Init ==
    /\ goal = [state |-> "proposed", approval |-> 0, latest |-> 0, left |-> 0]
    /\ item = [i \in Items |-> None]
    /\ op = [o \in Ops |-> None]
    /\ notice = {}
    /\ standing = "all"

(* authorize(active=True): the owner and the caller have what it takes.  A *)
(* participant who lacks it makes no request; the others go on.            *)
Live == goal.state = "active" /\ goal.approval # 0 /\ goal.left > 0 /\ standing # "none"

Further(behind) == IF behind = 2 THEN 2 ELSE behind + 1

(* emit_work: once the dependencies are there; a changed version makes an  *)
(* earlier notice obsolete.                                                *)
Announced(items, changed) ==
    (notice \ changed) \cup {i \in changed : DepsReady(items, i)}

----------------------------------------------------------------------------
(* stop_work: no item goes on, and no operation that can still be stopped. *)
(* Of the reasons only the two that something depends on are told apart.   *)
Stopped(reason) ==
    [i \in Items |->
        IF Open(i, Stoppable)
        THEN [item[i] EXCEPT !.state = "blocked", !.reason = reason, !.lease = 0,
                             !.behind = Further(@)]
        ELSE item[i]]

StopOps ==
    op' = [o \in Ops |-> IF op[o] # None /\ op[o].state = "queued"
                         THEN [op[o] EXCEPT !.state = "cancelled"] ELSE op[o]]

StopWork(reason) ==
    /\ item' = Stopped(reason)
    /\ StopOps
    /\ notice' = notice \ {i \in Items : Open(i, Stoppable)}

Update ==
    /\ StopWork("STOPPED")
    /\ goal' = [goal EXCEPT !.state = "proposed", !.approval = 0, !.left = 0]
    /\ UNCHANGED standing

NewItem(approval, deps) ==
    [approval |-> approval, state |-> "queued", reason |-> "", attempt |-> 0, behind |-> 0,
     lease |-> 0, deps |-> deps, result |-> FALSE]

(* approve: the old work stops, a coordinator's item starts the new.       *)
Approve ==
    /\ goal.state # "cancelled" /\ standing = "all"
    /\ \E kickoff \in Items \ Used :
        /\ item' = [Stopped("STOPPED") EXCEPT
                        ![kickoff] = NewItem(goal.latest + 1, {})]
        /\ notice' = (notice \ {i \in Items : Open(i, Stoppable)}) \cup {kickoff}
    /\ StopOps
    /\ goal' = [state |-> "active", approval |-> goal.latest + 1,
                latest |-> goal.latest + 1, left |-> Duration]
    /\ UNCHANGED standing

Control(state) ==
    /\ goal.state # state
    /\ StopWork(IF state = "paused" THEN "GOAL_PAUSE" ELSE "STOPPED")
    /\ goal' = [goal EXCEPT !.state = state]
    /\ UNCHANGED standing

Requeued(i, reason) ==
    [item[i] EXCEPT !.state = "queued", !.reason = reason, !.result = FALSE, !.lease = 0,
                    !.behind = Further(@)]

(* room_runtime, resume: only a goal that never admitted an operation.     *)
ResumeAll ==
    {i \in Items : Open(i, {"blocked"}) /\ item[i].reason = "GOAL_PAUSE"}

Resume ==
    /\ goal.state = "paused" /\ goal.approval # 0 /\ goal.left > 0 /\ standing # "none"
    /\ OpsOfGoal = {}
    /\ goal' = [goal EXCEPT !.state = "active"]
    /\ item' = [i \in Items |-> IF i \in ResumeAll
                    THEN [Requeued(i, "") EXCEPT !.result = item[i].result] ELSE item[i]]
    /\ notice' = Announced(item', ResumeAll)
    /\ UNCHANGED <<op, standing>>

(* delegation, remind with retry_blocked: items that never admitted one.   *)
Retryable(i) ==
    /\ Open(i, {"blocked"}) /\ item[i].approval = goal.approval
    /\ OpsOf(i) = {} /\ item[i].attempt < MaxAttempts
    /\ OpsOfGoal # Ops
    /\ DepsReady(item, i)

Retry ==
    /\ Live
    /\ LET retried == {i \in Items : Retryable(i)} IN
        /\ retried # {}
        /\ item' = [i \in Items |-> IF i \in retried THEN Requeued(i, "") ELSE item[i]]
        /\ notice' = Announced(item', retried)
    /\ UNCHANGED <<goal, op, standing>>

----------------------------------------------------------------------------
Create(i, deps) ==
    /\ Live /\ i \notin Used
    /\ deps \subseteq {d \in Used : item[d].approval = goal.approval}
    /\ item' = [item EXCEPT ![i] = NewItem(goal.approval, deps)]
    /\ notice' = Announced(item', {i})
    /\ UNCHANGED <<goal, op, standing>>

(* The version and the assignee change, the state does not.                *)
AssignQuietly(i) ==   \* mutant of Assign: nobody tells the new assignee
    /\ Live /\ Open(i, {"queued"}) /\ item[i].approval = goal.approval
    /\ notice' = notice \ {i}
    /\ UNCHANGED <<goal, item, op, standing>>

Assign(i) ==
    /\ Live /\ Open(i, {"queued"}) /\ item[i].approval = goal.approval
    /\ notice' = Announced(item, {i})
    /\ UNCHANGED <<goal, item, op, standing>>

LeaseEnd == IF goal.left < LeaseTicks THEN goal.left ELSE LeaseTicks

Claim(i) ==
    /\ Live /\ Open(i, {"queued"}) /\ item[i].approval = goal.approval
    /\ item[i].attempt < MaxAttempts
    /\ DepsReady(item, i)
    /\ ~Pending(i)
    /\ item' = [item EXCEPT ![i].state = "leased", ![i].attempt = @ + 1, ![i].behind = 0,
                            ![i].lease = LeaseEnd, ![i].reason = ""]
    /\ notice' = notice \ {i}
    /\ UNCHANGED <<goal, op, standing>>

(* lease: the attempt and the token are the item's, and time is left.      *)
HoldsLease(i, attempt) ==
    /\ Open(i, Held) /\ item[i].approval = goal.approval
    /\ item[i].attempt = attempt /\ item[i].behind = 0
    /\ item[i].lease > 0

(* heartbeat and progress.                                                 *)
Heartbeat(i, attempt) ==
    /\ Live /\ HoldsLease(i, attempt)
    /\ item' = [item EXCEPT ![i].lease = LeaseEnd]
    /\ UNCHANGED <<goal, op, notice, standing>>

(* execute: a read of either role may supersede an exploratory one that    *)
(* failed in this attempt.                                                 *)
Execute(i, attempt, role, covers) ==
    /\ Live /\ HoldsLease(i, attempt)
    /\ covers # None =>
        /\ op[covers] # None /\ op[covers].item = i /\ op[covers].attempt = attempt
        /\ op[covers].role = "exploratory" /\ op[covers].state = "failed"
    /\ \E o \in Ops :
        /\ op[o] = None
        /\ op' = [op EXCEPT ![o] = [item |-> i, attempt |-> attempt, role |-> role,
                                    covers |-> covers, state |-> "queued"]]
    /\ item' = [item EXCEPT ![i].state = "running"]
    /\ UNCHANGED <<goal, notice, standing>>

(* recovered_explorations: what a success supersedes, and what that does:  *)
(* the operations in every set of which both are true.                     *)
MadeGood(rows, S) ==
    /\ {o \in rows : op[o].state = "succeeded"} \subseteq S
    /\ \A c \in S, o \in rows :
        (op[c].covers = o /\ op[o].role = "exploratory" /\ op[o].state = "failed") => o \in S

Recovered(rows) == {o \in rows : \A S \in SUBSET rows : MadeGood(rows, S) => o \in S}

(* The operations that the result has to list.                             *)
Listed(i, attempt) == {o \in OpsOf(i) : op[o].attempt = attempt}

Reportable(i, attempt, outcome) ==
    /\ ~Pending(i)
    /\ outcome = "succeeded" => Recovered(Listed(i, attempt)) = Listed(i, attempt)
    /\ DepsReady(item, i)

(* An item that succeeds announces those that waited for it.               *)
Finished(i, outcome) ==
    /\ item' = [item EXCEPT ![i].state = outcome, ![i].result = TRUE, ![i].lease = 0]
    /\ notice' = IF outcome # "succeeded" THEN notice
                 ELSE Announced(item', {d \in Used : Open(d, {"queued"}) /\ i \in item[d].deps
                                                     /\ item[d].approval = goal.approval})
    /\ UNCHANGED <<goal, op, standing>>

ResultEarly(i, attempt, outcome) ==   \* mutant of Result: does not wait for the operations
    /\ Live /\ HoldsLease(i, attempt)
    /\ DepsReady(item, i)
    /\ Finished(i, outcome)

Result(i, attempt, outcome) ==
    /\ Live /\ HoldsLease(i, attempt)
    /\ Reportable(i, attempt, outcome)
    /\ Finished(i, outcome)

(* archive_result: the attempt that expired last, and no later change.     *)
Archive(i, attempt, outcome) ==
    /\ Live
    /\ Open(i, {"blocked"}) /\ item[i].approval = goal.approval
    /\ item[i].reason = "LEASE_EXPIRED" /\ ~item[i].result
    /\ item[i].attempt = attempt /\ item[i].behind = 1
    /\ Listed(i, attempt) # {}
    /\ Reportable(i, attempt, outcome)
    /\ Finished(i, outcome)

----------------------------------------------------------------------------
(* Of the operations, what the runtime and the Agents make of them.  The   *)
(* lease is checked again when one is about to be delivered.               *)
Denied(o) == ~(Live /\ HoldsLease(op[o].item, op[o].attempt))

Start(o) ==
    /\ op[o] # None /\ op[o].state = "queued" /\ ~Denied(o)
    /\ op' = [op EXCEPT ![o].state = "running"]
    /\ UNCHANGED <<goal, item, notice, standing>>

Ends(o, state) ==
    /\ op[o] # None
    /\ op[o].state = "running" \/ (op[o].state = "queued" /\ state = "failed")
    /\ op' = [op EXCEPT ![o].state = state]
    /\ UNCHANGED <<goal, item, notice, standing>>

(* reconcile, for a goal that is active: one participant who lacks what it *)
(* takes pauses the goal, before any lease is looked at.                   *)
Expired(i) == Open(i, Held) /\ item[i].lease = 0

AfterExpiryByPending(i) ==   \* mutant of AfterExpiry: only looks at pending operations
    IF Pending(i) \/ item[i].attempt = MaxAttempts THEN "blocked" ELSE "queued"

AfterExpiry(i) ==
    IF OpsOf(i) # {} \/ item[i].attempt = MaxAttempts THEN "blocked" ELSE "queued"

ReconcileLeases ==
    /\ goal.state = "active" /\ goal.left > 0 /\ standing = "all"
    /\ LET ended == {i \in Items : Expired(i)} IN
        /\ ended # {}
        /\ item' = [i \in Items |->
                        IF i \in ended
                        THEN [item[i] EXCEPT !.state = AfterExpiry(i), !.lease = 0,
                                  !.reason = "LEASE_EXPIRED", !.behind = Further(@)]
                        ELSE item[i]]
        /\ notice' = Announced(item', {i \in ended : AfterExpiry(i) = "queued"})
    /\ UNCHANGED <<goal, op, standing>>

ReconcileGoal ==
    /\ goal.state = "active"
    /\ \/ goal.left = 0 /\ goal' = [goal EXCEPT !.state = "expired"]
       \/ goal.left > 0 /\ standing # "all" /\ goal' = [goal EXCEPT !.state = "paused"]
    /\ StopWork("STOPPED")
    /\ UNCHANGED standing

Tick ==
    /\ goal' = [goal EXCEPT !.left = IF @ = 0 THEN 0 ELSE @ - 1]
    /\ item' = [i \in Items |-> IF Open(i, Held) /\ item[i].lease > 0
                                THEN [item[i] EXCEPT !.lease = @ - 1] ELSE item[i]]
    /\ <<goal', item'>> # <<goal, item>>
    /\ UNCHANGED <<op, notice, standing>>

(* The owner or a participant loses, or gets back, what it needs.          *)
StandingChanges ==
    /\ standing' \in Standings \ {standing}
    /\ UNCHANGED <<goal, item, op, notice>>

Requests ==
    \/ Update \/ Approve \/ Resume \/ Retry
    \/ \E s \in {"paused", "cancelled"} : Control(s)
    \/ \E i \in Items :
        \/ Assign(i) \/ Claim(i)
        \/ \E deps \in SUBSET Items : Create(i, deps)
        \/ \E n \in 1..MaxAttempts :
            \/ Heartbeat(i, n)
            \/ \E role \in Roles, c \in Ops \cup {None} : Execute(i, n, role, c)
            \/ \E s \in {"succeeded", "failed", "blocked"} : Result(i, n, s) \/ Archive(i, n, s)

Next ==
    \/ Requests
    \/ ReconcileLeases \/ ReconcileGoal
    \/ \E o \in Ops : Start(o) \/ \E s \in OpDone : Ends(o, s)
    \/ Tick \/ StandingChanges

Spec == Init /\ [][Next]_leaseVars

----------------------------------------------------------------------------
(* Work that has admitted an operation is never attempted a second time,   *)
(* along any of the ways back into the queue: expiry, resume, retry and    *)
(* reassignment; so no effect is ever repeated under a new attempt         *)
(* (coordination.py:626-628, 1069-1076).                                   *)
EffectsOnce == \A o \in OpsOfGoal : op[o].attempt = item[op[o].item].attempt

(* What is reported as succeeded is true and stays true: its operations    *)
(* have all ended, the required ones well, the explorations well or made   *)
(* good by a later one, and what it was built on has succeeded too         *)
(* (coordination.py:889-932).                                              *)
SuccessIsTrue ==
    \A i \in Items :
        (Open(i, {"succeeded"})) =>
            /\ DepsReady(item, i)
            /\ \A o \in OpsOf(i) : op[o].state # "succeeded" =>
                /\ op[o].role = "exploratory" /\ op[o].state = "failed"
                /\ \E c \in OpsOf(i) : op[c].covers = o

(* Nobody polls for work, so no item that can be claimed goes unannounced: *)
(* its assignee has been sent a notice of its present version, whatever    *)
(* made it claimable (coordination.py:337, 579, 601, 939-943, 1075).       *)
NoSilentWork ==
    \A i \in Items :
        (/\ Live /\ Open(i, {"queued"})
         /\ item[i].approval = goal.approval /\ DepsReady(item, i)) => i \in notice

=============================================================================
