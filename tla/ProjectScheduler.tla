-------------------------- MODULE ProjectScheduler --------------------------
(***************************************************************************)
(* Admission on the Agent: execution capacity and resource claims, granted *)
(* together (src/agent/scheduler.py over src/agent/resource_queue.py).     *)
(*                                                                         *)
(* A ticket names a project, a lane and perhaps a remote target; it may    *)
(* also have an entry in the claim queue.  It is granted only when both    *)
(* budgets allow it, in one step, and its coroutine resumes later.  A read *)
(* first takes a preflight ticket without claims and converts it in place  *)
(* (try_reserve).  Entries that need no capacity (project_slot) share the  *)
(* claim queue.                                                            *)
(*                                                                         *)
(* Methods run without an await on one event loop; in between, coroutines  *)
(* that were granted, refused or cancelled have not run yet.               *)
(***************************************************************************)
EXTENDS ClaimQueue

CONSTANTS
    Kinds,           \* tickets that may be asked for: [project, lane, target, joint, claims, bounded]
    Conversions,     \* tickets a preflight ticket may be converted into
    LocalRequests,   \* claims that project_slot may ask for: [claims, bounded]
    Modes,           \* resource semantics that may be configured: relaxed or not
    Limits,          \* values the adaptive capacity may take when memory is not critical
    MayPause,        \* whether memory may become critical
    ReadLimit, RemoteLimit, TargetLimit,
    ProjectLimit,    \* project_limits: the configured cap of each project
    MaxWaiting       \* the 1024 of the code

Lanes == {"execution", "read", "remote"}

ASSUME SchedulerAssumption ==
    /\ Limits \subseteq Nat \ {0} /\ Limits # {}
    /\ {ReadLimit, RemoteLimit, TargetLimit, MaxWaiting} \subseteq Nat \ {0}
    /\ Modes \subseteq BOOLEAN /\ Modes # {} /\ MayPause \in BOOLEAN
    /\ \A k \in Kinds \cup Conversions :
        /\ k.lane \in Lanes /\ ProjectLimit[k.project] \in Nat \ {0}
        /\ k.joint \in BOOLEAN
    /\ \A k \in Conversions : k.joint
    /\ \A k \in Kinds \cup Conversions \cup LocalRequests :
        k.claims \subseteq Claim /\ k.bounded \in BOOLEAN

VARIABLES
    queue,      \* the claim queue
    sched,      \* waiting, active, ticket and turn of the ProjectScheduler
    limit,      \* capacity.limit
    paused,     \* capacity.memory_paused
    closed,     \* the scheduler was closed
    notify,     \* a _notify_reservation_change task has not run yet
    pc          \* where each operation is

vars == <<queue, sched, limit, paused, closed, notify, pc>>
budget == <<limit, paused>>

(* "idle"; "local" has an entry of project_slot; "queued" awaits the event  *)
(* of its slot; "running" is in the body of its slot; "leaving" has ended,  *)
(* or has been refused or cancelled, and has not run its cleanup yet.       *)
Places == {"idle", "local", "queued", "running", "leaving"}

NoTicket == [project |-> "none", lane |-> "none", target |-> "none",
             claims |-> {}, bounded |-> FALSE, joint |-> FALSE]

----------------------------------------------------------------------------
Key(s, t) == <<s.ticket[t].lane, s.ticket[t].project>>

SmallestOf(a, b) == IF a <= b THEN a ELSE b
LargestOf(a, b)  == IF a >= b THEN a ELSE b

LaneLimit(lane, lim, pause) ==
    CASE lane = "execution" -> lim
      [] lane = "read"   -> IF pause THEN 1 ELSE ReadLimit
      [] lane = "remote" -> IF pause THEN 0 ELSE RemoteLimit

(* One slot of a lane is left for another project, even one that has not    *)
(* arrived yet.                                                             *)
ProjectCap(project, lim) == SmallestOf(ProjectLimit[project], LargestOf(1, lim - 1))

Running(s, lane) == {a \in s.active : s.ticket[a].lane = lane}
RunningOf(s, t)  == {a \in s.active : Key(s, a) = Key(s, t)}

(* _reason is None: neither the project, nor the remote target, nor the     *)
(* lane is at its limit.                                                    *)
HasRoom(s, t, lim, pause) ==
    LET k == s.ticket[t]
        here == LaneLimit(k.lane, lim, pause)
    IN /\ Cardinality(RunningOf(s, t)) < ProjectCap(k.project, here)
       /\ k.lane = "remote" =>
            Cardinality({a \in Running(s, "remote") : s.ticket[a].target = k.target}) < TargetLimit
       /\ Cardinality(Running(s, k.lane)) < here

HasClaims(s, t) == s.ticket[t].joint   \* t is in _resource_tokens

(* _selected: among the waiters that both budgets allow, the project with   *)
(* the fewest tickets running in the lane, then the one served longest ago  *)
(* (never counts as longest), then the oldest.                              *)
TurnOf(s, t) == Cardinality({p \in s.turn : p[2] = Key(s, t)})

Eligible(q, s, lim, pause) ==
    {i \in DOMAIN s.waiting :
        /\ HasClaims(s, s.waiting[i]) => ~Blocked(q, s.waiting[i])
        /\ HasRoom(s, s.waiting[i], lim, pause)}

Precedes(s, i, j) ==
    LET a == s.waiting[i]
        b == s.waiting[j]
        na == Cardinality(RunningOf(s, a))
        nb == Cardinality(RunningOf(s, b))
    IN \/ na < nb
       \/ na = nb /\ TurnOf(s, a) < TurnOf(s, b)
       \/ na = nb /\ TurnOf(s, a) = TurnOf(s, b) /\ i <= j

Selected(q, s, lim, pause) ==
    LET e == Eligible(q, s, lim, pause)
    IN {s.waiting[i] : i \in {i \in e : \A j \in e : Precedes(s, i, j)}}

(* turn has the keys served, as pairs: the first one no later than the      *)
(* second.                                                                  *)
TakesTurn(s, t) ==
    LET others == {p \in s.turn : Key(s, t) \notin {p[1], p[2]}}
    IN [s EXCEPT !.turn =
           others \cup {<<p[1], Key(s, t)>> : p \in others} \cup {<<Key(s, t), Key(s, t)>>}]

(* list.remove: the first t, if there is one.                               *)
Leave(line, t) ==
    IF \E i \in DOMAIN line : line[i] = t
    THEN RemoveAt(line, CHOOSE i \in DOMAIN line :
                            line[i] = t /\ \A j \in DOMAIN line : line[j] = t => i <= j)
    ELSE line

Admit(s, t) ==
    TakesTurn([s EXCEPT !.waiting = Leave(@, t), !.active = @ \cup {t}], t)

(* The listener of the claim queue: grant one selected ticket after the     *)
(* other, both budgets together, until none is selected.                    *)
GrantTicket(r, t) ==
    [queue |-> IF HasClaims(r.sched, t) THEN Grant(r.queue, {t}) ELSE r.queue,
     sched |-> Admit(r.sched, t)]

NextGrants(r, lim, pause) ==
    LET chosen == Selected(r.queue, r.sched, lim, pause)
    IN IF chosen = {} THEN {r} ELSE {GrantTicket(r, t) : t \in chosen}

GrantTickets(q, s, lim, pause) ==
    LET after[n \in 0..Len(s.waiting)] ==
            IF n = 0 THEN {[queue |-> q, sched |-> s]}
            ELSE UNION {NextGrants(r, lim, pause) : r \in after[n - 1]}
    IN after[Len(s.waiting)]

(* _drain_all: the entries of project_slot, then the tickets, then the      *)
(* bypass timer.  A closed scheduler grants no ticket.                      *)
Locals(places) == {t \in Tokens : places[t] = "local"}

Settlements(q, s, lim, pause, places, shut) ==
    UNION {IF shut THEN {[queue |-> r, sched |-> s]} ELSE GrantTickets(r, s, lim, pause) :
             r \in Passes(q, Locals(places))}

DrainAll(q, s, lim, pause, places, shut) ==
    \E start \in {[queue |-> q, sched |-> s]} :
    \E r \in Settlements(start.queue, start.sched, lim, pause, places, shut) :
        queue' = Scheduled(r.queue) /\ sched' = r.sched

----------------------------------------------------------------------------
Init ==
    /\ \E relaxed \in Modes : queue = EmptyQueue(relaxed)
    /\ sched = [waiting |-> <<>>, active |-> {}, turn |-> {},
                ticket |-> [t \in Tokens |-> NoTicket]]
    /\ limit \in Limits
    /\ paused = FALSE
    /\ closed = FALSE
    /\ notify = FALSE
    /\ pc = [t \in Tokens |-> "idle"]

AsRequest(k) == [claims |-> k.claims, bounded |-> k.bounded]
WithClaims(q, t, k) == IF k.joint THEN Enqueue(q, t, AsRequest(k)) ELSE q

(* slot, up to its await.                                                   *)
Slot(t, k) ==
    /\ pc[t] = "idle"
    /\ ~closed
    /\ Len(sched.waiting) < MaxWaiting
    /\ pc' = [pc EXCEPT ![t] = "queued"]
    /\ LET s == [sched EXCEPT !.waiting = Append(@, t), !.ticket[t] = k]
       IN DrainAll(WithClaims(queue, t, k), s, limit, paused, pc', closed)
    /\ UNCHANGED <<budget, closed, notify>>

(* The event of the slot is set and its coroutine resumes: a grant that was *)
(* followed by close is refused (AGENT_STOPPING).                           *)
Resume(t) ==
    /\ pc[t] = "queued"
    /\ t \in sched.active \/ closed
    /\ pc' = [pc EXCEPT ![t] = IF closed THEN "leaving" ELSE "running"]
    /\ UNCHANGED <<queue, sched, budget, closed, notify>>

(* The wait ends before the slot does: cancelled, past its deadline, or     *)
(* RESOURCE_BUSY.  The ticket may have been granted already, or be granted  *)
(* before the cleanup runs.                                                 *)
Abandon(t) ==
    /\ pc[t] = "queued"
    /\ pc' = [pc EXCEPT ![t] = "leaving"]
    /\ UNCHANGED <<queue, sched, budget, closed, notify>>

End(t) ==
    /\ pc[t] = "running"
    /\ pc' = [pc EXCEPT ![t] = "leaving"]
    /\ UNCHANGED <<queue, sched, budget, closed, notify>>

(* _release_owned.  A project with no ticket left forgets its turn.         *)
Without(s, t) ==
    LET rest == [s EXCEPT !.waiting = Leave(@, t), !.active = @ \ {t}]
        keys == {Key(rest, x) : x \in rest.active \cup ToSet(rest.waiting)}
    IN [rest EXCEPT !.turn = {p \in @ : p[1] \in keys /\ p[2] \in keys},
                    !.ticket[t] = NoTicket]

ClaimsLeftBehind(q, s, t) ==   \* mutant of FreeClaims: only owned claims are freed
    IF HasClaims(s, t) /\ t \in s.active THEN Discard(q, t) ELSE q
FreeClaims(q, s, t) == IF HasClaims(s, t) THEN Discard(q, t) ELSE q

SilentRelease(q, s, places) ==   \* mutant of AfterRelease: nobody is told
    queue' = q /\ sched' = s
AfterRelease(q, s, places) == DrainAll(q, s, limit, paused, places, closed)

Release(t) ==
    /\ pc[t] = "leaving"
    /\ pc' = [pc EXCEPT ![t] = "idle"]
    /\ AfterRelease(FreeClaims(queue, sched, t), Without(sched, t), pc')
    /\ UNCHANGED <<budget, closed, notify>>

(* try_reserve on the preflight ticket t holds: it competes as k, without   *)
(* its own slot, against everything that waits.  When it is not the one     *)
(* that would be selected nothing changes; when it is, other lanes may have *)
(* gained room and a task is started to drain them.                         *)
Competing(s, t, k) ==
    [s EXCEPT !.active = @ \ {t}, !.waiting = Append(@, t), !.ticket[t] = k]

TellsNobody == UNCHANGED notify   \* mutant of TellsOthers
TellsOthers == notify' = TRUE

Convert(t, k) ==
    /\ pc[t] = "running"
    /\ ~closed
    /\ Len(sched.waiting) < MaxWaiting
    /\ t \in sched.active /\ sched.ticket[t].lane = "read" /\ ~HasClaims(sched, t)
    /\ LET q == WithClaims(queue, t, k)
           s == Competing(sched, t, k)
       IN /\ t \in Selected(q, s, limit, paused)
          /\ queue' = Grant(q, {t})
          /\ sched' = Admit(s, t)
    /\ TellsOthers
    /\ UNCHANGED <<budget, closed, pc>>

Notified ==
    /\ notify
    /\ notify' = FALSE
    /\ DrainAll(queue, sched, limit, paused, pc, closed)
    /\ UNCHANGED <<budget, closed, pc>>

(* update_pressure, or a new configuration that moves the limit.            *)
Pressure(lim, pause) ==
    /\ <<lim, pause>> # <<limit, paused>>
    /\ limit' = lim
    /\ paused' = pause
    /\ DrainAll(queue, sched, lim, pause, pc, closed)
    /\ UNCHANGED <<closed, notify, pc>>

(* reconfigure: other resource semantics.                                   *)
Reconfigure(relaxed) ==
    /\ relaxed # queue.relaxed
    /\ DrainAll(Reindexed(queue, relaxed), sched, limit, paused, pc, closed)
    /\ UNCHANGED <<budget, closed, notify, pc>>

Close ==
    /\ ~closed
    /\ closed' = TRUE
    /\ DrainAll(queue, sched, limit, paused, pc, TRUE)
    /\ UNCHANGED <<budget, notify, pc>>

(* project_slot: claims without capacity.                                   *)
LocalSlot(t, r) ==
    /\ pc[t] = "idle"
    /\ pc' = [pc EXCEPT ![t] = "local"]
    /\ DrainAll(Enqueue(queue, t, r), sched, limit, paused, pc', closed)
    /\ UNCHANGED <<budget, closed, notify>>

LocalRelease(t) ==
    /\ pc[t] = "local"
    /\ pc' = [pc EXCEPT ![t] = "idle"]
    /\ AfterRelease(Discard(queue, t), sched, pc')
    /\ UNCHANGED <<budget, closed, notify>>

Age(t) ==
    /\ t \in queue.active \ queue.long
    /\ queue' = [queue EXCEPT !.long = @ \cup {t}]
    /\ UNCHANGED <<sched, budget, closed, notify, pc>>

TimerFires ==
    /\ queue.timer
    /\ DrainAll([queue EXCEPT !.timer = FALSE], sched, limit, paused, pc, closed)
    /\ UNCHANGED <<budget, closed, notify, pc>>

Arrival == \E t \in Tokens :
    \/ \E k \in Kinds : Slot(t, k)
    \/ \E r \in LocalRequests : LocalSlot(t, r)

Next ==
    \/ Arrival
    \/ \E t \in Tokens :
        \/ Resume(t) \/ Abandon(t) \/ End(t) \/ Release(t)
        \/ LocalRelease(t)
        \/ Age(t)
        \/ \E k \in Conversions : Convert(t, k)
    \/ Notified
    \/ \E lim \in Limits : Pressure(lim, FALSE)
    \/ MayPause /\ Pressure(0, TRUE)
    \/ \E relaxed \in Modes : Reconfigure(relaxed)
    \/ Close
    \/ TimerFires

Spec == Init /\ [][Next]_vars

(* The event loop runs what is ready, operations end, due timers fire.      *)
LocalEnds(t) == t \in queue.active /\ LocalRelease(t)

Fairness ==
    /\ WF_vars(Notified) /\ WF_vars(TimerFires)
    /\ \A t \in Tokens :
        WF_vars(Resume(t)) /\ WF_vars(End(t)) /\ WF_vars(Release(t)) /\ WF_vars(LocalEnds(t))

FairSpec == Spec /\ Fairness

----------------------------------------------------------------------------
TypeOK ==
    /\ sched.active \subseteq Tokens
    /\ ToSet(sched.waiting) \subseteq Tokens \ sched.active
    /\ \A t \in Tokens : sched.ticket[t] \in Kinds \cup Conversions \cup {NoTicket}
    /\ \A p \in sched.turn : <<p[1], p[1]>> \in sched.turn /\ <<p[2], p[2]>> \in sched.turn
    /\ queue.active \subseteq queue.entries
    /\ queue.entries \subseteq Tokens
    /\ limit \in Limits \cup {0}
    /\ {paused, closed, notify} \subseteq BOOLEAN
    /\ pc \in [Tokens -> Places]

(* Both budgets or none: a ticket with claims owns its claims exactly while *)
(* it owns its slot and waits for them exactly while it waits for its slot, *)
(* also when it was cancelled between the grant and its resumption, or      *)
(* converted; no body runs without both, and no claim outlives its ticket   *)
(* (scheduler.py:187-206, 283-291, 312-327, 367).                           *)
JointOwnership ==
    \A t \in Tokens :
        /\ HasClaims(sched, t) =>
            /\ (t \in sched.active) <=> (t \in queue.active)
            /\ (t \in ToSet(sched.waiting)) <=> (t \in Waiting(queue))
        /\ pc[t] = "running" => t \in sched.active
        /\ t \in queue.entries => HasClaims(sched, t) \/ pc[t] = "local"

(* No lost wake-up: between two steps nobody waits for what is free, unless *)
(* the timer or the task of a conversion is about to drain                  *)
(* (scheduler.py:219-310).                                                  *)
NobodyForgotten ==
    (~closed /\ ~notify /\ ~queue.timer) =>
        /\ Eligible(queue, sched, limit, paused) = {}
        /\ \A t \in Locals(pc) \cap Waiting(queue) : Blocked(queue, t)

(* Once no more operations arrive, each one that waits is admitted or gives *)
(* up: no ticket waits for a slot whose holder waits for its claims.        *)
Queued(t) == pc[t] = "queued" \/ (pc[t] = "local" /\ t \in Waiting(queue))

NoGridlock ==
    <>[][~Arrival]_vars => \A t \in Tokens : Queued(t) ~> ~Queued(t)

(* Waiting projects take turns (shared/scheduler_config.py:12): a ticket    *)
(* that waits is admitted, or gives up, as long as tickets end.             *)
ProjectsRotate == \A t \in Tokens : (pc[t] = "queued") ~> (pc[t] # "queued")

=============================================================================
