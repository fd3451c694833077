--------------------------- MODULE ResourceQueue ---------------------------
(***************************************************************************)
(* The claim queue of the Agent by itself (src/agent/resource_queue.py):   *)
(* operations ask for claims through slot or try_reserve, hold them for a  *)
(* while and release them; waiters may be cancelled; the semantics may be  *)
(* reconfigured while operations run.  Every method runs without an await, *)
(* so one action is one method; what interleaves are the operations, the   *)
(* timer and the reconfigurations.                                         *)
(***************************************************************************)
EXTENDS ClaimQueue

CONSTANTS
    Requests,          \* what may be asked for: [claims, bounded]
    Modes,             \* resource_semantics that may be configured
    MaxChanges         \* bound on the number of reconfigurations

ASSUME RequestsAssumption ==
    /\ \A r \in Requests : r.bounded \in BOOLEAN /\ r.claims \subseteq Claim
    /\ Modes \subseteq {"strict", "relaxed"} /\ Modes # {}
    /\ MaxChanges \in Nat

VARIABLES
    queue,      \* the ResourceQueue object
    changes,    \* reconfigurations so far
    running     \* history: the owners in front of a waiter when it was first overtaken

vars == <<queue, changes, running>>

----------------------------------------------------------------------------
Init ==
    /\ \E m \in Modes : queue = EmptyQueue(m = "relaxed")
    /\ changes = 0
    /\ running = [t \in Tokens |-> [set |-> FALSE, owners |-> {}]]

(* Who is overtaken in a step: a waiter that keeps waiting while an entry   *)
(* that arrived later, and conflicts with it, becomes an owner.             *)
OvertakenBy(w, g) ==
    /\ w \in Waiting(queue')
    /\ g \in queue'.active \ queue.active
    /\ w \in queue'.ahead[g]
    /\ Overlaps(queue'.claims[g], queue'.claims[w], queue'.relaxed)

Overtaken(w) == \E g \in queue'.active : OvertakenBy(w, g)

(* running[w].owners: the owners in front of w at the time it was first     *)
(* overtaken that have not released their claims since.                     *)
Remember ==
    running' = [w \in Tokens |->
        IF w \notin Waiting(queue') THEN [set |-> FALSE, owners |-> {}]
        ELSE IF running[w].set
             THEN [running[w] EXCEPT !.owners = @ \cap queue'.entries]
             ELSE IF Overtaken(w)
                  THEN [set |-> TRUE, owners |-> queue'.active \cap queue'.ahead[w]]
                  ELSE running[w]]

(* slot: enqueue and drain, under the condition.                            *)
Slot(t) ==
    /\ t \notin queue.entries
    /\ \E r \in Requests : queue' \in Drained(Enqueue(queue, t, r))
    /\ Remember
    /\ UNCHANGED changes

(* try_reserve: taken at once or not at all; it does not drain.             *)
TryReserve(t) ==
    /\ t \notin queue.entries
    /\ \E r \in Requests :
        LET asked == Enqueue(queue, t, r) IN
        /\ ~Blocked(asked, t)
        /\ queue' = Grant(asked, {t})
    /\ Remember
    /\ UNCHANGED changes

(* The body of slot ends, or its task is cancelled: release.                *)
Released(q, t) == Drained(Discard(q, t))

Finish(t) ==
    /\ t \in queue.active
    /\ queue' \in Released(queue, t)
    /\ Remember
    /\ UNCHANGED changes

Cancel(t) ==
    /\ t \in Waiting(queue)
    /\ queue' \in Released(queue, t)
    /\ Remember
    /\ UNCHANGED changes

Reconfigure(m) ==
    /\ changes < MaxChanges
    /\ queue' \in Drained(Reindexed(queue, m = "relaxed"))
    /\ changes' = changes + 1
    /\ running' = [t \in Tokens |-> [set |-> FALSE, owners |-> {}]]

(* An owner has held its claims for bypass_seconds.                         *)
Age(t) ==
    /\ t \in queue.active \ queue.long
    /\ queue' = [queue EXCEPT !.long = @ \cup {t}]
    /\ UNCHANGED <<changes, running>>

(* _wake_bypass.                                                            *)
TimerFires ==
    /\ queue.timer
    /\ queue' \in Drained([queue EXCEPT !.timer = FALSE])
    /\ Remember
    /\ UNCHANGED changes

Next ==
    \/ \E t \in Tokens :
        \/ Slot(t) \/ TryReserve(t)
        \/ Finish(t) \/ Cancel(t)
        \/ Age(t)
    \/ \E m \in Modes : Reconfigure(m)
    \/ TimerFires

Spec == Init /\ [][Next]_vars

----------------------------------------------------------------------------
TypeOK ==
    /\ queue \in [entries : SUBSET Tokens,
                  ahead : [Tokens -> SUBSET Tokens],
                  claims : [Tokens -> SUBSET Claim],
                  bounded : [Tokens -> BOOLEAN],
                  active : SUBSET Tokens,
                  deps : [Tokens -> SUBSET Tokens],
                  dependents : [Tokens -> SUBSET Tokens],
                  gated : SUBSET Tokens,
                  gate : [Tokens -> SUBSET Tokens],
                  live : [Tokens -> SUBSET Tokens],
                  long : SUBSET Tokens,
                  relaxed : BOOLEAN,
                  timer : BOOLEAN]
    /\ changes \in 0..MaxChanges
    /\ running \in [Tokens -> [set : BOOLEAN, owners : SUBSET Tokens]]
    /\ queue.active \subseteq queue.entries
    /\ queue.long \subseteq queue.active

(* Two owners never hold claims that conflict under the relaxed matrix,     *)
(* whatever was granted by a turn, an overtake, a reservation or a          *)
(* reconfiguration; and never under the strict one in a queue that has      *)
(* always been strict (resource_queue.py:191-198).                          *)
ExclusiveOwners ==
    \A a, b \in queue.active :
        a # b =>
        /\ ~Overlaps(queue.claims[a], queue.claims[b], TRUE)
        /\ (changes = 0 /\ ~queue.relaxed)
              => ~Overlaps(queue.claims[a], queue.claims[b], FALSE)

(* The cached index says what a fresh comparison would: a waiter depends on *)
(* exactly the entries in front of it that conflict with it now, and the    *)
(* reverse index agrees (resource_queue.py:96-123, 258-268).                *)
IndexIsExact ==
    /\ \A t \in Waiting(queue) : queue.deps[t] = Preceding(queue, t, queue.ahead[t])
    /\ \A t \in Tokens \ Waiting(queue) : queue.deps[t] = {}
    /\ queue.dependents = Indexed(queue)

(* Read-your-writes.  Only a bounded file operation is ever granted in      *)
(* front of an earlier conflicting waiter, and under strict semantics only  *)
(* a pure file read, in front of claims of processes and never of a file    *)
(* write (resource_queue.py:149-189).                                       *)
OrderKept ==
    [][\A w, g \in Tokens : OvertakenBy(w, g) =>
          /\ queue'.bounded[g]
          /\ ~queue'.relaxed =>
               \A mine \in queue'.claims[g], other \in queue'.claims[w] :
                  /\ mine.holder = "file" /\ ~mine.write
                  /\ Conflicts(mine, other, FALSE) => other.holder = "process"]_vars

(* One generation.  A waiter may be overtaken again only while an owner     *)
(* that was in front of it at the first overtake still runs: operations may *)
(* pass a queue stuck behind a slow owner, and not the same queue behind    *)
(* every slow owner after it (resource_queue.py:183-188, 240-241).          *)
OneGeneration ==
    [][\A w \in Tokens :
          (changes' = changes /\ running[w].set /\ Overtaken(w))
             => running[w].owners # {}]_vars

(* Nobody sleeps on a free claim: a waiter that could be granted now has a  *)
(* timer coming (resource_queue.py:200-216, 302).                           *)
NoIdleWaiter ==
    \A t \in Waiting(queue) : ~Blocked(queue, t) => queue.timer

(* A file read that runs beside a process that writes the same files under  *)
(* relaxed semantics knows of it, in whichever order the two were granted   *)
(* (resource_queue.py:244-250; the result carries it, runner.py:885).       *)
OverlapDisclosed ==
    \A r, w \in queue.active :
        (r # w /\ ReadsLive(queue.claims[r], queue.claims[w])) => w \in queue.live[r]

=============================================================================
