------------------------ MODULE ResourceQueueProofs ------------------------
(***************************************************************************)
(* The claim queue keeps its promises whatever is asked for, by however    *)
(* many operations: owners are exclusive, the cached index is exact,       *)
(* overlaps are disclosed, nobody sleeps on a free claim, and overtaking   *)
(* is bounded and orderly.                                                 *)
(*                                                                         *)
(* ClaimQueueProofs has what the operators of the queue keep by            *)
(* themselves.  Here is what relates the queue to its past: the gates to   *)
(* the owners remembered at the first overtake, and the timer to the       *)
(* owners that may still become long.                                      *)
(***************************************************************************)
EXTENDS ResourceQueue, ClaimQueueProofs

----------------------------------------------------------------------------
LEMMA RequestsAsked == \A r \in Requests : IsRequest(r)
BY RequestsAssumption DEF IsRequest

(* The invariant of the specification.                                      *)

Strict == changes = 0 /\ ~queue.relaxed

(* A waiter that was overtaken is gated, and the gate lets nobody else pass *)
(* it than the owners that were in front of it then.                        *)
History ==
    /\ running \in [Tokens -> [set : BOOLEAN, owners : SUBSET Tokens]]
    /\ \A w \in Tokens : running[w].set =>
          /\ w \in Waiting(queue) /\ w \in queue.gated
          /\ queue.gate[w] \subseteq running[w].owners

(* The timer comes for every owner that may become long in front of a       *)
(* waiter: an owner granted by try_reserve came after all of them.          *)
TimerComes ==
    \A w \in Waiting(queue), o \in queue.active \ queue.long :
        o \in queue.ahead[w] => queue.timer

Inv ==
    /\ changes \in 0 .. MaxChanges
    /\ Sound(queue, Strict)
    /\ History
    /\ TimerComes
    /\ NoIdleWaiter

(* What a handler leaves of the owners and of the gates before it grants.   *)
Base(q) ==
    /\ q.active \subseteq queue.active
    /\ q.relaxed = queue.relaxed
    /\ \A w \in q.entries \cap queue.entries :
          w \in queue.gated => w \in q.gated /\ q.gate[w] \subseteq queue.gate[w]

LEMMA BaseEnqueue ==
    ASSUME NEW t, NEW request, NEW q, Enqueued(queue, t, request, q)
    PROVE  Base(q)
BY DEF Enqueued, Base

LEMMA BaseDiscard ==
    ASSUME NEW t, Shape(queue), NEW q, Discarded(queue, t, q)
    PROVE  Base(q)
<1>1. /\ q.entries = queue.entries \ {t} /\ q.active = queue.active \ {t}
      /\ q.gated = queue.gated \ {t} /\ q.relaxed = queue.relaxed
    BY DEF Discarded
<1>2. \A x \in Tokens : q.gate[x] = IF x = t THEN {} ELSE queue.gate[x] \ {t}
    BY DEF Discarded
<1>3. queue.entries \subseteq Tokens
    BY DEF Shape, QueueType
<1> QED BY <1>1, <1>2, <1>3 DEF Base

(* Who is overtaken was in front, and the one that overtakes might.         *)
LEMMA OvertakenWasBehind ==
    ASSUME NEW q, NEW strict \in BOOLEAN, Sound(q, strict), NEW G, Served(q, G, queue'),
           q.active \subseteq queue.active,
           NEW w \in Tokens, NEW g \in Tokens, OvertakenBy(w, g)
    PROVE  /\ g \in G /\ w \in q.deps[g] /\ w \in Waiting(q) \ G
           /\ MayOvertake(q, g)
           /\ queue'.claims = q.claims /\ queue'.relaxed = q.relaxed
           /\ queue'.bounded = q.bounded
<1>1. /\ queue'.active = q.active \cup G /\ queue'.ahead = q.ahead /\ queue'.entries = q.entries
      /\ queue'.claims = q.claims /\ queue'.relaxed = q.relaxed /\ queue'.bounded = q.bounded
    BY DEF Served, Granted, Rescheduled
<1>2. g \in G /\ w \in q.ahead[g] /\ Overlaps(q.claims[g], q.claims[w], q.relaxed)
    BY <1>1 DEF OvertakenBy
<1>3. g \in Waiting(q)
    BY <1>2 DEF Served, Grantable
<1>4. w \in q.deps[g]
    BY <1>2, <1>3 DEF Sound, Index, Preceding
<1>5. w \in Waiting(q) \ G
    BY <1>1 DEF OvertakenBy, Waiting
<1> QED BY <1>1, <1>2, <1>4, <1>5 DEF Served

(* History is kept by what is remembered of a step.                         *)
LEMMA HistoryKept ==
    ASSUME History, NEW strict \in BOOLEAN, NEW q, Sound(q, strict), Base(q),
           NEW G, Served(q, G, queue'), Sound(queue', strict), Remember
    PROVE  History'
<1>1. queue'.active \subseteq Tokens /\ queue'.entries \subseteq Tokens
    BY DEF Sound, Shape, QueueType
<1>2. running' \in [Tokens -> [set : BOOLEAN, owners : SUBSET Tokens]]
  <2>1. \A w \in Tokens : [running[w] EXCEPT !.owners = @ \cap queue'.entries]
                             \in [set : BOOLEAN, owners : SUBSET Tokens]
      BY <1>1 DEF History
  <2>2. \A w \in Tokens : running[w] \in [set : BOOLEAN, owners : SUBSET Tokens]
      BY DEF History
  <2>3. \A w \in Tokens : running'[w] \in [set : BOOLEAN, owners : SUBSET Tokens]
      BY <1>1, <2>1, <2>2 DEF Remember
  <2> QED BY <2>3 DEF Remember
<1>3. /\ queue'.entries = q.entries /\ queue'.gated = q.gated \cup Passed(q, G)
      /\ queue'.active = q.active \cup G
      /\ \A t \in Tokens : queue'.gate[t] = GateAfter(q, G, t)
    BY DEF Served, Granted, Rescheduled
<1>4. ASSUME NEW w \in Tokens, running'[w].set
      PROVE  /\ w \in Waiting(queue') /\ w \in queue'.gated
             /\ queue'.gate[w] \subseteq running'[w].owners
  <2>1. w \in Waiting(queue') /\ queue'.gate[w] \subseteq queue'.active \cap queue'.ahead[w]
      BY <1>4 DEF Remember, Sound, Gates
  <2>2. CASE running[w].set
    <3>1. running'[w].owners = running[w].owners \cap queue'.entries
      <4>1. running'[w] = [running[w] EXCEPT !.owners = @ \cap queue'.entries]
          BY <2>1, <2>2 DEF Remember
      <4> QED BY <4>1 DEF History
    <3>2. w \in queue.gated /\ queue.gate[w] \subseteq running[w].owners /\ w \in queue.entries
        BY <2>2 DEF History, Waiting
    <3>3. w \in q.entries
        BY <1>3, <2>1 DEF Waiting
    <3>4. w \in q.gated /\ q.gate[w] \subseteq running[w].owners
        BY <3>2, <3>3 DEF Base
    <3>5. w \in queue'.gated /\ queue'.gate[w] = q.gate[w]
        BY <1>3, <3>4 DEF GateAfter
    <3>6. queue'.active \subseteq queue'.entries
        BY DEF Sound, Shape
    <3> QED BY <2>1, <3>1, <3>4, <3>5, <3>6
  <2>3. CASE ~running[w].set
    <3>1. Overtaken(w) /\ running'[w].owners = queue'.active \cap queue'.ahead[w]
        BY <1>4, <2>1, <2>3 DEF Remember
    <3>2. PICK g \in queue'.active : OvertakenBy(w, g)
        BY <3>1 DEF Overtaken
    <3>3. g \in G /\ w \in q.deps[g]
        BY <1>1, <3>2, OvertakenWasBehind DEF Base
    <3>4. w \in queue'.gated
        BY <1>3, <3>3 DEF Passed
    <3> QED BY <2>1, <3>1, <3>4
  <2> QED BY <2>2, <2>3
<1> QED BY <1>2, <1>4 DEF History

(* Nobody is overtaken once the owners it was overtaken behind have ended.  *)
LEMMA GatesHold ==
    ASSUME History, NEW strict \in BOOLEAN, NEW q, Sound(q, strict), Base(q),
           NEW G, Served(q, G, queue'), Sound(queue', strict),
           NEW w \in Tokens, running[w].set, Overtaken(w)
    PROVE  running[w].owners # {}
<1>1. queue'.active \subseteq Tokens
    BY DEF Sound, Shape, QueueType
<1>2. PICK g \in queue'.active : OvertakenBy(w, g)
    BY DEF Overtaken
<1>3. w \in q.deps[g] /\ w \in Waiting(q) /\ MayOvertake(q, g)
    BY <1>1, <1>2, OvertakenWasBehind DEF Base
<1>4. w \in queue.gated /\ queue.gate[w] \subseteq running[w].owners /\ w \in queue.entries
    BY DEF History, Waiting
<1>5. w \in q.gated /\ q.gate[w] \subseteq queue.gate[w]
    BY <1>3, <1>4 DEF Base, Waiting
<1>6. q.gate[w] # {}
    BY <1>3, <1>5 DEF MayOvertake
<1> QED BY <1>4, <1>5, <1>6

(* Only a bounded operation overtakes, and a pure read when matching is     *)
(* strict.                                                                  *)
Orderly(w, g) ==
    /\ queue'.bounded[g]
    /\ ~queue'.relaxed =>
         \A mine \in queue'.claims[g], other \in queue'.claims[w] :
            /\ mine.holder = "file" /\ ~mine.write
            /\ Conflicts(mine, other, FALSE) => other.holder = "process"

LEMMA OvertakesInOrder ==
    ASSUME NEW strict \in BOOLEAN, NEW q, Sound(q, strict), q.active \subseteq queue.active,
           NEW G, Served(q, G, queue'), NEW w \in Tokens, NEW g \in Tokens, OvertakenBy(w, g)
    PROVE  Orderly(w, g)
<1>1. /\ w \in q.deps[g] /\ MayOvertake(q, g)
      /\ queue'.claims = q.claims /\ queue'.relaxed = q.relaxed /\ queue'.bounded = q.bounded
    BY OvertakenWasBehind
<1>2. q.bounded[g] /\ (q.relaxed \/ StrictBypassAllowed(q, g))
    BY <1>1 DEF MayOvertake
<1> QED BY <1>1, <1>2 DEF Orderly, StrictBypassAllowed

(* A step without an overtake is orderly too.                               *)
LEMMA QuietIsOrderly ==
    ASSUME queue'.active \subseteq queue.active
    PROVE  \A w, g \in Tokens : ~OvertakenBy(w, g)
BY DEF OvertakenBy

(* After a drain nobody is idle, and the timer is armed.                    *)
LEMMA DrainedIsQuiet ==
    ASSUME NEW strict \in BOOLEAN, NEW q, Sound(q, strict), queue' \in Drained(q)
    PROVE  /\ \E G : Served(q, G, queue')
           /\ Sound(queue', strict)
           /\ TimerComes' /\ NoIdleWaiter'
<1>1. /\ \E G : Served(q, G, queue')
      /\ Sound(queue', strict)
      /\ Armed(queue')
      /\ \A t \in Waiting(queue') : Blocked(queue', t)
    BY DrainServes
<1>2. TimerComes'
    BY <1>1 DEF TimerComes, Armed
<1>3. NoIdleWaiter'
    BY <1>1 DEF NoIdleWaiter
<1> QED BY <1>1, <1>2, <1>3

----------------------------------------------------------------------------
(* One step of the queue.                                                   *)

(* The handler left q of the queue, and then granted what it could.         *)
Serving ==
    \E q, G : /\ Sound(q, Strict) /\ Base(q)
              /\ Served(q, G, queue') /\ Sound(queue', Strict)

Typical == Strict \in BOOLEAN /\ queue.relaxed \in BOOLEAN /\ queue.active \subseteq queue.entries

LEMMA InvTypical ==
    ASSUME Inv
    PROVE  Typical
BY DEF Inv, Typical, Strict, Sound, Shape, QueueType

LEMMA DrainServing ==
    ASSUME NEW q, Strict \in BOOLEAN, Sound(q, Strict), Base(q), queue' \in Drained(q)
    PROVE  Serving /\ TimerComes' /\ NoIdleWaiter'
<1>1. /\ \E G : Served(q, G, queue')
      /\ Sound(queue', Strict)
      /\ TimerComes' /\ NoIdleWaiter'
    BY DrainedIsQuiet
<1> QED BY <1>1 DEF Serving

LEMMA SlotServes ==
    ASSUME Inv, NEW t \in Tokens, Slot(t)
    PROVE  Serving /\ TimerComes' /\ NoIdleWaiter'
<1>1. PICK r \in Requests : queue' \in Drained(Enqueue(queue, t, r))
    BY DEF Slot
<1>2. Strict \in BOOLEAN /\ Sound(queue, Strict) /\ t \in Tokens \ queue.entries
    BY InvTypical DEF Typical, Inv, Slot
<1> DEFINE e == Enqueue(queue, t, r)
<1>3. Sound(e, Strict) /\ Enqueued(queue, t, r, e)
    BY <1>2, RequestsAsked, EnqueueSound
<1> HIDE DEF e
<1>4. Base(e)
    BY <1>3, BaseEnqueue
<1>5. queue' \in Drained(e)
    BY <1>1 DEF e
<1> QED BY <1>2, <1>3, <1>4, <1>5, DrainServing

LEMMA ReleaseServes ==
    ASSUME Inv, NEW t \in Tokens, queue' \in Released(queue, t)
    PROVE  Serving /\ TimerComes' /\ NoIdleWaiter'
<1>1. Strict \in BOOLEAN /\ Sound(queue, Strict)
    BY InvTypical DEF Typical, Inv
<1> DEFINE d == Discard(queue, t)
<1>2. Sound(d, Strict) /\ Discarded(queue, t, d)
    BY <1>1, DiscardSound
<1>3. queue' \in Drained(d)
    BY DEF Released
<1> HIDE DEF d
<1>4. Base(d)
    BY <1>1, <1>2, BaseDiscard DEF Sound
<1> QED BY <1>1, <1>2, <1>3, <1>4, DrainServing

LEMMA TimerServes ==
    ASSUME Inv, TimerFires
    PROVE  Serving /\ TimerComes' /\ NoIdleWaiter'
<1>1. Strict \in BOOLEAN /\ Sound(queue, Strict)
    BY InvTypical DEF Typical, Inv
<1> DEFINE d == [queue EXCEPT !.timer = FALSE]
<1>2. Sound(d, Strict) /\ Rescheduled(queue, d)
    BY <1>1, QuietSound
<1>3. queue' \in Drained(d)
    BY DEF TimerFires
<1> HIDE DEF d
<1>4. Base(d)
    BY <1>2 DEF Base, Rescheduled
<1> QED BY <1>1, <1>2, <1>3, <1>4, DrainServing

LEMMA ReserveServes ==
    ASSUME Inv, NEW t \in Tokens, TryReserve(t)
    PROVE  Serving /\ TimerComes' /\ NoIdleWaiter'
<1>1. PICK r \in Requests : ~Blocked(Enqueue(queue, t, r), t)
                            /\ queue' = Grant(Enqueue(queue, t, r), {t})
    BY DEF TryReserve
<1>2. Strict \in BOOLEAN /\ Sound(queue, Strict) /\ t \in Tokens \ queue.entries
    BY InvTypical DEF Typical, Inv, TryReserve
<1> DEFINE e == Enqueue(queue, t, r)
<1>3. Sound(e, Strict) /\ Enqueued(queue, t, r, e) /\ t \in Waiting(e)
    BY <1>2, RequestsAsked, EnqueueSound
<1>4. ~Blocked(e, t) /\ queue' = Grant(e, {t})
    BY <1>1
<1> HIDE DEF e
<1>5. Base(e)
    BY <1>3, BaseEnqueue
<1> DEFINE n == Grant(e, {})
<1>6. Granted(e, {}, n) /\ Granted(e, {t}, queue')
    BY <1>3, <1>4, GrantFields DEF Sound, Waiting
<1> HIDE DEF n
<1>7. Keeps(e, n) /\ n.long = e.long
  <2>1. n.gated = e.gated /\ \A x \in Tokens : n.gate[x] = e.gate[x] /\ n.deps[x] = e.deps[x]
      BY <1>6 DEF Granted, Passed, GateAfter
  <2>2. e.entries \subseteq Tokens
      BY <1>3 DEF Sound, Shape, QueueType
  <2> QED BY <1>6, <2>1, <2>2 DEF Granted, Keeps
<1>8. ~Blocked(n, t)
  <2>1. Shape(n) /\ Keeps(n, e) /\ n.long = e.long
    <3>1. Shape(n) /\ n.entries = e.entries
        BY <1>6 DEF Granted
    <3> QED BY <1>7, <3>1 DEF Keeps
  <2>2. t \in Waiting(n)
      BY <1>3, <1>6 DEF Granted, Waiting
  <2>3. Sound(n, Strict)
      BY <1>2, <1>3, GrantSound DEF n, Grantable, JoinApart
  <2> QED BY <1>2, <1>4, <2>1, <2>2, <2>3, StillBlocked
<1>9. MayOvertake(e, t)
    BY <1>3, <1>6, <1>8, FreeMayOvertake DEF Sound
<1>10. Grantable(e, {t})
  <2>1. ~\E h \in e.active \ {t} : Overlaps(e.claims[t], e.claims[h], e.relaxed)
      BY <1>4 DEF Blocked
  <2>2. JoinApart(e, {t})
      BY <2>1 DEF JoinApart
  <2>3. e.deps[t] \cap (e.active \cup {t}) = {}
    <3>1. t \notin e.deps[t] /\ e.deps[t] = Preceding(e, t, e.ahead[t])
        BY <1>3 DEF Sound, Index, Preceding, Ordered, Shape, QueueType, Waiting
    <3> QED BY <2>1, <3>1 DEF Preceding
  <2> QED BY <1>3, <2>2, <2>3 DEF Grantable
<1>11. Sound(queue', Strict)
    BY <1>2, <1>3, <1>4, <1>10, GrantSound
<1>12. Rescheduled(queue', queue')
    BY <1>6 DEF Rescheduled, Granted
<1>13. Serving
  <2>1. Served(e, {t}, queue')
      BY <1>4, <1>6, <1>9, <1>10, <1>12 DEF Served
  <2> QED BY <1>3, <1>5, <1>11, <2>1 DEF Serving
<1>14. queue'.timer = queue.timer /\ Waiting(queue') = Waiting(queue)
       /\ queue'.active = queue.active \cup {t} /\ queue'.long = queue.long
       /\ queue'.ahead = [queue.ahead EXCEPT ![t] = queue.entries]
  <2>1. queue.active \subseteq queue.entries /\ t \notin queue.entries
      BY <1>2 DEF Sound, Shape
  <2> QED BY <1>3, <1>6, <2>1 DEF Granted, Enqueued, Waiting
<1>15. TimerComes'
  <2> SUFFICES ASSUME NEW w \in Waiting(queue), NEW o \in (queue.active \cup {t}) \ queue.long,
                      o \in queue'.ahead[w]
               PROVE  queue.timer
      BY <1>14 DEF TimerComes
  <2>1. w # t /\ w \in Tokens
      BY <1>2 DEF Waiting, Sound, Shape, QueueType
  <2>2. queue'.ahead[w] = queue.ahead[w]
      BY <1>2, <1>14, <2>1 DEF Sound, Shape, QueueType
  <2>3. o # t
      BY <1>2, <2>1, <2>2 DEF Sound, Ordered
  <2> QED BY <2>2, <2>3 DEF Inv, TimerComes
<1>16. NoIdleWaiter'
  <2> SUFFICES ASSUME NEW w \in Waiting(queue), ~Blocked(queue', w) PROVE queue.timer
      BY <1>14 DEF NoIdleWaiter
  <2>1. w \in Tokens /\ w # t /\ w \in Waiting(e) /\ w \in Waiting(e) \ {t}
    <3>1. w \in queue.entries /\ w \notin queue.active /\ w \in Tokens /\ t \notin queue.entries
        BY <1>2 DEF Waiting, Sound, Shape, QueueType
    <3> QED BY <1>3, <3>1 DEF Enqueued, Waiting
  <2>2. ~Blocked(n, w)
      BY <1>3, <1>6, <2>1, BlockedStays DEF Sound, Waiting
  <2>3. ~Blocked(e, w)
      BY <1>2, <1>3, <1>7, <2>1, <2>2, StillBlocked
  <2>4. Keeps(queue, e) /\ e.long = queue.long
    <3>1. \A x \in queue.entries : x \in Tokens /\ x # t
        BY <1>2 DEF Sound, Shape, QueueType
    <3>2. \A x \in queue.entries : /\ e.deps[x] = queue.deps[x] /\ e.claims[x] = queue.claims[x]
                                   /\ e.bounded[x] = queue.bounded[x] /\ e.gate[x] = queue.gate[x]
        BY <1>2, <1>3, <3>1 DEF Enqueued, Sound, Shape, QueueType
    <3> QED BY <1>3, <3>2 DEF Enqueued, Keeps
  <2>5. ~Blocked(queue, w)
      BY <1>2, <2>3, <2>4, StillBlocked
  <2> QED BY <2>5 DEF Inv, NoIdleWaiter
<1> QED BY <1>13, <1>15, <1>16

LEMMA ServingKeeps ==
    ASSUME Inv, Serving, Remember, changes' = changes, TimerComes', NoIdleWaiter'
    PROVE  Inv'
<1>1. PICK q, G : /\ Sound(q, Strict) /\ Base(q)
                  /\ Served(q, G, queue') /\ Sound(queue', Strict)
    BY DEF Serving
<1>2. queue'.relaxed = queue.relaxed
    BY <1>1 DEF Served, Granted, Rescheduled, Base
<1>3. Strict' = Strict /\ Strict \in BOOLEAN
    BY <1>2, InvTypical DEF Strict, Typical
<1>4. Sound(queue, Strict)'
    BY <1>1, <1>3
<1>5. History'
    BY <1>1, <1>3, HistoryKept DEF Inv
<1> QED BY <1>4, <1>5 DEF Inv

LEMMA AgeKeeps ==
    ASSUME Inv, NEW t \in Tokens, Age(t)
    PROVE  Inv'
<1>1. Strict \in BOOLEAN /\ Sound(queue, Strict) /\ t \in queue.active
    BY InvTypical DEF Typical, Inv, Age
<1>2. queue' = [queue EXCEPT !.long = @ \cup {t}] /\ changes' = changes /\ running' = running
    BY DEF Age
<1>3. Sound(queue', Strict)
    BY <1>1, <1>2, AgeSound
<1>4. /\ queue'.entries = queue.entries /\ queue'.ahead = queue.ahead
      /\ queue'.claims = queue.claims /\ queue'.bounded = queue.bounded
      /\ queue'.active = queue.active /\ queue'.deps = queue.deps
      /\ queue'.gated = queue.gated /\ queue'.gate = queue.gate
      /\ queue'.long = queue.long \cup {t} /\ queue'.relaxed = queue.relaxed
      /\ queue'.timer = queue.timer
    BY <1>1, <1>2 DEF Sound, Shape, QueueType
<1>5. Sound(queue, Strict)'
    BY <1>2, <1>3, <1>4 DEF Strict
<1>6. History'
    BY <1>2, <1>4 DEF Inv, History, Waiting
<1>7. TimerComes'
    BY <1>4 DEF Inv, TimerComes, Waiting
<1>8. NoIdleWaiter'
  <2> SUFFICES ASSUME NEW w \in Waiting(queue), ~Blocked(queue', w), ~queue.timer
               PROVE  FALSE
      BY <1>4 DEF NoIdleWaiter, Waiting
  <2>1. \A o \in queue'.long \ queue.long : o \notin queue.ahead[w]
      BY <1>1, <1>4 DEF Inv, TimerComes
  <2>2. Blocked(queue, w)
      BY DEF Inv, NoIdleWaiter
  <2>3. Keeps(queue, queue')
      BY <1>4 DEF Keeps
  <2> QED BY <1>1, <2>1, <2>2, <2>3, StillBlocked
<1> QED BY <1>2, <1>5, <1>6, <1>7, <1>8 DEF Inv

LEMMA ReconfigureKeeps ==
    ASSUME Inv, NEW m \in Modes, Reconfigure(m)
    PROVE  Inv' /\ \E x, G : Sound(x, FALSE) /\ x.active = queue.active /\ Served(x, G, queue')
<1>1. Sound(queue, FALSE) /\ (m = "relaxed") \in BOOLEAN
    BY DEF Inv, Sound
<1> DEFINE x == Reindexed(queue, m = "relaxed")
<1>2. Sound(x, FALSE) /\ Rematched(queue, m = "relaxed", x)
    BY <1>1, ReindexSound
<1>3. queue' \in Drained(x)
    BY DEF Reconfigure
<1> HIDE DEF x
<1>4. /\ \E G : Served(x, G, queue')
      /\ Sound(queue', FALSE)
      /\ TimerComes' /\ NoIdleWaiter'
    BY <1>2, <1>3, DrainedIsQuiet
<1>5. changes' = changes + 1 /\ changes' \in 0 .. MaxChanges
    BY RequestsAssumption DEF Reconfigure, Inv
<1>6. ~Strict'
    BY <1>5 DEF Inv, Strict
<1>7. Sound(queue, Strict)'
    BY <1>4, <1>6 DEF Sound
<1>8. History'
    BY DEF Reconfigure, History
<1>9. x.active = queue.active
    BY <1>2 DEF Rematched
<1> QED BY <1>2, <1>4, <1>5, <1>7, <1>8, <1>9 DEF Inv

(* The steps that grant, and the ones that are left.                        *)
Grants ==
    \/ \E t \in Tokens : Slot(t) \/ TryReserve(t) \/ Finish(t) \/ Cancel(t)
    \/ TimerFires

LEMMA GrantsServe ==
    ASSUME Inv, Grants
    PROVE  Serving /\ TimerComes' /\ NoIdleWaiter' /\ Remember /\ changes' = changes
<1>1. ASSUME NEW t \in Tokens, Slot(t)
      PROVE  Serving /\ TimerComes' /\ NoIdleWaiter' /\ Remember /\ changes' = changes
    BY <1>1, SlotServes DEF Slot
<1>2. ASSUME NEW t \in Tokens, TryReserve(t)
      PROVE  Serving /\ TimerComes' /\ NoIdleWaiter' /\ Remember /\ changes' = changes
    BY <1>2, ReserveServes DEF TryReserve
<1>3. ASSUME NEW t \in Tokens, Finish(t)
      PROVE  Serving /\ TimerComes' /\ NoIdleWaiter' /\ Remember /\ changes' = changes
    BY <1>3, ReleaseServes DEF Finish
<1>4. ASSUME NEW t \in Tokens, Cancel(t)
      PROVE  Serving /\ TimerComes' /\ NoIdleWaiter' /\ Remember /\ changes' = changes
    BY <1>4, ReleaseServes DEF Cancel
<1>5. CASE TimerFires
    BY <1>5, TimerServes DEF TimerFires
<1> QED BY <1>1, <1>2, <1>3, <1>4, <1>5 DEF Grants

LEMMA StepCases ==
    ASSUME [Next]_vars
    PROVE  \/ Grants
           \/ \E t \in Tokens : Age(t)
           \/ \E m \in Modes : Reconfigure(m)
           \/ UNCHANGED vars
BY DEF Next, Grants

LEMMA InitInv == Init => Inv
<1> SUFFICES ASSUME Init PROVE Inv
    OBVIOUS
<1>1. PICK m \in Modes : queue = EmptyQueue(m = "relaxed")
    BY DEF Init
<1>2. queue.relaxed = (m = "relaxed") /\ queue.entries = {} /\ queue.active = {}
    BY <1>1 DEF EmptyQueue
<1>3. Strict \in BOOLEAN /\ (Strict => ~(m = "relaxed"))
    BY <1>2 DEF Strict
<1>4. Sound(queue, Strict)
    BY <1>1, <1>3, EmptySound
<1>5. History
    BY DEF Init, History
<1>6. TimerComes /\ NoIdleWaiter
    BY <1>2 DEF TimerComes, NoIdleWaiter, Waiting
<1>7. changes \in 0 .. MaxChanges
    BY RequestsAssumption DEF Init
<1> QED BY <1>4, <1>5, <1>6, <1>7 DEF Inv

LEMMA NextInv == Inv /\ [Next]_vars => Inv'
<1> SUFFICES ASSUME Inv, [Next]_vars PROVE Inv'
    OBVIOUS
<1>1. CASE Grants
    BY <1>1, GrantsServe, ServingKeeps
<1>2. ASSUME NEW t \in Tokens, Age(t) PROVE Inv'
    BY <1>2, AgeKeeps
<1>3. ASSUME NEW m \in Modes, Reconfigure(m) PROVE Inv'
    BY <1>3, ReconfigureKeeps
<1>4. CASE UNCHANGED vars
  <2>1. Strict' = Strict
      BY <1>4 DEF vars, Strict
  <2>2. History' /\ TimerComes' /\ NoIdleWaiter'
      BY <1>4 DEF vars, Inv, History, TimerComes, NoIdleWaiter
  <2> QED BY <1>4, <2>1, <2>2 DEF vars, Inv
<1> QED BY <1>1, <1>2, <1>3, <1>4, StepCases

(* The inductive invariant.                                                 *)
THEOREM Invariance == Spec => []Inv
<1> QED BY InitInv, NextInv, PTL DEF Spec

----------------------------------------------------------------------------
(* Every field keeps its type; owners are entries, long ones are owners.    *)
THEOREM QueueTypeCorrect == Spec => []TypeOK
<1>1. Inv => TypeOK
    BY DEF Inv, TypeOK, Sound, Shape, QueueType, History
<1> QED BY <1>1, Invariance, PTL

(* Two owners never hold conflicting claims, in every execution of the      *)
(* queue over any set of operations and requests (resource_queue.py:191).   *)
THEOREM OwnersAreExclusive == Spec => []ExclusiveOwners
<1>1. Inv => ExclusiveOwners
    BY DEF Inv, ExclusiveOwners, Sound, Apart, Strict
<1> QED BY <1>1, Invariance, PTL

(* The cached dependencies of every waiter are what a fresh comparison      *)
(* would say, in both directions (resource_queue.py:96-123, 258-268).       *)
THEOREM IndexHolds == Spec => []IndexIsExact
<1>1. Inv => IndexIsExact
    BY DEF Inv, IndexIsExact, Sound, Index
<1> QED BY <1>1, Invariance, PTL

(* A read beside a writer knows of it, whichever came first                 *)
(* (resource_queue.py:244-250).                                             *)
THEOREM ReadersAreTold == Spec => []OverlapDisclosed
<1>1. Inv => OverlapDisclosed
    BY DEF Inv, OverlapDisclosed, Sound, Disclosed
<1> QED BY <1>1, Invariance, PTL

(* Nobody sleeps on a free claim without a timer that will wake it, after   *)
(* any sequence of grants, releases, cancellations, reservations and        *)
(* reconfigurations (resource_queue.py:200-216, 302).                       *)
THEOREM NobodyIsIdle == Spec => []NoIdleWaiter
<1>1. Inv => NoIdleWaiter
    BY DEF Inv
<1> QED BY <1>1, Invariance, PTL

LEMMA StepOrderly ==
    ASSUME Inv, [Next]_vars, NEW w \in Tokens, NEW g \in Tokens, OvertakenBy(w, g)
    PROVE  Orderly(w, g)
<1>1. CASE Grants
  <2>1. PICK q, G : Sound(q, Strict) /\ Base(q) /\ Served(q, G, queue')
      BY <1>1, GrantsServe DEF Serving
  <2>2. Strict \in BOOLEAN /\ q.active \subseteq queue.active
      BY <2>1, InvTypical DEF Typical, Base
  <2> QED BY <2>1, <2>2, OvertakesInOrder
<1>2. ASSUME NEW t \in Tokens, Age(t) PROVE queue'.active \subseteq queue.active
    BY <1>2 DEF Age, Inv, Sound, Shape, QueueType
<1>3. ASSUME NEW m \in Modes, Reconfigure(m) PROVE Orderly(w, g)
  <2>1. PICK x, G : Sound(x, FALSE) /\ x.active = queue.active /\ Served(x, G, queue')
      BY <1>3, ReconfigureKeeps
  <2> QED BY <2>1, OvertakesInOrder
<1>4. CASE UNCHANGED vars
    BY <1>4, QuietIsOrderly DEF vars
<1> QED BY <1>1, <1>2, <1>3, <1>4, StepCases, QuietIsOrderly

(* Only bounded operations overtake, and only pure file reads when matching *)
(* is strict, in front of processes alone (resource_queue.py:149-189).      *)
THEOREM OvertakingIsOrderly == Spec => OrderKept
<1>1. Inv /\ [Next]_vars =>
        [\A w, g \in Tokens : OvertakenBy(w, g) =>
          /\ queue'.bounded[g]
          /\ ~queue'.relaxed =>
               \A mine \in queue'.claims[g], other \in queue'.claims[w] :
                  /\ mine.holder = "file" /\ ~mine.write
                  /\ Conflicts(mine, other, FALSE) => other.holder = "process"]_vars
    BY StepOrderly DEF Orderly
<1> QED BY <1>1, Invariance, PTL DEF Spec, OrderKept

LEMMA StepOneGeneration ==
    ASSUME Inv, [Next]_vars, NEW w \in Tokens, changes' = changes, running[w].set, Overtaken(w)
    PROVE  running[w].owners # {}
<1>1. CASE Grants
  <2>1. PICK q, G : /\ Sound(q, Strict) /\ Base(q)
                    /\ Served(q, G, queue') /\ Sound(queue', Strict)
      BY <1>1, GrantsServe DEF Serving
  <2>2. Strict \in BOOLEAN
      BY InvTypical DEF Typical
  <2> QED BY <2>1, <2>2, GatesHold DEF Inv
<1>2. ASSUME NEW t \in Tokens, Age(t) PROVE queue'.active \subseteq queue.active
    BY <1>2 DEF Age, Inv, Sound, Shape, QueueType
<1>3. ASSUME NEW m \in Modes, Reconfigure(m) PROVE FALSE
    BY <1>3, RequestsAssumption DEF Reconfigure, Inv
<1>4. CASE UNCHANGED vars
    BY <1>4 DEF vars, Overtaken, OvertakenBy
<1>5. ~(queue'.active \subseteq queue.active)
    BY DEF Overtaken, OvertakenBy
<1> QED BY <1>1, <1>2, <1>3, <1>4, <1>5, StepCases

(* A waiter is overtaken again only while an owner that was in front of it  *)
(* at the first overtake still runs (resource_queue.py:183-188, 240-241).   *)
THEOREM GenerationsHold == Spec => OneGeneration
<1>1. Inv /\ [Next]_vars =>
        [\A w \in Tokens : (changes' = changes /\ running[w].set /\ Overtaken(w))
             => running[w].owners # {}]_vars
    BY StepOneGeneration
<1> QED BY <1>1, Invariance, PTL DEF Spec, OneGeneration
=============================================================================
