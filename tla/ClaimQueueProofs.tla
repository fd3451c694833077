-------------------------- MODULE ClaimQueueProofs --------------------------
(***************************************************************************)
(* What the operators of the claim queue do to it, whoever drains it.      *)
(*                                                                         *)
(* The operators are total functions on one record: the first part says    *)
(* field by field what each of them computes.  The second part shows that  *)
(* each keeps Sound, the invariant of a queue by itself: entries are       *)
(* totally ordered by arrival, the index is the fresh comparison, a gate   *)
(* names owners in front of its waiter.  A pass of the drain keeps it      *)
(* because a waiter is granted only when it is free of the owners and of   *)
(* the members of the pass in front of it, and of two members one is in    *)
(* front of the other; a change of semantics keeps it because the relaxed  *)
(* matrix is contained in the strict one.                                  *)
(*                                                                         *)
(* That nobody sleeps on a free claim rests on monotonicity: owners only   *)
(* stand in the way, so who is blocked at its turn of a pass is blocked    *)
(* when the pass ends (BlockedStays), and stays so until an owner in front *)
(* of it becomes long (StillBlocked), for which the timer comes.           *)
(***************************************************************************)
EXTENDS ClaimQueue, TLAPS

QueueType ==
    [entries : SUBSET Tokens, ahead : [Tokens -> SUBSET Tokens],
     claims : [Tokens -> SUBSET Claim], bounded : [Tokens -> BOOLEAN],
     active : SUBSET Tokens,
     deps : [Tokens -> SUBSET Tokens], dependents : [Tokens -> SUBSET Tokens],
     gated : SUBSET Tokens, gate : [Tokens -> SUBSET Tokens],
     live : [Tokens -> SUBSET Tokens], long : SUBSET Tokens,
     relaxed : BOOLEAN, timer : BOOLEAN]

(* What an operation may ask for.                                           *)
IsRequest(r) == r.claims \in SUBSET Claim /\ r.bounded \in BOOLEAN

Shape(q) ==
    /\ q \in QueueType
    /\ q.active \subseteq q.entries
    /\ q.long \subseteq q.active

(* In front of an entry are others, in one order; of two entries one        *)
(* arrived in front of the other.                                           *)
Ordered(q) ==
    /\ \A t \in Tokens : q.ahead[t] \subseteq q.entries \ {t}
    /\ \A t \in Tokens \ q.entries : q.ahead[t] = {}
    /\ \A t \in Tokens : \A a \in q.ahead[t] : q.ahead[a] \subseteq q.ahead[t]
    /\ \A a, b \in q.entries : a # b => a \in q.ahead[b] \/ b \in q.ahead[a]

----------------------------------------------------------------------------
(* What each operator of the queue computes, field by field.                *)

LEMMA EmptyFields ==
    ASSUME NEW relaxed \in BOOLEAN
    PROVE  Shape(EmptyQueue(relaxed))
BY DEF EmptyQueue, Shape, QueueType

(* What the members of G overtake, and the gate of t once they are owners.   *)
Passed(q, G) == UNION {q.deps[g] : g \in G}

GateAfter(q, G, t) ==
    IF t \in Passed(q, G) \ q.gated
    THEN Roots([q EXCEPT !.active = q.active \cup G], t) ELSE q.gate[t]

Granted(q, G, d) ==
    /\ Shape(d)
    /\ d.entries = q.entries /\ d.ahead = q.ahead /\ d.claims = q.claims
    /\ d.bounded = q.bounded /\ d.active = q.active \cup G /\ d.long = q.long
    /\ d.relaxed = q.relaxed /\ d.timer = q.timer
    /\ \A t \in Tokens : d.deps[t] = IF t \in G THEN {} ELSE q.deps[t]
    /\ \A t \in Tokens : d.dependents[t] = q.dependents[t] \ G
    /\ d.gated = q.gated \cup Passed(q, G)
    /\ \A t \in Tokens : d.gate[t] = GateAfter(q, G, t)
    /\ \A t \in Tokens : d.live[t] = q.live[t] \cup LiveWriters(q, q.active \cup G, t)

LEMMA GrantFields ==
    ASSUME NEW q, Shape(q), NEW G \in SUBSET q.entries
    PROVE  Granted(q, G, Grant(q, G))
<1> DEFINE owners == q.active \cup G
           gated  == q.gated \cup Passed(q, G)
           deps   == [t \in Tokens |-> IF t \in G THEN {} ELSE q.deps[t]]
           back   == [t \in Tokens |-> q.dependents[t] \ G]
           gate   == [t \in Tokens |-> GateAfter(q, G, t)]
           live   == [t \in Tokens |-> q.live[t] \cup LiveWriters(q, q.active \cup G, t)]
<1> DEFINE d == Grant(q, G)
<1>1. d = [q EXCEPT !.active = owners, !.deps = deps, !.dependents = back,
                    !.gated = gated, !.gate = gate, !.live = live]
    BY DEF Grant, GateAfter, Passed
<1>2. G \subseteq Tokens
    BY DEF Shape, QueueType
<1>3. owners \in SUBSET Tokens /\ gated \in SUBSET Tokens
    BY <1>2 DEF Shape, QueueType, Passed
<1>4. deps \in [Tokens -> SUBSET Tokens] /\ back \in [Tokens -> SUBSET Tokens]
    BY DEF Shape, QueueType
<1>5. gate \in [Tokens -> SUBSET Tokens]
    BY <1>2 DEF Shape, QueueType, Roots, GateAfter
<1>6. live \in [Tokens -> SUBSET Tokens]
    BY <1>2 DEF Shape, QueueType, LiveWriters
<1>7. q.active \subseteq owners /\ owners \subseteq q.entries
    BY DEF Shape
<1> HIDE DEF d, owners, gated, deps, back, gate, live
<1>8. d \in QueueType
    BY <1>1, <1>3, <1>4, <1>5, <1>6 DEF Shape, QueueType
<1>9. /\ d.entries = q.entries /\ d.ahead = q.ahead /\ d.claims = q.claims
      /\ d.bounded = q.bounded /\ d.active = owners /\ d.deps = deps
      /\ d.dependents = back /\ d.gated = gated /\ d.gate = gate
      /\ d.live = live /\ d.long = q.long /\ d.relaxed = q.relaxed
      /\ d.timer = q.timer
    BY <1>1 DEF Shape, QueueType
<1>10. Shape(d)
    BY <1>7, <1>8, <1>9 DEF Shape
<1> QED BY <1>9, <1>10 DEF Granted, d, owners, gated, deps, back, gate, live

Rescheduled(q, d) ==
    /\ Shape(d)
    /\ d.entries = q.entries /\ d.ahead = q.ahead /\ d.claims = q.claims
    /\ d.bounded = q.bounded /\ d.active = q.active /\ d.deps = q.deps
    /\ d.dependents = q.dependents /\ d.gated = q.gated /\ d.gate = q.gate
    /\ d.live = q.live /\ d.long = q.long /\ d.relaxed = q.relaxed

LEMMA ScheduledFields ==
    ASSUME NEW q, Shape(q)
    PROVE  /\ Rescheduled(q, Scheduled(q))
           /\ Scheduled(q).timer = (Waiting(q) # {} /\ (q.timer \/ q.active \ q.long # {}))
<1> DEFINE timer == Waiting(q) # {} /\ (q.timer \/ q.active \ q.long # {})
<1>1. Scheduled(q) = [q EXCEPT !.timer = timer]
    BY DEF Scheduled
<1>2. timer \in BOOLEAN
    OBVIOUS
<1> HIDE DEF timer
<1> QED BY <1>1, <1>2 DEF Rescheduled, Shape, QueueType, timer

Behind(q, t, request) ==
    {h \in q.entries : Overlaps(request.claims, q.claims[h], q.relaxed)}

Enqueued(q, t, request, e) ==
    /\ Shape(e)
    /\ e.entries = q.entries \cup {t} /\ e.active = q.active /\ e.gated = q.gated
    /\ e.gate = q.gate /\ e.live = q.live /\ e.long = q.long /\ e.relaxed = q.relaxed
    /\ e.timer = q.timer
    /\ e.ahead = [q.ahead EXCEPT ![t] = q.entries]
    /\ e.claims = [q.claims EXCEPT ![t] = request.claims]
    /\ e.bounded = [q.bounded EXCEPT ![t] = request.bounded]
    /\ e.deps = [q.deps EXCEPT ![t] = Behind(q, t, request)]
    /\ \A h \in Tokens : e.dependents[h] =
          IF h \in Behind(q, t, request) THEN q.dependents[h] \cup {t} ELSE q.dependents[h]

LEMMA EnqueueFields ==
    ASSUME NEW q, Shape(q), NEW t \in Tokens \ q.entries, NEW request, IsRequest(request)
    PROVE  Enqueued(q, t, request, Enqueue(q, t, request))
<1> DEFINE e == Enqueue(q, t, request)
           behind == Behind(q, t, request)
<1> DEFINE entries == q.entries \cup {t}
           ahead == [q.ahead EXCEPT ![t] = q.entries]
           claims == [q.claims EXCEPT ![t] = request.claims]
           bounded == [q.bounded EXCEPT ![t] = request.bounded]
           named == [q EXCEPT !.entries = entries, !.ahead = ahead, !.claims = claims,
                              !.bounded = bounded]
           deps == [q.deps EXCEPT ![t] = behind]
           back == [h \in Tokens |->
                 IF h \in behind THEN q.dependents[h] \cup {t} ELSE q.dependents[h]]
<1>1. entries \in SUBSET Tokens /\ ahead \in [Tokens -> SUBSET Tokens]
    BY DEF Shape, QueueType
<1>2. claims \in [Tokens -> SUBSET Claim] /\ bounded \in [Tokens -> BOOLEAN]
    BY DEF Shape, QueueType, IsRequest
<1>3. behind \in SUBSET Tokens
    BY DEF Shape, QueueType, Behind
<1>4. deps \in [Tokens -> SUBSET Tokens] /\ back \in [Tokens -> SUBSET Tokens]
    BY <1>3 DEF Shape, QueueType
<1>a. named.claims = claims /\ named.relaxed = q.relaxed
    BY DEF Shape, QueueType
<1>b. claims[t] = request.claims /\ \A h \in Tokens : claims[h] = IF h = t THEN request.claims ELSE q.claims[h]
    BY DEF Shape, QueueType
<1>c. q.entries \subseteq Tokens
    BY DEF Shape, QueueType
<1>5. Preceding(named, t, q.entries) = behind
    BY <1>a, <1>b, <1>c DEF Preceding, Behind
<1> DEFINE found == Preceding(named, t, q.entries)
<1>6. e = [named EXCEPT !.deps = [named.deps EXCEPT ![t] = found],
                        !.dependents = [h \in Tokens |->
                 IF h \in found THEN named.dependents[h] \cup {t} ELSE named.dependents[h]]]
    BY DEF Enqueue
<1>7. named.deps = q.deps /\ named.dependents = q.dependents
    BY DEF Shape, QueueType
<1>8. e = [named EXCEPT !.deps = deps, !.dependents = back]
    BY <1>5, <1>6, <1>7
<1> HIDE DEF e, behind, entries, ahead, claims, bounded, deps, back
<1>9. e \in QueueType
    BY <1>1, <1>2, <1>4, <1>8 DEF Shape, QueueType
<1>10. /\ e.entries = entries /\ e.ahead = ahead /\ e.claims = claims
      /\ e.bounded = bounded /\ e.active = q.active /\ e.deps = deps
      /\ e.dependents = back /\ e.gated = q.gated /\ e.gate = q.gate
      /\ e.live = q.live /\ e.long = q.long /\ e.relaxed = q.relaxed
      /\ e.timer = q.timer
    BY <1>8 DEF Shape, QueueType
<1>11. Shape(e)
    BY <1>9, <1>10 DEF Shape, entries
<1> QED BY <1>10, <1>11 DEF Enqueued, e, behind, entries, ahead, claims, bounded, deps, back

Discarded(q, t, d) ==
    /\ Shape(d)
    /\ d.entries = q.entries \ {t} /\ d.active = q.active \ {t} /\ d.gated = q.gated \ {t}
    /\ d.long = q.long \ {t} /\ d.relaxed = q.relaxed /\ d.timer = q.timer
    /\ d.claims = [q.claims EXCEPT ![t] = {}]
    /\ d.bounded = [q.bounded EXCEPT ![t] = FALSE]
    /\ d.live = [q.live EXCEPT ![t] = {}]
    /\ \A x \in Tokens :
        /\ d.ahead[x] = IF x = t THEN {} ELSE q.ahead[x] \ {t}
        /\ d.deps[x] = IF x = t THEN {}
                       ELSE IF x \in q.dependents[t] THEN q.deps[x] \ {t} ELSE q.deps[x]
        /\ d.dependents[x] = IF x = t THEN {} ELSE q.dependents[x] \ {t}
        /\ d.gate[x] = IF x = t THEN {} ELSE q.gate[x] \ {t}

LEMMA DiscardFields ==
    ASSUME NEW q, Shape(q), NEW t \in Tokens
    PROVE  Discarded(q, t, Discard(q, t))
<1> DEFINE entries == q.entries \ {t}
           active == q.active \ {t}
           ahead == [x \in Tokens |-> IF x = t THEN {} ELSE q.ahead[x] \ {t}]
           claims == [q.claims EXCEPT ![t] = {}]
           bounded == [q.bounded EXCEPT ![t] = FALSE]
           deps == [x \in Tokens |->
                IF x = t THEN {} ELSE IF x \in q.dependents[t] THEN q.deps[x] \ {t} ELSE q.deps[x]]
           back == [x \in Tokens |-> IF x = t THEN {} ELSE q.dependents[x] \ {t}]
           gated == q.gated \ {t}
           gate == [x \in Tokens |-> IF x = t THEN {} ELSE q.gate[x] \ {t}]
           live == [q.live EXCEPT ![t] = {}]
           long == q.long \ {t}
           d == Discard(q, t)
<1>1. d = [q EXCEPT !.entries = entries, !.active = active, !.ahead = ahead, !.claims = claims,
                    !.bounded = bounded, !.deps = deps, !.dependents = back, !.gated = gated,
                    !.gate = gate, !.live = live, !.long = long]
    BY DEF Discard, Dependents
<1>2. entries \in SUBSET Tokens /\ active \in SUBSET Tokens /\ ahead \in [Tokens -> SUBSET Tokens]
    BY DEF Shape, QueueType
<1>3. claims \in [Tokens -> SUBSET Claim] /\ bounded \in [Tokens -> BOOLEAN]
    BY DEF Shape, QueueType
<1>4. deps \in [Tokens -> SUBSET Tokens] /\ back \in [Tokens -> SUBSET Tokens]
    BY DEF Shape, QueueType
<1>5. gated \in SUBSET Tokens /\ long \in SUBSET Tokens
    BY DEF Shape, QueueType
<1>6. gate \in [Tokens -> SUBSET Tokens] /\ live \in [Tokens -> SUBSET Tokens]
    BY DEF Shape, QueueType
<1>7. active \subseteq entries /\ long \subseteq active
    BY DEF Shape
<1> HIDE DEF d, entries, active, ahead, claims, bounded, deps, back, gated, gate, live, long
<1> DEFINE half == [q EXCEPT !.entries = entries, !.active = active, !.ahead = ahead,
                             !.claims = claims, !.bounded = bounded, !.deps = deps]
<1>8. half \in QueueType
    BY <1>2, <1>3, <1>4 DEF Shape, QueueType
<1>a. d = [half EXCEPT !.dependents = back, !.gated = gated, !.gate = gate, !.live = live,
                       !.long = long]
    BY <1>1
<1>b. d \in QueueType
  <2> HIDE DEF half
  <2> QED BY <1>4, <1>5, <1>6, <1>8, <1>a DEF QueueType
<1>9. /\ d.entries = entries /\ d.active = active /\ d.ahead = ahead /\ d.claims = claims
      /\ d.bounded = bounded /\ d.deps = deps /\ d.dependents = back /\ d.gated = gated
      /\ d.gate = gate /\ d.live = live /\ d.long = long /\ d.relaxed = q.relaxed
      /\ d.timer = q.timer
    BY <1>1 DEF Shape, QueueType
<1> QED BY <1>7, <1>b, <1>9 DEF Discarded, Shape, d, entries, active, ahead, claims, bounded, deps, back,
                                gated, gate, live, long

Rematched(q, relaxed, x) ==
    /\ Shape(x)
    /\ x.entries = q.entries /\ x.ahead = q.ahead /\ x.claims = q.claims
    /\ x.bounded = q.bounded /\ x.active = q.active /\ x.live = q.live
    /\ x.long = q.long /\ x.relaxed = relaxed /\ x.timer = q.timer
    /\ x.gated = {}
    /\ \A t \in Tokens : x.gate[t] = {}
    /\ \A t \in Tokens : x.deps[t] =
          IF t \in Waiting(q) THEN {h \in q.ahead[t] : Overlaps(q.claims[t], q.claims[h], relaxed)}
          ELSE q.deps[t]
    /\ x.dependents = Indexed(x)

LEMMA ReindexFields ==
    ASSUME NEW q, Shape(q), NEW relaxed \in BOOLEAN
    PROVE  Rematched(q, relaxed, Reindexed(q, relaxed))
<1> DEFINE x == Reindexed(q, relaxed)
<1> DEFINE under == [q EXCEPT !.relaxed = relaxed]
           deps == [t \in Tokens |->
                IF t \in Waiting(q) THEN {h \in q.ahead[t] : Overlaps(q.claims[t], q.claims[h], relaxed)}
                ELSE q.deps[t]]
           none == [t \in Tokens |-> {}]
           again == [q EXCEPT !.relaxed = relaxed, !.deps = deps, !.gated = {}, !.gate = none]
<1>1. under.claims = q.claims /\ under.relaxed = relaxed /\ under.deps = q.deps
    BY DEF Shape, QueueType
<1>2. \A t \in Tokens :
        Preceding(under, t, q.ahead[t]) = {h \in q.ahead[t] : Overlaps(q.claims[t], q.claims[h], relaxed)}
    BY <1>1 DEF Preceding
<1>3. deps = [t \in Tokens |->
                IF t \in Waiting(q) THEN Preceding(under, t, q.ahead[t]) ELSE under.deps[t]]
    BY <1>1, <1>2
<1>4. x = [again EXCEPT !.dependents = Indexed(again)]
    BY <1>3, Zenon DEF Reindexed, x
<1>5. deps \in [Tokens -> SUBSET Tokens] /\ none \in [Tokens -> SUBSET Tokens]
    BY DEF Shape, QueueType
<1>6. Indexed(again) \in [Tokens -> SUBSET Tokens]
    BY DEF Indexed
<1> HIDE DEF x, deps, none, under
<1>7. again.deps = deps
    BY DEF Shape, QueueType
<1> DEFINE back == Indexed(again)
<1> HIDE DEF back
<1>8. x = [q EXCEPT !.relaxed = relaxed, !.deps = deps, !.gated = {}, !.gate = none, !.dependents = back]
    BY <1>4 DEF back
<1>9. x \in QueueType
    BY <1>5, <1>6, <1>8 DEF Shape, QueueType, back
<1>10. /\ x.entries = q.entries /\ x.ahead = q.ahead /\ x.claims = q.claims
       /\ x.bounded = q.bounded /\ x.active = q.active /\ x.live = q.live
       /\ x.long = q.long /\ x.relaxed = relaxed /\ x.timer = q.timer
       /\ x.gated = {} /\ x.gate = none /\ x.deps = deps /\ x.dependents = back
    BY <1>8 DEF Shape, QueueType
<1>11. Indexed(x) = Indexed(again)
    BY <1>7, <1>10 DEF Indexed
<1> QED BY <1>9, <1>10, <1>11 DEF Rematched, Shape, x, deps, none, back

----------------------------------------------------------------------------
(* The invariant of a queue.                                                *)

Apart(q, S, relaxed) ==
    \A a, b \in S : a # b => ~Overlaps(q.claims[a], q.claims[b], relaxed)

(* The cached index is what a fresh comparison would say.                   *)
Index(q) ==
    /\ \A t \in Waiting(q) : q.deps[t] = Preceding(q, t, q.ahead[t])
    /\ \A t \in Tokens \ Waiting(q) : q.deps[t] = {}
    /\ q.dependents = Indexed(q)

(* A gate names owners in front of the waiter it was closed for.            *)
Gates(q) == \A t \in Tokens : q.gate[t] \subseteq q.active \cap q.ahead[t]

Disclosed(q) ==
    \A r, w \in q.active :
        (r # w /\ ReadsLive(q.claims[r], q.claims[w])) => w \in q.live[r]

Sound(q, strict) ==
    /\ Shape(q)
    /\ Ordered(q)
    /\ Index(q)
    /\ Gates(q)
    /\ Disclosed(q)
    /\ Apart(q, q.active, TRUE)
    /\ strict => ~q.relaxed /\ Apart(q, q.active, FALSE)

(* The members of G are apart from the owners and from each other, and none *)
(* of them has a member or an owner in front of it that conflicts.          *)
JoinApart(q, G) ==
    \A a \in G : \A b \in q.active \cup G :
        a # b => ~Overlaps(q.claims[a], q.claims[b], q.relaxed)

Grantable(q, G) ==
    /\ G \subseteq Waiting(q)
    /\ JoinApart(q, G)
    /\ \A g \in G : q.deps[g] \cap (q.active \cup G) = {}

(* What an entry that is granted in front of others must be.                *)
MayOvertake(q, g) ==
    q.deps[g] # {} =>
        /\ q.bounded[g]
        /\ q.relaxed \/ StrictBypassAllowed(q, g)
        /\ \A b \in q.deps[g] \cap q.gated : q.gate[b] # {}

----------------------------------------------------------------------------
(* The conflict matrix is symmetric.                                        *)
LEMMA ConflictsSymmetric ==
    ASSUME NEW a, NEW b, NEW relaxed \in BOOLEAN, Conflicts(a, b, relaxed)
    PROVE  Conflicts(b, a, relaxed)
BY DEF Conflicts, MayTear

(* What conflicts under relaxed semantics conflicts under strict ones.      *)
LEMMA StrictIsStronger ==
    ASSUME NEW a, NEW b, Conflicts(a, b, TRUE)
    PROVE  Conflicts(a, b, FALSE)
BY DEF Conflicts

LEMMA OverlapsSymmetric ==
    ASSUME NEW L, NEW R, NEW relaxed \in BOOLEAN, Overlaps(L, R, relaxed)
    PROVE  Overlaps(R, L, relaxed)
BY ConflictsSymmetric DEF Overlaps

LEMMA OverlapsStronger ==
    ASSUME NEW L, NEW R, Overlaps(L, R, TRUE)
    PROVE  Overlaps(L, R, FALSE)
BY StrictIsStronger DEF Overlaps

(* Who reads beside a writer conflicts with it under strict semantics.      *)
LEMMA LiveReadOverlaps ==
    ASSUME NEW L, NEW R, ReadsLive(L, R)
    PROVE  Overlaps(L, R, FALSE)
BY DEF ReadsLive, Overlaps

(* An entry depends only on entries in front of it.                         *)
LEMMA DependsOnFront ==
    ASSUME NEW q, Index(q), NEW t \in Tokens
    PROVE  q.deps[t] \subseteq q.ahead[t]
BY DEF Index, Preceding

(* The two directions of the index, edge by edge.                           *)
LEMMA IndexedBothWays ==
    ASSUME NEW q, Shape(q)
    PROVE  q.dependents = Indexed(q)
             <=> \A h, x \in Tokens : x \in q.dependents[h] <=> h \in q.deps[x]
BY DEF Indexed, Shape, QueueType

(* The owners a waiter waits for arrived before it.                         *)
LEMMA RootsInFront ==
    ASSUME NEW q, Shape(q), Ordered(q), Index(q),
           NEW owners \in SUBSET q.entries, NEW t \in q.entries \ owners
    PROVE  Roots([q EXCEPT !.active = owners], t) \subseteq owners \cap q.ahead[t]
<1> DEFINE r == [q EXCEPT !.active = owners]
           S == {t} \cup q.ahead[t]
<1>1. r.active = owners /\ r.deps = q.deps /\ r.entries = q.entries
    BY DEF Shape, QueueType
<1>2. t \in Tokens /\ S \in SUBSET q.entries
    BY DEF Shape, QueueType, Ordered
<1>3. \A w \in S : q.deps[w] \subseteq S
  <2>1. \A w \in S : w \in Tokens /\ q.ahead[w] \subseteq S
      BY <1>2 DEF Shape, QueueType, Ordered
  <2> QED BY <2>1, DependsOnFront
<1>4. Reached(r, t, S)
    BY <1>1, <1>3 DEF Reached
<1>5. Roots(r, t) \subseteq S \cap owners
    BY <1>1, <1>2, <1>4 DEF Roots
<1> QED BY <1>5

----------------------------------------------------------------------------
(* Granting.                                                                *)

LEMMA GrantApart ==
    ASSUME NEW q, Shape(q), NEW G, NEW d, Granted(q, G, d), JoinApart(q, G),
           NEW relaxed \in BOOLEAN, q.relaxed => relaxed, Apart(q, q.active, relaxed)
    PROVE  Apart(d, d.active, relaxed)
<1> SUFFICES ASSUME NEW a \in q.active \cup G, NEW b \in q.active \cup G, a # b,
                    Overlaps(q.claims[a], q.claims[b], relaxed)
             PROVE  FALSE
    BY DEF Granted, Apart
<1>1. Overlaps(q.claims[b], q.claims[a], relaxed)
    BY OverlapsSymmetric
<1>2. q.relaxed \in BOOLEAN
    BY DEF Shape, QueueType
<1>3. Overlaps(q.claims[a], q.claims[b], q.relaxed) /\ Overlaps(q.claims[b], q.claims[a], q.relaxed)
  <2>1. CASE q.relaxed = relaxed
      BY <1>1, <2>1
  <2>2. CASE relaxed = TRUE /\ q.relaxed = FALSE
      BY <1>1, <2>2, OverlapsStronger
  <2> QED BY <1>2, <2>1, <2>2
<1>4. a \notin G /\ b \notin G
    BY <1>3 DEF JoinApart
<1> QED BY <1>4 DEF Apart

LEMMA GrantIndex ==
    ASSUME NEW q, Shape(q), Index(q), NEW G \in SUBSET Waiting(q), NEW d, Granted(q, G, d)
    PROVE  Index(d)
<1>1. Shape(d) /\ G \subseteq Tokens
    BY DEF Granted, Waiting, Shape, QueueType
<1>2. \A t \in Waiting(d) : t \in Waiting(q) /\ t \notin G /\ t \in Tokens
    BY DEF Granted, Waiting, Shape, QueueType
<1>3. \A t \in Waiting(d) : d.deps[t] = Preceding(d, t, d.ahead[t])
  <2>1. \A t \in Tokens : Preceding(d, t, d.ahead[t]) = Preceding(q, t, q.ahead[t])
      BY DEF Granted, Preceding
  <2> QED BY <1>2, <2>1 DEF Granted, Index
<1>4. \A t \in Tokens \ Waiting(d) : d.deps[t] = {}
    BY DEF Granted, Index, Waiting
<1>5. \A h \in Tokens : q.dependents[h] = {t \in Tokens : h \in q.deps[t]}
    BY DEF Index, Indexed
<1>6. \A h \in Tokens : d.dependents[h] = {t \in Tokens : h \in d.deps[t]}
    BY <1>5 DEF Granted
<1>7. d.dependents = Indexed(d)
    BY <1>1, <1>6 DEF Indexed, Shape, QueueType
<1> QED BY <1>3, <1>4, <1>7 DEF Index

LEMMA GrantGates ==
    ASSUME NEW q, Shape(q), Ordered(q), Index(q), Gates(q), NEW G, Grantable(q, G),
           NEW d, Granted(q, G, d)
    PROVE  Gates(d)
<1>1. G \in SUBSET q.entries /\ G \subseteq Waiting(q) /\ G \subseteq Tokens
    BY DEF Grantable, Waiting, Shape, QueueType
<1>2. ASSUME NEW t \in Passed(q, G)
      PROVE  Roots([q EXCEPT !.active = q.active \cup G], t) \subseteq (q.active \cup G) \cap q.ahead[t]
  <2>1. PICK g \in G : t \in q.deps[g]
      BY DEF Passed
  <2>2. t \in q.ahead[g] /\ t \notin q.active \cup G
      BY <1>1, <2>1, DependsOnFront DEF Grantable
  <2>3. t \in q.entries \ (q.active \cup G)
      BY <1>1, <2>2 DEF Ordered
  <2>4. q.active \cup G \in SUBSET q.entries
      BY <1>1 DEF Shape
  <2> QED BY <2>3, <2>4, RootsInFront
<1>3. \A t \in Tokens : GateAfter(q, G, t) \subseteq (q.active \cup G) \cap q.ahead[t]
    BY <1>2 DEF GateAfter, Gates
<1> QED BY <1>3 DEF Granted, Gates

LEMMA GrantDisclosed ==
    ASSUME NEW q, Shape(q), Disclosed(q), NEW G, Grantable(q, G), NEW d, Granted(q, G, d)
    PROVE  Disclosed(d)
<1>1. q.active \cup G \subseteq Tokens
    BY DEF Grantable, Waiting, Shape, QueueType
<1>2. ASSUME NEW r \in q.active \cup G, NEW w \in q.active \cup G, r # w,
             ReadsLive(q.claims[r], q.claims[w])
      PROVE  w \in d.live[r]
  <2>1. CASE q.relaxed
      BY <1>1, <1>2, <2>1 DEF Granted, LiveWriters
  <2>2. CASE ~q.relaxed /\ r \in q.active /\ w \in q.active
      BY <1>1, <1>2, <2>2 DEF Granted, Disclosed
  <2>3. CASE ~q.relaxed /\ (r \in G \/ w \in G)
    <3>1. Overlaps(q.claims[r], q.claims[w], FALSE) /\ q.relaxed = FALSE
        BY <1>2, <2>3, LiveReadOverlaps DEF Shape, QueueType
    <3>2. Overlaps(q.claims[w], q.claims[r], FALSE)
        BY <3>1, OverlapsSymmetric
    <3> QED BY <1>2, <2>3, <3>1, <3>2 DEF Grantable, JoinApart
  <2> QED BY <2>1, <2>2, <2>3
<1> QED BY <1>2 DEF Granted, Disclosed

LEMMA GrantSound ==
    ASSUME NEW q, NEW strict \in BOOLEAN, Sound(q, strict), NEW G, Grantable(q, G)
    PROVE  Sound(Grant(q, G), strict) /\ Granted(q, G, Grant(q, G))
<1> DEFINE d == Grant(q, G)
<1>1. G \in SUBSET q.entries /\ G \in SUBSET Waiting(q) /\ JoinApart(q, G)
    BY DEF Grantable, Waiting
<1>2. Granted(q, G, d)
    BY <1>1, GrantFields DEF Sound
<1> HIDE DEF d
<1>3. Index(d) /\ Gates(d) /\ Disclosed(d)
    BY <1>1, <1>2, GrantIndex, GrantGates, GrantDisclosed DEF Sound
<1>4. Apart(d, d.active, TRUE)
    BY <1>1, <1>2, GrantApart DEF Sound, Shape, QueueType
<1>5. strict => ~d.relaxed /\ Apart(d, d.active, FALSE)
  <2>1. ASSUME strict PROVE Apart(d, d.active, FALSE)
      BY <1>1, <1>2, <2>1, GrantApart DEF Sound
  <2> QED BY <1>2, <2>1 DEF Sound, Granted
<1>6. Ordered(d)
    BY <1>2 DEF Sound, Granted, Ordered
<1>7. Sound(d, strict)
    BY <1>2, <1>3, <1>4, <1>5, <1>6 DEF Sound, Granted
<1> QED BY <1>2, <1>7 DEF d

(* The timer is no part of the invariant.                                   *)
LEMMA ScheduledSound ==
    ASSUME NEW q, NEW strict \in BOOLEAN, Sound(q, strict), NEW d, Rescheduled(q, d)
    PROVE  Sound(d, strict)
<1>1. Ordered(d) /\ Index(d)
    BY DEF Rescheduled, Sound, Ordered, Index, Waiting, Preceding, Indexed
<1>2. Gates(d) /\ Disclosed(d)
    BY DEF Rescheduled, Sound, Gates, Disclosed
<1>3. Apart(d, d.active, TRUE) /\ (strict => ~d.relaxed /\ Apart(d, d.active, FALSE))
    BY DEF Rescheduled, Sound, Apart
<1> QED BY <1>1, <1>2, <1>3 DEF Rescheduled, Sound

----------------------------------------------------------------------------
(* A pass of the drain.                                                     *)

(* A member of a pass is free once the members in front of it are owners.   *)
LEMMA PassMember ==
    ASSUME NEW q, NEW strict \in BOOLEAN, Sound(q, strict), NEW own,
           NEW G \in SUBSET (Waiting(q) \cap own), IsPass(q, own, G), NEW g \in G
    PROVE  /\ ~Blocked(Grant(q, G \cap q.ahead[g]), g)
           /\ Granted(q, G \cap q.ahead[g], Grant(q, G \cap q.ahead[g]))
           /\ g \in Tokens /\ g \in q.entries /\ g \notin q.ahead[g]
<1>1. g \in Waiting(q) \cap own /\ g \in q.entries /\ G \cap q.ahead[g] \in SUBSET q.entries
    BY DEF Waiting
<1>2. g \in Tokens /\ g \notin q.ahead[g]
    BY <1>1 DEF Sound, Shape, QueueType, Ordered
<1>3. ~Blocked(Grant(q, G \cap q.ahead[g]), g)
    BY <1>1 DEF IsPass
<1>4. Granted(q, G \cap q.ahead[g], Grant(q, G \cap q.ahead[g]))
    BY <1>1, GrantFields DEF Sound
<1> QED BY <1>1, <1>2, <1>3, <1>4

LEMMA PassGrantable ==
    ASSUME NEW q, NEW strict \in BOOLEAN, Sound(q, strict), NEW own,
           NEW G \in SUBSET (Waiting(q) \cap own), IsPass(q, own, G)
    PROVE  Grantable(q, G)
<1>1. ASSUME NEW g \in G, NEW h \in q.active \cup (G \cap q.ahead[g]), h # g
      PROVE  ~Overlaps(q.claims[g], q.claims[h], q.relaxed)
  <2> DEFINE r == Grant(q, G \cap q.ahead[g])
  <2>1. ~Blocked(r, g) /\ Granted(q, G \cap q.ahead[g], r)
      BY PassMember
  <2> HIDE DEF r
  <2>2. h \in r.active \ {g}
      BY <1>1, <2>1 DEF Granted
  <2>3. ~Overlaps(r.claims[g], r.claims[h], r.relaxed)
      BY <2>1, <2>2 DEF Blocked
  <2> QED BY <2>1, <2>3 DEF Granted
<1>2. q.relaxed \in BOOLEAN /\ G \subseteq q.entries
    BY DEF Sound, Shape, QueueType, Waiting
<1>3. ASSUME NEW a \in G, NEW b \in q.active \cup G, a # b,
             Overlaps(q.claims[a], q.claims[b], q.relaxed)
      PROVE  FALSE
  <2>1. Overlaps(q.claims[b], q.claims[a], q.relaxed)
      BY <1>2, <1>3, OverlapsSymmetric
  <2>2. CASE b \in q.active
      BY <1>1, <1>3, <2>2
  <2>3. CASE b \in G
    <3>1. a \in q.ahead[b] \/ b \in q.ahead[a]
        BY <1>2, <1>3, <2>3 DEF Sound, Ordered
    <3> QED BY <1>1, <1>3, <2>1, <2>3, <3>1
  <2> QED BY <2>2, <2>3
<1>4. ASSUME NEW g \in G, NEW b \in q.deps[g], b \in q.active \cup G
      PROVE  FALSE
  <2> DEFINE r == Grant(q, G \cap q.ahead[g])
  <2>1. /\ ~Blocked(r, g) /\ Granted(q, G \cap q.ahead[g], r)
        /\ g \in Tokens /\ g \notin q.ahead[g]
      BY PassMember
  <2> HIDE DEF r
  <2>2. b \in q.ahead[g] /\ r.deps[g] = q.deps[g]
      BY <2>1, DependsOnFront DEF Sound, Granted
  <2>3. b \in r.active
      BY <1>4, <2>1, <2>2 DEF Granted
  <2> QED BY <2>1, <2>2, <2>3 DEF Blocked, Bypassable
<1> QED BY <1>3, <1>4 DEF Grantable, JoinApart

(* What overtakes is what may, and finds the gates it passes open.          *)
LEMMA FreeMayOvertake ==
    ASSUME NEW q, Shape(q), Index(q), NEW H \in SUBSET q.entries,
           NEW r, Granted(q, H, r), NEW g \in Tokens \ H, ~Blocked(r, g)
    PROVE  MayOvertake(q, g)
<1> SUFFICES ASSUME q.deps[g] # {}
             PROVE  /\ q.bounded[g]
                    /\ q.relaxed \/ StrictBypassAllowed(q, g)
                    /\ \A b \in q.deps[g] \cap q.gated : q.gate[b] # {}
    BY DEF MayOvertake
<1>1. r.deps[g] = q.deps[g]
    BY DEF Granted
<1>2. Bypassable(r, g)
    BY <1>1 DEF Blocked
<1>3. q.bounded[g] /\ (q.relaxed \/ StrictBypassAllowed(q, g))
    BY <1>1, <1>2 DEF Bypassable, Granted, StrictBypassAllowed
<1>4. ASSUME NEW b \in q.deps[g] \cap q.gated PROVE q.gate[b] # {}
  <2>1. b \in Tokens
      BY DEF Shape, QueueType
  <2>2. b \in r.gated /\ r.gate[b] = q.gate[b]
      BY <1>4, <2>1 DEF Granted, GateAfter
  <2>3. BypassRoots(r, b) # {}
      BY <1>1, <1>2, <1>4 DEF Bypassable
  <2> QED BY <2>2, <2>3 DEF BypassRoots
<1> QED BY <1>3, <1>4

(* Owners only stand in the way: who is blocked when some members of G own  *)
(* their claims is blocked when all of them do.                             *)
LEMMA BlockedStays ==
    ASSUME NEW q, Shape(q), Index(q), NEW G \in SUBSET q.entries, NEW H \in SUBSET G,
           NEW r, Granted(q, H, r), NEW d, Granted(q, G, d),
           NEW t \in Waiting(q) \ G, Blocked(r, t)
    PROVE  Blocked(d, t)
<1> SUFFICES ASSUME ~Blocked(d, t) PROVE FALSE
    OBVIOUS
<1>1. t \in Tokens /\ G \subseteq Tokens
    BY DEF Waiting, Shape, QueueType
<1>2. d.deps[t] = q.deps[t] /\ r.deps[t] = q.deps[t]
    BY <1>1 DEF Granted
<1>3. ~\E h \in r.active \ {t} : Overlaps(r.claims[t], r.claims[h], r.relaxed)
    BY DEF Blocked, Granted
<1>4. q.deps[t] # {} /\ ~Bypassable(r, t) /\ Bypassable(d, t)
    BY <1>2, <1>3 DEF Blocked
<1>5. q.bounded[t] /\ (q.relaxed \/ StrictBypassAllowed(q, t))
    BY <1>2, <1>4 DEF Bypassable, Granted, StrictBypassAllowed
<1>6. r.relaxed \/ StrictBypassAllowed(r, t)
    BY <1>2, <1>5 DEF Granted, StrictBypassAllowed
<1>7. PICK b \in q.deps[t] : b \in r.active \/ BypassRoots(r, b) \cap r.long = {}
  <2>1. r.bounded[t] /\ r.deps[t] # {}
      BY <1>2, <1>4, <1>5 DEF Granted
  <2>2. SUFFICES ASSUME \A b \in r.deps[t] : b \notin r.active /\ BypassRoots(r, b) \cap r.long # {}
                 PROVE  FALSE
      BY <1>2, Zenon
  <2>3. Bypassable(r, t)
      BY <1>6, <2>1, <2>2, Zenon DEF Bypassable
  <2> QED BY <1>4, <2>3, Zenon
<1>8. b \notin d.active /\ BypassRoots(d, b) \cap d.long # {} /\ b \in Tokens
    BY <1>1, <1>2, <1>4 DEF Bypassable, Shape, QueueType
<1>9. PICK o \in q.long : o \in BypassRoots(d, b)
    BY <1>8 DEF Granted
<1>10. b \notin r.active /\ o \notin BypassRoots(r, b)
    BY <1>7, <1>8, <1>9 DEF Granted
<1>11. o \in q.active /\ o \in Roots(d, b)
    BY <1>9 DEF Shape, BypassRoots
<1>12. ASSUME NEW S \in SUBSET q.entries, b \in S,
              \A w \in S \ (q.active \cup H) : q.deps[w] \subseteq S
       PROVE  o \in S
  <2>1. \A w \in S : w \in Tokens
      BY DEF Shape, QueueType
  <2>2. Reached(d, b, S)
      BY <1>12, <2>1 DEF Reached, Granted
  <2> QED BY <1>11, <2>2 DEF Roots, Granted
<1>13. o \in Roots(r, b)
  <2>1. \A w \in q.entries : w \notin H => r.deps[w] = q.deps[w]
      BY DEF Granted, Shape, QueueType
  <2>2. \A S \in SUBSET q.entries : Reached(r, b, S) => o \in S
      BY <1>12, <2>1 DEF Reached, Granted
  <2> QED BY <1>11, <2>2 DEF Roots, Granted
<1>14. b \in r.gated /\ o \notin r.gate[b]
    BY <1>10, <1>13 DEF BypassRoots
<1>15. CASE b \in q.gated
  <2>1. b \in d.gated /\ d.gate[b] = q.gate[b] /\ r.gate[b] = q.gate[b]
      BY <1>8, <1>15 DEF Granted, GateAfter
  <2> QED BY <1>9, <1>14, <2>1 DEF BypassRoots
<1>16. CASE b \notin q.gated
  <2> DEFINE p == [q EXCEPT !.active = q.active \cup H]
  <2>1. p.active = q.active \cup H /\ p.deps = q.deps /\ p.entries = q.entries
      BY DEF Shape, QueueType
  <2>2. r.gate[b] = Roots(p, b)
      BY <1>8, <1>14, <1>16 DEF Granted, GateAfter
  <2> HIDE DEF p
  <2>3. \A S \in SUBSET q.entries : Reached(p, b, S) => o \in S
      BY <1>12, <2>1 DEF Reached
  <2>4. o \in Roots(p, b)
      BY <1>11, <2>1, <2>3 DEF Roots
  <2> QED BY <1>14, <2>2, <2>4
<1> QED BY <1>15, <1>16

----------------------------------------------------------------------------
(* The drain.                                                               *)

(* The timer comes while somebody waits and some owner may become long.     *)
Armed(q) == Waiting(q) # {} /\ q.active \ q.long # {} => q.timer

(* d is q after the members of G were granted, with a timer or without.      *)
Served(q, G, d) ==
    /\ Grantable(q, G)
    /\ Granted(q, G, Grant(q, G))
    /\ Rescheduled(Grant(q, G), d)
    /\ \A g \in G : MayOvertake(q, g)

(* Who is blocked does not depend on the timer.                              *)
LEMMA BlockedWithoutTimer ==
    ASSUME NEW q, NEW d, Rescheduled(q, d), NEW t
    PROVE  Blocked(d, t) <=> Blocked(q, t)
<1>1. \A b : Roots(d, b) = Roots(q, b)
    BY DEF Rescheduled, Roots, Reached
<1>2. \A b : BypassRoots(d, b) = BypassRoots(q, b)
    BY <1>1 DEF Rescheduled, BypassRoots
<1>3. StrictBypassAllowed(d, t) <=> StrictBypassAllowed(q, t)
    BY DEF Rescheduled, StrictBypassAllowed
<1>4. Bypassable(d, t) <=> Bypassable(q, t)
    BY <1>2, <1>3 DEF Rescheduled, Bypassable
<1> QED BY <1>4 DEF Rescheduled, Blocked

(* A pass over the waiters that are drained here (own).                      *)
LEMMA PassServes ==
    ASSUME NEW q, NEW strict \in BOOLEAN, Sound(q, strict), NEW own, NEW r \in Passes(q, own)
    PROVE  \E G \in SUBSET (Waiting(q) \cap own) :
             /\ r = Grant(q, G) /\ Grantable(q, G) /\ Granted(q, G, r) /\ Sound(r, strict)
             /\ \A g \in G : MayOvertake(q, g)
             /\ \A t \in Waiting(r) \cap own : Blocked(r, t)
<1>1. PICK G \in SUBSET (Waiting(q) \cap own) : IsPass(q, own, G) /\ r = Grant(q, G)
    BY DEF Passes
<1>2. Grantable(q, G) /\ G \in SUBSET q.entries
    BY <1>1, PassGrantable DEF Waiting
<1>3. Sound(r, strict) /\ Granted(q, G, r)
    BY <1>1, <1>2, GrantSound
<1>4. \A g \in G : MayOvertake(q, g)
  <2> SUFFICES ASSUME NEW g \in G PROVE MayOvertake(q, g)
      OBVIOUS
  <2>1. /\ ~Blocked(Grant(q, G \cap q.ahead[g]), g)
        /\ Granted(q, G \cap q.ahead[g], Grant(q, G \cap q.ahead[g]))
        /\ g \in Tokens \ (G \cap q.ahead[g])
      BY <1>1, PassMember
  <2>2. G \cap q.ahead[g] \in SUBSET q.entries
      BY <1>2
  <2> QED BY <2>1, <2>2, FreeMayOvertake DEF Sound
<1>5. ASSUME NEW t \in Waiting(r) \cap own PROVE Blocked(r, t)
  <2>1. t \in Waiting(q) \ G /\ t \in Tokens
      BY <1>3 DEF Granted, Waiting, Sound, Shape, QueueType
  <2> DEFINE H == G \cap q.ahead[t]
  <2>2. Blocked(Grant(q, H), t)
      BY <1>1, <2>1 DEF IsPass
  <2>3. H \in SUBSET G /\ H \in SUBSET q.entries
      BY <1>2
  <2>4. Granted(q, H, Grant(q, H))
      BY <2>3, GrantFields DEF Sound
  <2> HIDE DEF H
  <2> QED BY <1>2, <1>3, <2>1, <2>2, <2>3, <2>4, BlockedStays DEF Sound
<1> QED BY <1>1, <1>2, <1>3, <1>4, <1>5

LEMMA DrainServes ==
    ASSUME NEW q, NEW strict \in BOOLEAN, Sound(q, strict), NEW d \in Drained(q)
    PROVE  /\ \E G : Served(q, G, d)
           /\ Sound(d, strict)
           /\ Armed(d)
           /\ \A t \in Waiting(d) : Blocked(d, t)
<1>1. PICK r \in Passes(q, Tokens) : d = Scheduled(r)
    BY DEF Drained
<1>2. PICK G \in SUBSET (Waiting(q) \cap Tokens) :
             /\ r = Grant(q, G) /\ Grantable(q, G) /\ Granted(q, G, r) /\ Sound(r, strict)
             /\ \A g \in G : MayOvertake(q, g)
             /\ \A t \in Waiting(r) \cap Tokens : Blocked(r, t)
    BY PassServes
<1>3. Rescheduled(r, d) /\ d.timer = (Waiting(r) # {} /\ (r.timer \/ r.active \ r.long # {}))
    BY <1>1, <1>2, ScheduledFields DEF Sound
<1>4. Sound(d, strict)
    BY <1>2, <1>3, ScheduledSound
<1>5. Armed(d)
    BY <1>3 DEF Armed, Rescheduled, Waiting
<1>6. ASSUME NEW t \in Waiting(d) PROVE Blocked(d, t)
  <2>1. t \in Waiting(r) \cap Tokens
      BY <1>2, <1>3 DEF Rescheduled, Waiting, Sound, Shape, QueueType
  <2> QED BY <1>2, <1>3, <2>1, BlockedWithoutTimer
<1>7. Served(q, G, d)
    BY <1>2, <1>3 DEF Served
<1> QED BY <1>4, <1>5, <1>6, <1>7

(* A waiter that is not blocked may be granted by itself.                    *)
LEMMA FreeGrantable ==
    ASSUME NEW q, NEW strict \in BOOLEAN, Sound(q, strict),
           NEW t \in Waiting(q), ~Blocked(q, t)
    PROVE  Grantable(q, {t})
<1>1. t \in Tokens /\ t \notin q.ahead[t] /\ t \in q.entries /\ t \notin q.active
    BY DEF Sound, Shape, QueueType, Ordered, Waiting
<1>2. q.deps[t] \subseteq q.ahead[t]
    BY <1>1, DependsOnFront DEF Sound
<1>3. q.deps[t] \cap (q.active \cup {t}) = {}
    BY <1>1, <1>2 DEF Blocked, Bypassable
<1>4. JoinApart(q, {t})
    BY <1>1 DEF Blocked, JoinApart
<1> QED BY <1>3, <1>4 DEF Grantable

(* Granting one leaves who is blocked blocked.                               *)
LEMMA GrantLeavesBlocked ==
    ASSUME NEW q, NEW strict \in BOOLEAN, Sound(q, strict),
           NEW t \in Waiting(q), ~Blocked(q, t), NEW w \in Waiting(q) \ {t}, Blocked(q, w)
    PROVE  Blocked(Grant(q, {t}), w)
<1>1. {t} \in SUBSET q.entries /\ {} \in SUBSET {t}
    BY DEF Waiting
<1>2. Granted(q, {t}, Grant(q, {t}))
    BY <1>1, GrantFields DEF Sound
<1>3. Granted(q, {}, q)
  <2>1. Passed(q, {}) = {}
      BY DEF Passed
  <2>2. \A x \in Tokens : q.gate[x] = GateAfter(q, {}, x)
      BY <2>1 DEF GateAfter
  <2>3. \A x \in Tokens : LiveWriters(q, q.active, x) \subseteq q.live[x]
      BY DEF LiveWriters, Sound, Disclosed
  <2>4. \A x \in Tokens : q.live[x] = q.live[x] \cup LiveWriters(q, q.active \cup {}, x)
      BY <2>3
  <2> QED BY <2>1, <2>2, <2>4 DEF Granted, Sound
<1> QED BY <1>1, <1>2, <1>3, BlockedStays DEF Sound

----------------------------------------------------------------------------
(* Joining the queue and leaving it.                                        *)

LEMMA EnqueueSound ==
    ASSUME NEW q, NEW strict \in BOOLEAN, Sound(q, strict),
           NEW t \in Tokens \ q.entries, NEW request, IsRequest(request)
    PROVE  /\ Sound(Enqueue(q, t, request), strict)
           /\ Enqueued(q, t, request, Enqueue(q, t, request))
           /\ t \in Waiting(Enqueue(q, t, request))
<1> DEFINE e == Enqueue(q, t, request)
<1>1. Enqueued(q, t, request, e)
    BY EnqueueFields DEF Sound
<1> HIDE DEF e
<1>2. Shape(q) /\ Shape(e) /\ t \notin q.active
    BY <1>1 DEF Sound, Enqueued, Shape
<1>3. \A x \in Tokens : e.ahead[x] = IF x = t THEN q.entries ELSE q.ahead[x]
    BY <1>1, <1>2 DEF Enqueued, Shape, QueueType
<1>4. \A x \in Tokens : e.claims[x] = IF x = t THEN request.claims ELSE q.claims[x]
    BY <1>1, <1>2 DEF Enqueued, Shape, QueueType
<1>5. \A x \in Tokens : e.deps[x] = IF x = t THEN Behind(q, t, request) ELSE q.deps[x]
    BY <1>1, <1>2 DEF Enqueued, Shape, QueueType
<1>6. q.entries \subseteq Tokens /\ q.active \subseteq q.entries
    BY <1>2 DEF Shape, QueueType
<1>7. Ordered(e)
  <2>1. \A x \in Tokens : e.ahead[x] \subseteq e.entries \ {x}
      BY <1>1, <1>3 DEF Enqueued, Sound, Ordered
  <2>2. \A x \in Tokens \ e.entries : e.ahead[x] = {}
      BY <1>1, <1>3 DEF Enqueued, Sound, Ordered
  <2>3. \A x \in Tokens : \A a \in e.ahead[x] : e.ahead[a] \subseteq e.ahead[x]
      BY <1>1, <1>3, <1>6 DEF Enqueued, Sound, Ordered
  <2>4. \A a, b \in e.entries : a # b => a \in e.ahead[b] \/ b \in e.ahead[a]
      BY <1>1, <1>3, <1>6 DEF Enqueued, Sound, Ordered
  <2> QED BY <2>1, <2>2, <2>3, <2>4 DEF Ordered
<1>8. Index(e)
  <2>1. Waiting(e) = Waiting(q) \cup {t}
      BY <1>1, <1>2 DEF Enqueued, Waiting
  <2>2. Preceding(e, t, e.ahead[t]) = Behind(q, t, request)
      BY <1>1, <1>3, <1>4, <1>6 DEF Enqueued, Preceding, Behind
  <2>3. ASSUME NEW x \in Waiting(q) PROVE e.deps[x] = Preceding(e, x, e.ahead[x])
    <3>1. x \in Tokens /\ x # t /\ q.ahead[x] \subseteq q.entries
        BY <1>6 DEF Waiting, Sound, Ordered
    <3>2. Preceding(e, x, e.ahead[x]) = Preceding(q, x, q.ahead[x])
        BY <1>1, <1>3, <1>4, <1>6, <3>1 DEF Enqueued, Preceding
    <3> QED BY <1>5, <3>1, <3>2 DEF Sound, Index
  <2>4. \A x \in Tokens \ Waiting(e) : e.deps[x] = {}
      BY <1>5, <2>1 DEF Sound, Index
  <2>5. q.deps[t] = {}
      BY DEF Sound, Index, Waiting
  <2>6. \A h, x \in Tokens : x \in q.dependents[h] <=> h \in q.deps[x]
      BY IndexedBothWays DEF Sound, Index
  <2>7. ASSUME NEW h \in Tokens, NEW x \in Tokens
        PROVE  x \in e.dependents[h] <=> h \in e.deps[x]
    <3>1. x \in q.dependents[h] <=> h \in q.deps[x]
        BY <2>6
    <3>2. /\ e.dependents[h] =
               IF h \in Behind(q, t, request) THEN q.dependents[h] \cup {t} ELSE q.dependents[h]
          /\ e.deps[x] = IF x = t THEN Behind(q, t, request) ELSE q.deps[x]
        BY <1>1, <1>5 DEF Enqueued
    <3> QED BY <2>5, <3>1, <3>2
  <2>8. e.dependents = Indexed(e)
      BY <1>2, <2>7, IndexedBothWays
  <2> QED BY <1>5, <2>1, <2>2, <2>3, <2>4, <2>8 DEF Index
<1>9. Gates(e)
  <2>1. q.ahead[t] = {}
      BY DEF Sound, Ordered
  <2> QED BY <1>1, <1>3, <2>1 DEF Enqueued, Sound, Gates
<1>10. \A x \in q.active : e.claims[x] = q.claims[x]
    BY <1>2, <1>4, <1>6
<1>11. Disclosed(e)
    BY <1>1, <1>10 DEF Enqueued, Sound, Disclosed
<1>12. Apart(e, e.active, TRUE) /\ (strict => ~e.relaxed /\ Apart(e, e.active, FALSE))
    BY <1>1, <1>10 DEF Enqueued, Sound, Apart
<1>13. Sound(e, strict)
    BY <1>2, <1>7, <1>8, <1>9, <1>11, <1>12 DEF Sound
<1>14. t \in Waiting(e)
    BY <1>1, <1>2 DEF Enqueued, Waiting
<1> QED BY <1>1, <1>13, <1>14 DEF e

LEMMA DiscardSound ==
    ASSUME NEW q, NEW strict \in BOOLEAN, Sound(q, strict), NEW t \in Tokens
    PROVE  Sound(Discard(q, t), strict) /\ Discarded(q, t, Discard(q, t))
<1> DEFINE d == Discard(q, t)
<1>1. Discarded(q, t, d)
    BY DiscardFields DEF Sound
<1> HIDE DEF d
<1>2. Shape(q) /\ Shape(d)
    BY <1>1 DEF Sound, Discarded
<1>3. \A x \in Tokens : d.claims[x] = IF x = t THEN {} ELSE q.claims[x]
    BY <1>1, <1>2 DEF Discarded, Shape, QueueType
<1>4. ASSUME NEW x \in Tokens PROVE d.deps[x] = IF x = t THEN {} ELSE q.deps[x] \ {t}
  <2>1. x \in q.dependents[t] <=> t \in q.deps[x]
      BY <1>2, IndexedBothWays DEF Sound, Index
  <2>2. d.deps[x] = IF x = t THEN {}
                    ELSE IF x \in q.dependents[t] THEN q.deps[x] \ {t} ELSE q.deps[x]
      BY <1>1 DEF Discarded
  <2> QED BY <2>1, <2>2
<1>5. \A x \in Tokens : d.ahead[x] = IF x = t THEN {} ELSE q.ahead[x] \ {t}
    BY <1>1 DEF Discarded
<1>6. q.entries \subseteq Tokens /\ q.active \subseteq q.entries
    BY <1>2 DEF Shape, QueueType
<1>e. /\ d.entries = q.entries \ {t} /\ d.active = q.active \ {t} /\ d.relaxed = q.relaxed
      /\ \A x \in Tokens : d.gate[x] = IF x = t THEN {} ELSE q.gate[x] \ {t}
    BY <1>1 DEF Discarded
<1>7. Ordered(d)
  <2>a. ASSUME NEW x \in Tokens
        PROVE  /\ d.ahead[x] \subseteq q.ahead[x] \ {t}
               /\ q.ahead[x] \subseteq q.entries \ {x}
               /\ x \notin q.entries => q.ahead[x] = {}
      BY <1>5 DEF Sound, Ordered
  <2>1. \A x \in Tokens : d.ahead[x] \subseteq d.entries \ {x}
      BY <1>e, <2>a
  <2>2. ASSUME NEW x \in Tokens \ d.entries PROVE d.ahead[x] = {}
      BY <1>e, <1>5, <2>a
  <2>3. ASSUME NEW x \in Tokens, NEW a \in d.ahead[x] PROVE d.ahead[a] \subseteq d.ahead[x]
    <3>1. x # t /\ a # t /\ a \in q.ahead[x] /\ a \in Tokens
        BY <1>5, <1>6, <2>3, <2>a
    <3>2. q.ahead[a] \subseteq q.ahead[x]
        BY <3>1 DEF Sound, Ordered
    <3> QED BY <1>5, <3>1, <3>2
  <2>4. \A a, b \in d.entries : a # b => a \in d.ahead[b] \/ b \in d.ahead[a]
    <3>1. \A a, b \in q.entries : a # b => a \in q.ahead[b] \/ b \in q.ahead[a]
        BY DEF Sound, Ordered
    <3> QED BY <1>e, <1>5, <1>6, <3>1
  <2> QED BY <2>1, <2>2, <2>3, <2>4 DEF Ordered
<1>8. Index(d)
  <2>1. Waiting(d) = Waiting(q) \ {t}
      BY <1>1 DEF Discarded, Waiting
  <2>2. ASSUME NEW x \in Waiting(d) PROVE d.deps[x] = Preceding(d, x, d.ahead[x])
    <3>1. x \in Tokens /\ x # t /\ x \in Waiting(q) /\ q.ahead[x] \subseteq Tokens
        BY <1>2, <2>1 DEF Waiting, Shape, QueueType
    <3>2. Preceding(d, x, d.ahead[x]) = Preceding(q, x, q.ahead[x]) \ {t}
      <4>1. /\ d.ahead[x] = q.ahead[x] \ {t} /\ d.claims[x] = q.claims[x]
            /\ \A h \in q.ahead[x] \ {t} : d.claims[h] = q.claims[h]
          BY <1>3, <1>5, <3>1
      <4> QED BY <1>e, <4>1 DEF Preceding
    <3> QED BY <1>4, <3>1, <3>2 DEF Sound, Index
  <2>3. \A x \in Tokens \ Waiting(d) : d.deps[x] = {}
      BY <1>4, <2>1 DEF Sound, Index
  <2>4. ASSUME NEW h \in Tokens, NEW x \in Tokens
        PROVE  x \in d.dependents[h] <=> h \in d.deps[x]
    <3>1. x \in q.dependents[h] <=> h \in q.deps[x]
        BY <1>2, IndexedBothWays DEF Sound, Index
    <3>2. d.dependents[h] = IF h = t THEN {} ELSE q.dependents[h] \ {t}
        BY <1>1 DEF Discarded
    <3> QED BY <1>4, <3>1, <3>2
  <2>5. d.dependents = Indexed(d)
      BY <1>2, <2>4, IndexedBothWays
  <2> QED BY <2>2, <2>3, <2>5 DEF Index
<1>9. Gates(d)
    BY <1>e, <1>5 DEF Sound, Gates
<1>10. \A x \in d.active : d.claims[x] = q.claims[x] /\ d.live[x] = q.live[x] /\ x \in q.active
    BY <1>1, <1>2, <1>3, <1>6 DEF Discarded, Shape, QueueType
<1>11. Disclosed(d)
    BY <1>10 DEF Sound, Disclosed
<1>12. Apart(d, d.active, TRUE) /\ (strict => ~d.relaxed /\ Apart(d, d.active, FALSE))
    BY <1>e, <1>10 DEF Sound, Apart
<1>13. Sound(d, strict)
    BY <1>2, <1>7, <1>8, <1>9, <1>11, <1>12 DEF Sound
<1> QED BY <1>1, <1>13 DEF d

(* Matching the waiters again under other semantics leaves the owners as    *)
(* they are.                                                                *)
LEMMA ReindexSound ==
    ASSUME NEW q, Sound(q, FALSE), NEW relaxed \in BOOLEAN
    PROVE  Sound(Reindexed(q, relaxed), FALSE) /\ Rematched(q, relaxed, Reindexed(q, relaxed))
<1> DEFINE x == Reindexed(q, relaxed)
<1>1. Rematched(q, relaxed, x)
    BY ReindexFields DEF Sound
<1> HIDE DEF x
<1>2. Shape(x) /\ Ordered(x)
    BY <1>1 DEF Rematched, Sound, Ordered
<1>3. Index(x)
  <2>1. Waiting(x) = Waiting(q) /\ Waiting(q) \subseteq Tokens
      BY <1>1, <1>2 DEF Rematched, Waiting, Shape, QueueType
  <2>2. \A t \in Tokens :
          Preceding(x, t, x.ahead[t]) = {h \in q.ahead[t] : Overlaps(q.claims[t], q.claims[h], relaxed)}
      BY <1>1 DEF Rematched, Preceding
  <2>3. \A t \in Waiting(x) : x.deps[t] = Preceding(x, t, x.ahead[t])
      BY <1>1, <2>1, <2>2 DEF Rematched
  <2>4. \A t \in Tokens \ Waiting(x) : x.deps[t] = {}
      BY <1>1, <2>1 DEF Rematched, Sound, Index
  <2>5. x.dependents = Indexed(x)
      BY <1>1 DEF Rematched
  <2> QED BY <2>3, <2>4, <2>5 DEF Index
<1>4. Gates(x) /\ Disclosed(x) /\ Apart(x, x.active, TRUE)
    BY <1>1 DEF Rematched, Sound, Gates, Disclosed, Apart
<1>5. Sound(x, FALSE)
    BY <1>2, <1>3, <1>4 DEF Sound
<1> QED BY <1>1, <1>5 DEF x

LEMMA EmptySound ==
    ASSUME NEW relaxed \in BOOLEAN, NEW strict \in BOOLEAN, strict => ~relaxed
    PROVE  Sound(EmptyQueue(relaxed), strict)
<1> DEFINE e == EmptyQueue(relaxed)
<1>1. /\ Shape(e) /\ e.entries = {} /\ e.active = {} /\ e.relaxed = relaxed
      /\ e.ahead = [t \in Tokens |-> {}] /\ e.deps = [t \in Tokens |-> {}]
      /\ e.dependents = [t \in Tokens |-> {}] /\ e.gate = [t \in Tokens |-> {}]
    BY EmptyFields DEF EmptyQueue
<1> HIDE DEF e
<1>2. Ordered(e) /\ Gates(e) /\ Disclosed(e)
    BY <1>1 DEF Ordered, Gates, Disclosed
<1>3. e.dependents = Indexed(e)
    BY <1>1 DEF Indexed
<1>4. Index(e)
    BY <1>1, <1>3 DEF Index, Waiting
<1>5. Sound(e, strict)
    BY <1>1, <1>2, <1>4 DEF Sound, Apart
<1> QED BY <1>5 DEF e

LEMMA AgeSound ==
    ASSUME NEW q, NEW strict \in BOOLEAN, Sound(q, strict), NEW t \in q.active
    PROVE  Sound([q EXCEPT !.long = @ \cup {t}], strict)
<1> DEFINE d == [q EXCEPT !.long = @ \cup {t}]
<1>1. /\ Shape(d) /\ d.entries = q.entries /\ d.ahead = q.ahead /\ d.claims = q.claims
      /\ d.active = q.active /\ d.deps = q.deps /\ d.dependents = q.dependents
      /\ d.gate = q.gate /\ d.live = q.live /\ d.relaxed = q.relaxed
    BY DEF Sound, Shape, QueueType
<1> HIDE DEF d
<1>2. Ordered(d) /\ Index(d)
    BY <1>1 DEF Sound, Ordered, Index, Waiting, Preceding, Indexed
<1>3. Gates(d) /\ Disclosed(d)
    BY <1>1 DEF Sound, Gates, Disclosed
<1>4. Apart(d, d.active, TRUE) /\ (strict => ~d.relaxed /\ Apart(d, d.active, FALSE))
    BY <1>1 DEF Sound, Apart
<1>5. Sound(d, strict)
    BY <1>1, <1>2, <1>3, <1>4 DEF Sound
<1> QED BY <1>5 DEF d

LEMMA QuietSound ==
    ASSUME NEW q, NEW strict \in BOOLEAN, Sound(q, strict)
    PROVE  /\ Rescheduled(q, [q EXCEPT !.timer = FALSE])
           /\ Sound([q EXCEPT !.timer = FALSE], strict)
<1>1. Rescheduled(q, [q EXCEPT !.timer = FALSE])
    BY DEF Sound, Shape, QueueType, Rescheduled
<1> QED BY <1>1, ScheduledSound

----------------------------------------------------------------------------
(* What a queue keeps of another: the entries, with all that was known of   *)
(* them.                                                                    *)
Keeps(q, d) ==
    /\ d.active = q.active /\ d.gated = q.gated /\ d.relaxed = q.relaxed
    /\ q.entries \subseteq d.entries
    /\ \A x \in q.entries : /\ d.deps[x] = q.deps[x] /\ d.claims[x] = q.claims[x]
                            /\ d.bounded[x] = q.bounded[x] /\ d.gate[x] = q.gate[x]

LEMMA OwnRootsInFront ==
    ASSUME NEW q, Shape(q), Ordered(q), Index(q), NEW b \in Waiting(q)
    PROVE  Roots(q, b) \subseteq q.ahead[b]
<1>1. q = [q EXCEPT !.active = q.active]
    BY DEF Shape, QueueType
<1>2. q.active \in SUBSET q.entries /\ b \in q.entries \ q.active
    BY DEF Shape, Waiting
<1>3. Roots([q EXCEPT !.active = q.active], b) \subseteq q.active \cap q.ahead[b]
    BY <1>2, RootsInFront
<1> QED BY <1>1, <1>3

(* Who is blocked stays so, when no owner in front of it becomes long.      *)
LEMMA StillBlocked ==
    ASSUME NEW q, NEW strict \in BOOLEAN, Sound(q, strict), NEW d, Keeps(q, d),
           NEW w \in Waiting(q), \A o \in d.long \ q.long : o \notin q.ahead[w],
           Blocked(q, w)
    PROVE  Blocked(d, w)
<1> SUFFICES ASSUME ~Blocked(d, w) PROVE FALSE
    OBVIOUS
<1>1. w \in q.entries /\ w \in Tokens /\ w \notin q.active /\ q.active \subseteq q.entries
    BY DEF Waiting, Sound, Shape, QueueType
<1>2. q.deps[w] \subseteq q.ahead[w] /\ q.deps[w] \subseteq q.entries
    BY <1>1, DependsOnFront DEF Sound, Ordered
<1>3. ~\E h \in q.active \ {w} : Overlaps(q.claims[w], q.claims[h], q.relaxed)
    BY <1>1 DEF Blocked, Keeps
<1>4. q.deps[w] # {} /\ ~Bypassable(q, w) /\ Bypassable(d, w)
    BY <1>1, <1>3 DEF Blocked, Keeps
<1>5. q.bounded[w] /\ (q.relaxed \/ StrictBypassAllowed(q, w))
    BY <1>1, <1>2, <1>4 DEF Bypassable, Keeps, StrictBypassAllowed
<1>6. ASSUME NEW b \in q.deps[w] PROVE b \notin q.active /\ BypassRoots(q, b) \cap q.long # {}
  <2>1. b \notin d.active /\ BypassRoots(d, b) \cap d.long # {}
      BY <1>1, <1>4, <1>6 DEF Bypassable, Keeps
  <2>2. b \in q.entries /\ b \in Waiting(q) /\ b \in Tokens
      BY <1>2, <2>1 DEF Keeps, Waiting, Sound, Shape, QueueType
  <2>3. PICK o \in d.long : o \in BypassRoots(d, b)
      BY <2>1
  <2>4. o \in Roots(d, b) /\ o \in q.active
      BY <2>3 DEF BypassRoots, Roots, Keeps
  <2>5. o \in Roots(q, b)
    <3>1. SUFFICES ASSUME NEW S \in SUBSET q.entries, Reached(q, b, S) PROVE o \in S
        BY <2>4 DEF Roots
    <3>2. S \in SUBSET d.entries /\ Reached(d, b, S)
        BY <3>1 DEF Reached, Keeps
    <3> QED BY <2>4, <3>2 DEF Roots
  <2>6. o \in BypassRoots(q, b)
      BY <2>2, <2>3, <2>5 DEF BypassRoots, Keeps
  <2>7. Roots(q, b) \subseteq q.ahead[b]
      BY <2>2, OwnRootsInFront DEF Sound
  <2>8. q.ahead[b] \subseteq q.ahead[w]
      BY <1>1, <1>2, <1>6 DEF Sound, Ordered
  <2> QED BY <2>1, <2>3, <2>5, <2>6, <2>7, <2>8 DEF Keeps
<1>7. Bypassable(q, w)
    BY <1>4, <1>5, <1>6, Zenon DEF Bypassable
<1> QED BY <1>4, <1>7

=============================================================================
