----------------------------- MODULE ClaimQueue -----------------------------
(***************************************************************************)
(* The claim queue of the Agent as a data structure: what the methods of   *)
(* ResourceQueue (src/agent/resource_queue.py) compute.                    *)
(*                                                                         *)
(* An operation asks for a whole set of path and service claims at once.   *)
(* It waits behind every earlier conflicting entry, granted or not, except *)
(* that a bounded file operation may overtake waiters that are themselves  *)
(* stuck behind a long-running owner.                                      *)
(*                                                                         *)
(* The state is one record so that two specifications can share these      *)
(* operators: ResourceQueue, the queue by itself, and ProjectScheduler,    *)
(* which drains the same queue.  The insertion order of the entries dict   *)
(* is kept as the set of entries each one found in front of it.            *)
(***************************************************************************)
EXTENDS Naturals, FiniteSets, SequencesExt

CONSTANT Tokens    \* the identities of the entries

(* A claim: a path (or service name) as the sequence of its components,    *)
(* held by a file tool or by a process; a process may ask for a stable     *)
(* read (no file write while it runs).                                     *)
Claim == [kind : {"path", "service"}, name : Seq(STRING), write : BOOLEAN,
          holder : {"file", "process"}, stable : BOOLEAN]

----------------------------------------------------------------------------
(* Conflicts.  Under relaxed semantics a file claim and a process claim     *)
(* conflict only when the file claim writes something the process writes or *)
(* wants stable.                                                            *)

MayTear(a, b) ==
    \E f \in {a, b}, p \in {a, b} :
        /\ f.holder = "file" /\ p.holder = "process"
        /\ f.write /\ (p.write \/ p.stable)

Conflicts(a, b, relaxed) ==
    /\ a.kind = b.kind
    /\ a.write \/ b.write
    /\ IF a.kind = "service"
       THEN a.name = b.name
       ELSE /\ (relaxed /\ a.holder # b.holder) => MayTear(a, b)
            /\ IsPrefix(a.name, b.name) \/ IsPrefix(b.name, a.name)

Overlaps(left, right, relaxed) ==
    \E a \in left, b \in right : Conflicts(a, b, relaxed)

(* A file read that runs beside a process write: the reader is told.        *)
ReadsLive(reader, writer) ==
    \E a \in reader, b \in writer :
        /\ a.holder = "file" /\ ~a.write
        /\ b.holder = "process" /\ b.write
        /\ Conflicts(a, b, FALSE)

----------------------------------------------------------------------------
(* The queue object.  deps and dependents are the two directions of the     *)
(* cached dependency index; gate[b] is the generation of owners (_bypass_   *)
(* roots) b was first overtaken under, for the b in gated; long are the     *)
(* owners that have held their claims for bypass_seconds.                   *)

EmptyQueue(relaxed) ==
    [entries    |-> {},
     ahead      |-> [t \in Tokens |-> {}],
     claims     |-> [t \in Tokens |-> {}],
     bounded    |-> [t \in Tokens |-> FALSE],
     active     |-> {},
     deps       |-> [t \in Tokens |-> {}],
     dependents |-> [t \in Tokens |-> {}],
     gated      |-> {},
     gate       |-> [t \in Tokens |-> {}],
     live       |-> [t \in Tokens |-> {}],
     long       |-> {},
     relaxed    |-> relaxed,
     timer      |-> FALSE]

Waiting(q) == q.entries \ q.active

DepsOfActive(q, t, held) ==   \* mutant of Preceding: only owners are in the way
    {h \in held \cap q.active : Overlaps(q.claims[t], q.claims[h], q.relaxed)}
Preceding(q, t, held) ==
    {h \in held : Overlaps(q.claims[t], q.claims[h], q.relaxed)}

Indexed(q) ==   \* the reverse index that goes with deps
    [h \in Tokens |-> {t \in Tokens : h \in q.deps[t]}]

Enqueue(q, t, request) ==
    LET named == [q EXCEPT !.entries = @ \cup {t},
                           !.ahead[t] = q.entries,
                           !.claims[t] = request.claims,
                           !.bounded[t] = request.bounded]
        behind == Preceding(named, t, q.entries)
    IN [named EXCEPT !.deps[t] = behind,
                     !.dependents = [h \in Tokens |->
                         IF h \in behind THEN @[h] \cup {t} ELSE @[h]]]

(* Owners an entry waits for, through the waiters between them: the owners  *)
(* in every set that contains it and what its waiters depend on.            *)
Reached(q, t, S) == t \in S /\ \A w \in S \ q.active : q.deps[w] \subseteq S
Roots(q, t) == {o \in q.active : \A S \in SUBSET q.entries : Reached(q, t, S) => o \in S}

StrictBypassAllowed(q, t) ==
    /\ q.claims[t] # {}
    /\ \A mine \in q.claims[t] :
        /\ ~mine.write /\ mine.holder = "file"
        /\ \A b \in q.deps[t] : \A other \in q.claims[b] :
            other.holder # "process" => ~Conflicts(mine, other, FALSE)

AnyRoot(q, b) == Roots(q, b)   \* mutant of BypassRoots: gate forgotten
BypassRoots(q, b) ==
    IF b \in q.gated THEN Roots(q, b) \cap q.gate[b] ELSE Roots(q, b)

Bypassable(q, t) ==
    /\ q.bounded[t]
    /\ q.deps[t] # {}
    /\ q.relaxed \/ StrictBypassAllowed(q, t)
    /\ \A b \in q.deps[t] : b \notin q.active /\ BypassRoots(q, b) \cap q.long # {}

BlockedByQueueOnly(q, t) ==   \* mutant of Blocked: younger owners forgotten
    q.deps[t] # {} /\ ~Bypassable(q, t)
Blocked(q, t) ==
    \/ \E h \in q.active \ {t} : Overlaps(q.claims[t], q.claims[h], q.relaxed)
    \/ q.deps[t] # {} /\ ~Bypassable(q, t)

NewReaderOnly(q, act, t) ==   \* mutant of LiveWriters: late writers not disclosed
    IF t \in act \ q.active
    THEN {w \in act \ {t} : ReadsLive(q.claims[t], q.claims[w])} ELSE {}
LiveWriters(q, act, t) ==
    IF q.relaxed /\ t \in act
    THEN {w \in act \ {t} : ReadsLive(q.claims[t], q.claims[w])} ELSE {}

(* grant, for all the members of G: they become owners and leave the index, *)
(* every waiter they overtake is gated by the owners it waits for.          *)
Grant(q, G) ==
    LET act       == q.active \cup G
        overtaken == UNION {q.deps[g] : g \in G}
    IN [q EXCEPT
           !.active = act,
           !.deps = [t \in Tokens |-> IF t \in G THEN {} ELSE @[t]],
           !.dependents = [t \in Tokens |-> @[t] \ G],
           !.gated = @ \cup overtaken,
           !.gate = [t \in Tokens |->
               IF t \in overtaken \ q.gated
               THEN Roots([q EXCEPT !.active = act], t) ELSE @[t]],
           !.live = [t \in Tokens |-> @[t] \cup LiveWriters(q, act, t)]]

(* discard: t leaves, as an owner or as a waiter, and the waiters behind it *)
(* stop depending on it.  A released owner is nobody's root again, so it is *)
(* dropped from the gates too.                                              *)
KeepEdges(q, t) ==   \* mutant of Dependents: a cancelled waiter keeps its edges
    IF t \in q.active THEN q.dependents[t] ELSE {}
Dependents(q, t) == q.dependents[t]

Discard(q, t) ==
    LET freed == Dependents(q, t) IN
    [q EXCEPT
        !.entries = @ \ {t},
        !.active = @ \ {t},
        !.ahead = [x \in Tokens |-> IF x = t THEN {} ELSE @[x] \ {t}],
        !.claims[t] = {},
        !.bounded[t] = FALSE,
        !.deps = [x \in Tokens |->
            IF x = t THEN {} ELSE IF x \in freed THEN @[x] \ {t} ELSE @[x]],
        !.dependents = [x \in Tokens |-> IF x = t THEN {} ELSE @[x] \ {t}],
        !.gated = @ \ {t},
        !.gate = [x \in Tokens |-> IF x = t THEN {} ELSE @[x] \ {t}],
        !.live[t] = {},
        !.long = @ \ {t}]

----------------------------------------------------------------------------
(* drain goes once through the waiters that sleep on an event of their own  *)
(* (own), oldest first, and grants each that is not blocked at its turn.    *)
(* IsPass characterises the set it grants: a waiter is in G exactly when it *)
(* is free once the older members of G own their claims.  Then the bypass   *)
(* timer is armed for the next owner to become long, or dropped when nobody *)
(* waits.                                                                   *)

IsPass(q, own, G) ==
    \A t \in Waiting(q) \cap own :
        (t \in G) <=> \E r \in {Grant(q, G \cap q.ahead[t])} : ~Blocked(r, t)

Passes(q, own) ==
    {Grant(q, G) : G \in {G \in SUBSET (Waiting(q) \cap own) : IsPass(q, own, G)}}

NeverArmed(q) ==   \* mutant of Scheduled: strict mode has no timer
    [q EXCEPT !.timer = Waiting(q) # {} /\ (@ \/ (q.relaxed /\ q.active \ q.long # {}))]
Scheduled(q) ==
    [q EXCEPT !.timer = Waiting(q) # {} /\ (@ \/ q.active \ q.long # {})]

Drained(q) == UNION {{Scheduled(r) : r \in Passes(start, Tokens)} : start \in {q}}

(* reconfigure: the owners stay, what waits is matched again under the new  *)
(* semantics and all gates are forgotten.                                   *)
Reindexed(q, relaxed) ==
    LET under == [q EXCEPT !.relaxed = relaxed]
        again == [under EXCEPT
                     !.deps = [t \in Tokens |->
                         IF t \in Waiting(q) THEN Preceding(under, t, q.ahead[t]) ELSE @[t]],
                     !.gated = {},
                     !.gate = [t \in Tokens |-> {}]]
    IN [again EXCEPT !.dependents = Indexed(again)]

=============================================================================
