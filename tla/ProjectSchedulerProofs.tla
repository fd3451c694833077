----------------------- MODULE ProjectSchedulerProofs -----------------------
(***************************************************************************)
(* Capacity and claims are granted together, and nobody is forgotten: the  *)
(* two safety properties of ProjectScheduler, for any tokens, tickets,     *)
(* lanes' limits and project limits.                                       *)
(*                                                                         *)
(* The invariant is Fit: the claim queue is Sound, a ticket is in one      *)
(* place, and for every ticket with claims the scheduler and the queue say *)
(* the same (Placed).  Every handler changes both and ends with a drain,   *)
(* so it is shown in two halves: what the handler hands to the drain is    *)
(* Fit, and the drain keeps Fit and leaves nobody who could go.            *)
(*                                                                         *)
(* A drain grants one selected ticket after the other.  GrantTickets is a  *)
(* recursive function over as many rounds as there are waiters; that it    *)
(* exists, and what holds after each round, are shown by a least           *)
(* counterexample.  Each round either finds nobody selected or leaves one  *)
(* waiter less, and when nobody is selected nobody is eligible, because a  *)
(* finite set of waiters has one that precedes all others (SomeoneFirst).  *)
(***************************************************************************)
EXTENDS ProjectScheduler, ClaimQueueProofs, SequenceTheorems, FiniteSetTheorems,
        WellFoundedInduction, TLAPS

Tickets == Kinds \cup Conversions \cup {NoTicket}
Keys == {<<k.lane, k.project>> : k \in Tickets}

SchedType ==
    [waiting : Seq(Tokens), active : SUBSET Tokens,
     turn : SUBSET (Keys \X Keys), ticket : [Tokens -> Tickets]]

Single(line) == \A i, j \in DOMAIN line : i # j => line[i] # line[j]

(* Who is served at all is served no later than itself.                     *)
Reflexive(turn) == \A p \in turn : <<p[1], p[1]>> \in turn /\ <<p[2], p[2]>> \in turn

(* The state of the scheduler by itself.                                    *)
Tidy(s) ==
    /\ s \in SchedType
    /\ IsFiniteSet(s.active) /\ IsFiniteSet(s.turn)
    /\ Single(s.waiting)
    /\ Reflexive(s.turn)

(* Where t is, in both halves and in its coroutine.                         *)
Placed(q, s, places, t) ==
    /\ ~(t \in s.active /\ t \in ToSet(s.waiting))
    /\ HasClaims(s, t) =>
        /\ t \in s.active <=> t \in q.active
        /\ t \in ToSet(s.waiting) <=> t \in Waiting(q)
    /\ t \in q.entries => HasClaims(s, t) \/ places[t] = "local"
    /\ places[t] \in {"idle", "local"} =>
        ~HasClaims(s, t) /\ t \notin s.active /\ t \notin ToSet(s.waiting)
    /\ places[t] = "running" => t \in s.active

Fit(q, s, places) ==
    /\ Sound(q, FALSE)
    /\ Tidy(s)
    /\ places \in [Tokens -> Places]
    /\ \A t \in Tokens : Placed(q, s, places, t)

LocalsBlocked(q, places) == \A t \in Locals(places) \cap Waiting(q) : Blocked(q, t)

Inv ==
    /\ Fit(queue, sched, pc)
    /\ limit \in Limits \cup {0} /\ {paused, closed, notify} \subseteq BOOLEAN
    /\ ~notify => Armed(queue)
    /\ NobodyForgotten

----------------------------------------------------------------------------
(* A non-empty set of naturals has a least member.                          *)
LEMMA Least ==
    ASSUME NEW T, T \subseteq Nat, T # {}
    PROVE  \E n \in T : \A m \in T : n <= m
<1>1. PICK n \in T : \A m \in T : <<m, n>> \notin OpToRel(<, Nat)
    BY NatLessThanWellFounded, WFMin
<1>2. \A m \in T : ~(m < n)
    BY <1>1 DEF OpToRel
<1> QED BY <1>2

(* What is left of a line that its k-th member has left.                     *)
LEMMA WithoutOne ==
    ASSUME NEW q \in Seq(Tokens), Single(q), NEW k \in DOMAIN q
    PROVE  /\ RemoveAt(q, k) \in Seq(Tokens) /\ Single(RemoveAt(q, k))
           /\ ToSet(RemoveAt(q, k)) = ToSet(q) \ {q[k]}
           /\ Len(RemoveAt(q, k)) = Len(q) - 1
<1>1. k \in 1..Len(q) /\ Len(q) \in Nat /\ DOMAIN q = 1..Len(q)
    BY LenProperties
<1>2. PICK left : left = SubSeq(q, 1, k - 1)
    OBVIOUS
<1>3. PICK right : right = SubSeq(q, k + 1, Len(q))
    OBVIOUS
<1>4. /\ left \in Seq(Tokens) /\ Len(left) = k - 1
      /\ \A j \in 1..k - 1 : left[j] = q[j]
    BY <1>1, <1>2, SubSeqProperties
<1>5. /\ right \in Seq(Tokens) /\ Len(right) = Len(q) - k
      /\ \A j \in 1..Len(q) - k : right[j] = q[k + j]
    BY <1>1, <1>3, SubSeqProperties
<1>6. PICK r : r = left \o right
    OBVIOUS
<1>7. r = RemoveAt(q, k)
    BY <1>2, <1>3, <1>6 DEF RemoveAt
<1>8. /\ r \in Seq(Tokens) /\ DOMAIN r = 1..Len(q) - 1 /\ Len(r) = Len(q) - 1
      /\ \A j \in 1..Len(q) - 1 : r[j] = IF j < k THEN q[j] ELSE q[j + 1]
    <2>1. /\ r \in Seq(Tokens) /\ Len(r) = Len(q) - 1
          /\ \A j \in 1..Len(left) + Len(right) :
                r[j] = IF j <= Len(left) THEN left[j] ELSE right[j - Len(left)]
        <3>1. Len(left) + Len(right) = Len(q) - 1
            BY <1>1, <1>4, <1>5
        <3>2. /\ left \o right \in Seq(Tokens) /\ Len(left \o right) = Len(left) + Len(right)
              /\ \A j \in 1..Len(left) + Len(right) :
                    (left \o right)[j] = IF j <= Len(left) THEN left[j] ELSE right[j - Len(left)]
            <4>1. left \in Seq(Tokens) /\ right \in Seq(Tokens)
                BY <1>4, <1>5
            <4> QED BY <4>1, ConcatProperties
        <3> QED BY <1>6, <3>1, <3>2
    <2>2. DOMAIN r = 1..Len(q) - 1
        BY <2>1, LenProperties
    <2>3. ASSUME NEW j \in 1..Len(q) - 1 PROVE r[j] = IF j < k THEN q[j] ELSE q[j + 1]
        <3>1. CASE j < k
            <4>1. j \in 1..k - 1 /\ j \in 1..Len(left) + Len(right) /\ j <= Len(left)
                BY <1>1, <1>4, <1>5, <2>3, <3>1
            <4> QED BY <1>4, <2>1, <3>1, <4>1
        <3>2. CASE ~(j < k)
            <4>1. /\ j \in 1..Len(left) + Len(right) /\ ~(j <= Len(left))
                  /\ j - Len(left) \in 1..Len(q) - k /\ k + (j - Len(left)) = j + 1
                BY <1>1, <1>4, <1>5, <2>3, <3>2
            <4>2. right[j - Len(left)] = q[k + (j - Len(left))]
                BY <1>5, <4>1
            <4> QED BY <2>1, <3>2, <4>1, <4>2
        <3> QED BY <3>1, <3>2
    <2> QED BY <2>1, <2>2, <2>3
<1> DEFINE at(j) == IF j < k THEN j ELSE j + 1
<1>9. \A j \in 1..Len(q) - 1 : at(j) \in 1..Len(q) /\ at(j) # k /\ r[j] = q[at(j)]
    BY <1>1, <1>8
<1>10. Single(r)
    <2>1. ASSUME NEW m \in DOMAIN r, NEW n \in DOMAIN r, m # n PROVE r[m] # r[n]
        <3>1. m \in 1..Len(q) - 1 /\ n \in 1..Len(q) - 1 /\ at(m) # at(n)
            BY <1>1, <1>8, <2>1
        <3>2. q[at(m)] # q[at(n)]
            BY <1>1, <1>9, <3>1 DEF Single
        <3> QED BY <1>9, <3>1, <3>2
    <2> QED BY <2>1 DEF Single
<1>11. ToSet(r) = ToSet(q) \ {q[k]}
    <2>1. ASSUME NEW x \in ToSet(r) PROVE x \in ToSet(q) \ {q[k]}
        <3>1. PICK j \in 1..Len(q) - 1 : x = r[j]
            BY <1>8 DEF ToSet
        <3>2. x = q[at(j)] /\ at(j) \in 1..Len(q) /\ at(j) # k
            BY <1>9, <3>1
        <3> QED BY <1>1, <3>2 DEF ToSet, Single
    <2>2. ASSUME NEW x \in ToSet(q) \ {q[k]} PROVE x \in ToSet(r)
        <3>1. PICK n \in 1..Len(q) : x = q[n] /\ n # k
            BY <1>1 DEF ToSet
        <3>2. CASE n < k
            BY <1>1, <1>8, <3>1, <3>2 DEF ToSet
        <3>3. CASE n > k
            <4>1. n - 1 \in 1..Len(q) - 1 /\ ~(n - 1 < k) /\ (n - 1) + 1 = n
                BY <1>1, <3>1, <3>3
            <4>2. r[n - 1] = x
                BY <1>8, <3>1, <4>1
            <4> QED BY <1>8, <4>1, <4>2 DEF ToSet
        <3> QED BY <1>1, <3>1, <3>2, <3>3
    <2> QED BY <2>1, <2>2
<1> QED BY <1>7, <1>8, <1>10, <1>11

(* list.remove takes out t, if it is there, and nothing else.               *)
LEMMA LeaveFacts ==
    ASSUME NEW line \in Seq(Tokens), Single(line), NEW t
    PROVE  /\ Leave(line, t) \in Seq(Tokens) /\ Single(Leave(line, t))
           /\ ToSet(Leave(line, t)) = ToSet(line) \ {t}
           /\ t \in ToSet(line) => Len(Leave(line, t)) = Len(line) - 1
<1>1. CASE t \in ToSet(line)
    <2>1. PICK k \in DOMAIN line : line[k] = t
        BY <1>1 DEF ToSet
    <2>2. \A j \in DOMAIN line : line[j] = t => j = k
        BY <2>1 DEF Single
    <2>3. k \in Nat
        BY <2>1, LenProperties
    <2>4. k = CHOOSE i \in DOMAIN line : line[i] = t /\ \A j \in DOMAIN line : line[j] = t => i <= j
        BY <2>1, <2>2, <2>3
    <2>5. Leave(line, t) = RemoveAt(line, k)
        BY <2>1, <2>4, Zenon DEF Leave
    <2> QED BY <2>1, <2>5, WithoutOne
<1>2. CASE t \notin ToSet(line)
    <2>1. Leave(line, t) = line
        BY <1>2 DEF Leave, ToSet
    <2> QED BY <1>2, <2>1
<1> QED BY <1>1, <1>2

(* Who joins at the end.                                                    *)
LEMMA JoinFacts ==
    ASSUME NEW line \in Seq(Tokens), Single(line), NEW t \in Tokens, t \notin ToSet(line)
    PROVE  /\ Append(line, t) \in Seq(Tokens) /\ Single(Append(line, t))
           /\ ToSet(Append(line, t)) = ToSet(line) \cup {t}
           /\ Len(Append(line, t)) = Len(line) + 1
           /\ Append(line, t)[Len(line) + 1] = t
<1>1. PICK n \in Nat : n = Len(line) /\ DOMAIN line = 1..n
    BY LenProperties
<1>2. PICK more : more = Append(line, t)
    OBVIOUS
<1>3. /\ more \in Seq(Tokens) /\ Len(more) = n + 1
      /\ more[n + 1] = t /\ \A i \in 1..n : more[i] = line[i]
    BY <1>1, <1>2, AppendProperties
<1>4. DOMAIN more = 1..n + 1
    BY <1>3, LenProperties
<1>5. Single(more)
    BY <1>1, <1>3, <1>4 DEF Single, ToSet
<1>6. ToSet(more) = ToSet(line) \cup {t}
  <2>1. ASSUME NEW x \in ToSet(more) PROVE x \in ToSet(line) \cup {t}
    <3>1. PICK i \in 1..n + 1 : x = more[i]
        BY <1>4 DEF ToSet
    <3>2. i \in 1..n \/ i = n + 1
        BY <1>1
    <3> QED BY <1>1, <1>3, <3>1, <3>2 DEF ToSet
  <2>2. ASSUME NEW x \in ToSet(line) PROVE x \in ToSet(more)
    <3>1. PICK i \in 1..n : x = line[i]
        BY <1>1 DEF ToSet
    <3>2. i \in 1..n + 1 /\ more[i] = x
        BY <1>3, <3>1
    <3> QED BY <1>4, <3>2 DEF ToSet
  <2>3. t \in ToSet(more)
      BY <1>3, <1>4 DEF ToSet
  <2> QED BY <2>1, <2>2, <2>3
<1> QED BY <1>1, <1>2, <1>3, <1>5, <1>6

----------------------------------------------------------------------------
(* The records of the scheduler, field by field.                            *)
LEMMA SchedFields ==
    ASSUME NEW s, s \in SchedType
    PROVE  /\ s.waiting \in Seq(Tokens) /\ s.active \in SUBSET Tokens
           /\ s.turn \in SUBSET (Keys \X Keys) /\ s.ticket \in [Tokens -> Tickets]
           /\ \A t \in Tokens : Key(s, t) \in Keys
BY DEF SchedType, Key, Keys

(* _admit: t leaves the line, becomes active and is served last.            *)
LEMMA AdmitFacts ==
    ASSUME NEW s, Tidy(s), NEW t \in Tokens
    PROVE  /\ Tidy(Admit(s, t))
           /\ Admit(s, t).waiting = Leave(s.waiting, t)
           /\ Admit(s, t).active = s.active \cup {t}
           /\ Admit(s, t).ticket = s.ticket
<1>1. s \in SchedType
    BY DEF Tidy
<1>2. PICK line : line = Leave(s.waiting, t)
    OBVIOUS
<1>3. PICK owners : owners = s.active \cup {t}
    OBVIOUS
<1>4. line \in Seq(Tokens) /\ Single(line)
    BY <1>1, <1>2, SchedFields, LeaveFacts DEF Tidy
<1>5. owners \in SUBSET Tokens /\ IsFiniteSet(owners)
    BY <1>1, <1>3, SchedFields, FS_AddElement DEF Tidy
<1>6. PICK k : k = Key(s, t)
    OBVIOUS
<1>7. k \in Keys
    BY <1>1, <1>6, SchedFields
<1>8. PICK half : half = [s EXCEPT !.waiting = Leave(@, t), !.active = @ \cup {t}]
    OBVIOUS
<1>9. half = [s EXCEPT !.waiting = line, !.active = owners]
    BY <1>2, <1>3, <1>8
<1>10. /\ half \in SchedType /\ half.waiting = line /\ half.active = owners
       /\ half.turn = s.turn /\ half.ticket = s.ticket
    BY <1>1, <1>4, <1>5, <1>9 DEF SchedType
<1>11. Key(half, t) = k
    BY <1>6, <1>10 DEF Key
<1> DEFINE others == {p \in s.turn : k \notin {p[1], p[2]}}
           moved == {<<p[1], k>> : p \in others}
           turn == others \cup moved \cup {<<k, k>>}
<1>12. PICK r : r = Admit(s, t)
    OBVIOUS
<1>13. r = [half EXCEPT !.turn = turn]
  <2>1. r = TakesTurn(half, t)
      BY <1>8, <1>12 DEF Admit
  <2>2. TakesTurn(half, t) =
          [half EXCEPT !.turn = {p \in @ : Key(half, t) \notin {p[1], p[2]}}
              \cup {<<p[1], Key(half, t)>> : p \in {p \in @ : Key(half, t) \notin {p[1], p[2]}}}
              \cup {<<Key(half, t), Key(half, t)>>}]
      BY <1>10 DEF TakesTurn
  <2> QED BY <1>10, <1>11, <2>1, <2>2
<1>14. turn \in SUBSET (Keys \X Keys)
  <2>1. \A p \in others : p \in Keys \X Keys /\ <<p[1], k>> \in Keys \X Keys
      BY <1>1, <1>7, SchedFields
  <2>2. \A p \in moved : p \in Keys \X Keys
      BY <2>1
  <2>3. others \subseteq Keys \X Keys /\ <<k, k>> \in Keys \X Keys
      BY <1>7, <2>1
  <2> QED BY <2>2, <2>3
<1>15. IsFiniteSet(turn)
  <2>1. IsFiniteSet(others)
      BY FS_Subset DEF Tidy
  <2>2. IsFiniteSet(moved)
    <3>1. [p \in others |-> <<p[1], k>>] \in Surjection(others, moved)
        BY DEF Surjection
    <3> QED BY <2>1, <3>1, FS_Surjection
  <2>3. IsFiniteSet(others \cup moved)
      BY <2>1, <2>2, FS_Union
  <2> QED BY <2>3, FS_AddElement
<1>16. Reflexive(turn)
  <2>1. ASSUME NEW p \in others
        PROVE  <<p[1], p[1]>> \in others /\ <<p[2], p[2]>> \in others
      BY DEF Tidy, Reflexive
  <2>2. ASSUME NEW p \in moved PROVE <<p[1], p[1]>> \in turn /\ <<p[2], p[2]>> \in turn
    <3>1. PICK o \in others : p = <<o[1], k>>
        OBVIOUS
    <3> QED BY <2>1, <3>1
  <2>3. \A p \in {<<k, k>>} : <<p[1], p[1]>> \in turn /\ <<p[2], p[2]>> \in turn
      OBVIOUS
  <2>4. \A p \in others : <<p[1], p[1]>> \in turn /\ <<p[2], p[2]>> \in turn
      BY <2>1
  <2> HIDE DEF others, moved
  <2> QED BY <2>2, <2>3, <2>4 DEF Reflexive
<1> HIDE DEF others, moved, turn
<1>17. /\ r \in SchedType /\ r.waiting = line /\ r.active = owners /\ r.turn = turn
       /\ r.ticket = s.ticket
    BY <1>10, <1>13, <1>14 DEF SchedType
<1>18. Tidy(r)
    BY <1>4, <1>5, <1>15, <1>16, <1>17 DEF Tidy
<1> QED BY <1>2, <1>3, <1>12, <1>17, <1>18

----------------------------------------------------------------------------
(* Who is selected.                                                         *)
LEMMA CountsOfWaiters ==
    ASSUME NEW s, Tidy(s), NEW t
    PROVE  Cardinality(RunningOf(s, t)) \in Nat /\ TurnOf(s, t) \in Nat
<1>1. RunningOf(s, t) \subseteq s.active /\ {p \in s.turn : p[2] = Key(s, t)} \subseteq s.turn
    BY DEF RunningOf
<1>2. IsFiniteSet(RunningOf(s, t)) /\ IsFiniteSet({p \in s.turn : p[2] = Key(s, t)})
    BY <1>1, FS_Subset DEF Tidy
<1> QED BY <1>2, FS_CardinalityType DEF TurnOf

(* Of the positions in e, one precedes all others.                          *)
LEMMA SomeoneFirst ==
    ASSUME NEW s, Tidy(s), NEW e \in SUBSET DOMAIN s.waiting, e # {}
    PROVE  \E i \in e : \A j \in e : Precedes(s, i, j)
<1> DEFINE Load(i) == Cardinality(RunningOf(s, s.waiting[i]))
           Turn(i) == TurnOf(s, s.waiting[i])
<1>1. \A i \in e : Load(i) \in Nat /\ Turn(i) \in Nat /\ i \in Nat
  <2>1. \A i \in e : Load(i) \in Nat /\ Turn(i) \in Nat
      BY CountsOfWaiters
  <2>2. \A i \in e : i \in Nat
      BY SchedFields, LenProperties DEF Tidy
  <2> QED BY <2>1, <2>2
<1>2. \A i, j \in e : Precedes(s, i, j) <=>
          \/ Load(i) < Load(j)
          \/ Load(i) = Load(j) /\ Turn(i) < Turn(j)
          \/ Load(i) = Load(j) /\ Turn(i) = Turn(j) /\ i <= j
    BY DEF Precedes
<1> HIDE DEF Load, Turn
<1> DEFINE Loads == {Load(i) : i \in e}
<1>3. PICK n \in Loads : \A m \in Loads : n <= m
  <2>1. Loads \subseteq Nat /\ Loads # {}
      BY <1>1
  <2> QED BY <2>1, Least
<1> DEFINE light == {i \in e : Load(i) = n}
           Turns == {Turn(i) : i \in light}
<1>4. PICK m \in Turns : \A k \in Turns : m <= k
  <2>1. Turns \subseteq Nat /\ Turns # {}
      BY <1>1, <1>3
  <2> QED BY <2>1, Least
<1> DEFINE early == {i \in light : Turn(i) = m}
<1>5. PICK i \in early : \A j \in early : i <= j
  <2>1. early \subseteq Nat /\ early # {}
      BY <1>1, <1>4
  <2> HIDE DEF early
  <2> QED BY <2>1, Least
<1>6. ASSUME NEW j \in e PROVE Precedes(s, i, j)
  <2>1. n <= Load(j) /\ Load(i) = n /\ Load(j) \in Nat /\ n \in Nat
      BY <1>1, <1>3, <1>5
  <2>2. Load(j) = n => m <= Turn(j) /\ Turn(i) = m /\ Turn(j) \in Nat /\ m \in Nat
      BY <1>1, <1>4, <1>5
  <2>3. (Load(j) = n /\ Turn(j) = m) => i <= j
      BY <1>5
  <2>4. i \in e
      BY <1>5
  <2> QED BY <1>2, <2>1, <2>2, <2>3, <2>4
<1> QED BY <1>5, <1>6

(* When nobody is selected nobody could be granted.                         *)
LEMMA NoneSelected ==
    ASSUME NEW q, NEW s, Tidy(s), NEW lim, NEW pause, Selected(q, s, lim, pause) = {}
    PROVE  Eligible(q, s, lim, pause) = {}
<1> SUFFICES ASSUME Eligible(q, s, lim, pause) # {} PROVE FALSE
    OBVIOUS
<1>1. PICK e : e = Eligible(q, s, lim, pause)
    OBVIOUS
<1>2. e \in SUBSET DOMAIN s.waiting
    BY <1>1 DEF Eligible
<1>3. PICK i \in e : \A j \in e : Precedes(s, i, j)
    BY <1>1, <1>2, SomeoneFirst
<1>4. s.waiting[i] \in Selected(q, s, lim, pause)
    BY <1>1, <1>3 DEF Selected
<1> QED BY <1>4

LEMMA SelectedFacts ==
    ASSUME NEW q, NEW s, Tidy(s), NEW lim, NEW pause, NEW t \in Selected(q, s, lim, pause)
    PROVE  t \in ToSet(s.waiting) /\ t \in Tokens /\ (HasClaims(s, t) => ~Blocked(q, t))
<1>1. PICK i \in Eligible(q, s, lim, pause) : t = s.waiting[i]
    BY DEF Selected
<1>2. i \in DOMAIN s.waiting /\ (HasClaims(s, t) => ~Blocked(q, t))
    BY <1>1 DEF Eligible
<1>3. s.waiting \in Seq(Tokens)
    BY SchedFields DEF Tidy
<1>4. s.waiting[i] \in Tokens
    BY <1>2, <1>3, LenProperties, ElementOfSeq
<1> QED BY <1>1, <1>2, <1>4 DEF ToSet

----------------------------------------------------------------------------
(* What a step does not touch stays where it is.                            *)
Same(q, s, places, d, r, after, x) ==
    /\ r.ticket[x] = s.ticket[x] /\ after[x] = places[x]
    /\ x \in r.active <=> x \in s.active
    /\ x \in ToSet(r.waiting) <=> x \in ToSet(s.waiting)
    /\ x \in d.entries <=> x \in q.entries
    /\ x \in d.active <=> x \in q.active

LEMMA SamePlaced ==
    ASSUME NEW q, NEW s, NEW places, NEW d, NEW r, NEW after, NEW x,
           Placed(q, s, places, x), Same(q, s, places, d, r, after, x)
    PROVE  Placed(d, r, after, x)
BY DEF Placed, Same, HasClaims, Waiting

(* A queue that has the same entries and owners is as good for the tickets. *)
LEMMA QueueReplaced ==
    ASSUME NEW q, NEW s, NEW places, Fit(q, s, places),
           NEW d, Sound(d, FALSE), d.entries = q.entries, d.active = q.active
    PROVE  Fit(d, s, places)
<1>1. \A x \in Tokens : Same(q, s, places, d, s, places, x)
    BY DEF Same
<1> QED BY <1>1, SamePlaced DEF Fit

(* Granting a selected ticket: it has its claims and its slot at once, the  *)
(* line is shorter by one, and who was blocked is blocked.                  *)
LEMMA TicketGranted ==
    ASSUME NEW q, NEW s, NEW places, Fit(q, s, places), NEW lim, NEW pause,
           NEW t \in Selected(q, s, lim, pause)
    PROVE  LET r == GrantTicket([queue |-> q, sched |-> s], t) IN
           /\ Fit(r.queue, r.sched, places)
           /\ Len(r.sched.waiting) = Len(s.waiting) - 1
           /\ t \in r.sched.active
           /\ r.sched.ticket = s.ticket
           /\ LocalsBlocked(q, places) => LocalsBlocked(r.queue, places)
<1>1. t \in ToSet(s.waiting) /\ t \in Tokens /\ (HasClaims(s, t) => ~Blocked(q, t))
    BY SelectedFacts DEF Fit
<1>2. PICK d : d = IF HasClaims(s, t) THEN Grant(q, {t}) ELSE q
    OBVIOUS
<1>3. PICK e : e = Admit(s, t)
    OBVIOUS
<1>4. GrantTicket([queue |-> q, sched |-> s], t) = [queue |-> d, sched |-> e]
    BY <1>2, <1>3 DEF GrantTicket
<1>5. /\ Tidy(e) /\ e.waiting = Leave(s.waiting, t)
      /\ e.active = s.active \cup {t} /\ e.ticket = s.ticket
    BY <1>1, <1>3, AdmitFacts DEF Fit
<1>6. /\ ToSet(e.waiting) = ToSet(s.waiting) \ {t}
      /\ Len(e.waiting) = Len(s.waiting) - 1
    BY <1>1, <1>5, LeaveFacts, SchedFields DEF Fit, Tidy
<1>7. Placed(q, s, places, t) /\ Sound(q, FALSE) /\ places \in [Tokens -> Places]
    BY <1>1 DEF Fit
<1>8. HasClaims(s, t) => t \in Waiting(q) /\ ~Blocked(q, t)
    BY <1>1, <1>7 DEF Placed
<1>9. /\ Sound(d, FALSE) /\ d.entries = q.entries
      /\ d.active = IF HasClaims(s, t) THEN q.active \cup {t} ELSE q.active
  <2>1. CASE HasClaims(s, t)
    <3>1. Grantable(q, {t})
        BY <1>7, <1>8, <2>1, FreeGrantable
    <3>2. Sound(d, FALSE) /\ Granted(q, {t}, d)
        BY <1>2, <1>7, <2>1, <3>1, GrantSound
    <3> QED BY <2>1, <3>2 DEF Granted
  <2>2. CASE ~HasClaims(s, t)
      BY <1>2, <1>7, <2>2
  <2> QED BY <2>1, <2>2
<1>10. ASSUME NEW x \in Tokens PROVE Placed(d, e, places, x)
  <2>1. Placed(q, s, places, x)
      BY DEF Fit
  <2>2. CASE x = t
    <3>1. HasClaims(e, x) <=> HasClaims(s, t)
        BY <1>5, <2>2 DEF HasClaims
    <3>2. x \in e.active /\ x \notin ToSet(e.waiting)
        BY <1>5, <1>6, <2>2
    <3>3. HasClaims(s, t) => x \in d.active /\ x \notin Waiting(d)
        BY <1>9, <2>2 DEF Waiting
    <3>4. x \in d.entries => HasClaims(e, x) \/ places[x] = "local"
        BY <1>7, <1>9, <2>2, <3>1 DEF Placed
    <3>5. places[x] \notin {"idle", "local"}
        BY <1>1, <1>7, <2>2 DEF Placed
    <3> QED BY <3>1, <3>2, <3>3, <3>4, <3>5 DEF Placed
  <2>3. CASE x # t
    <3>1. Same(q, s, places, d, e, places, x)
        BY <1>5, <1>6, <1>9, <2>3 DEF Same
    <3> QED BY <2>1, <3>1, SamePlaced
  <2> QED BY <2>2, <2>3
<1>11. Fit(d, e, places)
    BY <1>5, <1>7, <1>9, <1>10 DEF Fit
<1>12. ASSUME LocalsBlocked(q, places), NEW w \in Locals(places) \cap Waiting(d)
       PROVE  Blocked(d, w)
  <2>1. w \in Waiting(q) /\ Blocked(q, w)
      BY <1>9, <1>12 DEF LocalsBlocked, Waiting
  <2>2. CASE HasClaims(s, t)
    <3>1. w # t
        BY <1>9, <1>12, <2>2 DEF Waiting
    <3> QED BY <1>2, <1>7, <1>8, <2>1, <2>2, <3>1, GrantLeavesBlocked
  <2>3. CASE ~HasClaims(s, t)
      BY <1>2, <2>1, <2>3
  <2> QED BY <2>2, <2>3
<1>13. LocalsBlocked(q, places) => LocalsBlocked(d, places)
    BY <1>12 DEF LocalsBlocked
<1> QED BY <1>4, <1>5, <1>6, <1>11, <1>13

----------------------------------------------------------------------------
(* The rounds of a drain.                                                   *)
Rounds(q, s, lim, pause, after, m) ==
    after = [n \in 0..m |->
        IF n = 0 THEN {[queue |-> q, sched |-> s]}
        ELSE UNION {NextGrants(r, lim, pause) : r \in after[n - 1]}]

(* The recursive function of GrantTickets exists.                           *)
LEMMA RoundsExist ==
    ASSUME NEW q, NEW s, NEW lim, NEW pause, NEW m \in Nat
    PROVE  \E after : Rounds(q, s, lim, pause, after, m)
<1> DEFINE T == {k \in Nat : ~\E after : Rounds(q, s, lim, pause, after, k)}
<1>1. SUFFICES ASSUME T # {} PROVE FALSE
    OBVIOUS
<1>2. PICK k \in T : \A n \in T : k <= n
    BY <1>1, Least
<1> DEFINE start == {[queue |-> q, sched |-> s]}
<1>3. CASE k = 0
  <2>1. Rounds(q, s, lim, pause, [n \in 0..0 |-> start], 0)
    <3>1. \A n \in 0..0 : n = 0
        OBVIOUS
    <3> QED BY <3>1 DEF Rounds
  <2> QED BY <1>2, <1>3, <2>1
<1>4. CASE k # 0
  <2>1. k - 1 \in Nat /\ k - 1 \notin T /\ k \in Nat
      BY <1>2, <1>4
  <2>2. PICK f : Rounds(q, s, lim, pause, f, k - 1)
      BY <2>1
  <2> DEFINE last == UNION {NextGrants(r, lim, pause) : r \in f[k - 1]}
             e == [n \in 0..k |-> IF n = k THEN last ELSE f[n]]
  <2>3. ASSUME NEW n \in 0..k
        PROVE  e[n] = IF n = 0 THEN start
                      ELSE UNION {NextGrants(r, lim, pause) : r \in e[n - 1]}
    <3>1. CASE n = k
      <4>1. k - 1 \in 0..k /\ k - 1 # k
          BY <2>1
      <4>2. e[k - 1] = f[k - 1] /\ e[n] = last
          BY <3>1, <4>1
      <4> QED BY <1>4, <3>1, <4>2
    <3>2. CASE n # k
      <4>1. n \in 0..k - 1 /\ (n # 0 => n - 1 \in 0..k /\ n - 1 # k)
          BY <2>1, <3>2
      <4>2. e[n] = f[n] /\ (n # 0 => e[n - 1] = f[n - 1])
          BY <3>2, <4>1
      <4>3. f[n] = IF n = 0 THEN start ELSE UNION {NextGrants(r, lim, pause) : r \in f[n - 1]}
        <5>1. f = [i \in 0..k - 1 |-> IF i = 0 THEN start
                       ELSE UNION {NextGrants(r, lim, pause) : r \in f[i - 1]}]
            BY <2>2 DEF Rounds
        <5> QED BY <4>1, <5>1
      <4> QED BY <4>2, <4>3
    <3> QED BY <3>1, <3>2
  <2>4. e = [n \in 0..k |-> IF n = 0 THEN start
                ELSE UNION {NextGrants(r, lim, pause) : r \in e[n - 1]}]
    <3> HIDE DEF start, last
    <3>1. e = [n \in 0..k |-> e[n]]
        OBVIOUS
    <3> QED BY <2>3, <3>1, Zenon
  <2>5. Rounds(q, s, lim, pause, e, k)
      BY <2>4 DEF Rounds
  <2> QED BY <1>2, <2>5
<1> QED BY <1>3, <1>4

(* What a drain has come to after n rounds.                                 *)
AfterRound(s, lim, pause, places, n, r) ==
    /\ r = [queue |-> r.queue, sched |-> r.sched]
    /\ Fit(r.queue, r.sched, places)
    /\ LocalsBlocked(r.queue, places)
    /\ \/ Selected(r.queue, r.sched, lim, pause) = {}
       \/ Len(r.sched.waiting) = Len(s.waiting) - n

LEMMA OneRound ==
    ASSUME NEW s, NEW lim, NEW pause, NEW places, NEW n \in Nat, Len(s.waiting) \in Nat,
           NEW r, AfterRound(s, lim, pause, places, n, r), NEW d \in NextGrants(r, lim, pause)
    PROVE  AfterRound(s, lim, pause, places, n + 1, d)
<1>1. CASE Selected(r.queue, r.sched, lim, pause) = {}
  <2>1. d = r
      BY <1>1 DEF NextGrants
  <2> QED BY <1>1, <2>1 DEF AfterRound
<1>2. CASE Selected(r.queue, r.sched, lim, pause) # {}
  <2>1. PICK t \in Selected(r.queue, r.sched, lim, pause) : d = GrantTicket(r, t)
      BY <1>2 DEF NextGrants
  <2>2. PICK rq, rs : rq = r.queue /\ rs = r.sched
      OBVIOUS
  <2>3. r = [queue |-> rq, sched |-> rs]
      BY <2>2 DEF AfterRound
  <2>4. Fit(rq, rs, places) /\ LocalsBlocked(rq, places) /\ t \in Selected(rq, rs, lim, pause)
      BY <2>1, <2>2 DEF AfterRound
  <2>5. /\ Fit(d.queue, d.sched, places)
        /\ Len(d.sched.waiting) = Len(rs.waiting) - 1
        /\ LocalsBlocked(d.queue, places)
      BY <2>1, <2>3, <2>4, TicketGranted
  <2>6. Len(rs.waiting) = Len(s.waiting) - n
      BY <1>2, <2>2 DEF AfterRound
  <2>7. Len(d.sched.waiting) = Len(s.waiting) - (n + 1)
      BY <2>5, <2>6
  <2>8. d = [queue |-> d.queue, sched |-> d.sched]
      BY <2>1 DEF GrantTicket
  <2> QED BY <2>5, <2>7, <2>8 DEF AfterRound
<1> QED BY <1>1, <1>2

(* The drain of the tickets keeps the invariant, leaves the waiters of      *)
(* project_slot as they are, and ends with nobody eligible.                 *)
LEMMA TicketsGranted ==
    ASSUME NEW q, NEW s, NEW places, Fit(q, s, places), LocalsBlocked(q, places),
           NEW lim, NEW pause, NEW r \in GrantTickets(q, s, lim, pause)
    PROVE  /\ Fit(r.queue, r.sched, places)
           /\ LocalsBlocked(r.queue, places)
           /\ Eligible(r.queue, r.sched, lim, pause) = {}
<1>1. PICK m \in Nat : m = Len(s.waiting)
    BY SchedFields, LenProperties DEF Fit, Tidy
<1> DEFINE After == CHOOSE after : after = [n \in 0..m |->
                        IF n = 0 THEN {[queue |-> q, sched |-> s]}
                        ELSE UNION {NextGrants(x, lim, pause) : x \in after[n - 1]}]
<1>2. GrantTickets(q, s, lim, pause) = After[m]
    BY <1>1 DEF GrantTickets
<1>3. PICK f : f = After
    OBVIOUS
<1>4. f = [n \in 0..m |-> IF n = 0 THEN {[queue |-> q, sched |-> s]}
                          ELSE UNION {NextGrants(x, lim, pause) : x \in f[n - 1]}]
  <2>1. \E after : Rounds(q, s, lim, pause, after, m)
      BY RoundsExist
  <2> QED BY <1>3, <2>1 DEF Rounds
<1> HIDE DEF After
<1> DEFINE T == {n \in 0..m : ~\A x \in f[n] : AfterRound(s, lim, pause, places, n, x)}
<1>5. T = {}
  <2>1. SUFFICES ASSUME T # {} PROVE FALSE
      OBVIOUS
  <2>2. PICK n \in T : \A k \in T : n <= k
    <3>1. T \subseteq Nat
        OBVIOUS
    <3> QED BY <2>1, <3>1, Least
  <2>3. PICK x \in f[n] : ~AfterRound(s, lim, pause, places, n, x)
      BY <2>2
  <2>4. CASE n = 0
    <3>1. x = [queue |-> q, sched |-> s]
        BY <1>4, <2>3, <2>4
    <3>2. Len(x.sched.waiting) = Len(s.waiting) - 0
        BY <1>1, <3>1
    <3>3. AfterRound(s, lim, pause, places, 0, x)
        BY <3>1, <3>2 DEF AfterRound
    <3> QED BY <2>3, <2>4, <3>3
  <2>5. CASE n # 0
    <3>1. n - 1 \in 0..m /\ n - 1 \in Nat /\ n - 1 \notin T /\ n = (n - 1) + 1
        BY <2>2, <2>5
    <3>2. PICK y \in f[n - 1] : x \in NextGrants(y, lim, pause)
        BY <1>4, <2>2, <2>3, <2>5
    <3>3. AfterRound(s, lim, pause, places, n - 1, y)
        BY <3>1, <3>2
    <3>4. PICK k \in Nat : k = n - 1
        BY <3>1
    <3>5. AfterRound(s, lim, pause, places, k + 1, x)
        BY <1>1, <3>2, <3>3, <3>4, OneRound
    <3> QED BY <2>3, <3>1, <3>4, <3>5
  <2> QED BY <2>4, <2>5
<1>6. AfterRound(s, lim, pause, places, m, r)
    BY <1>2, <1>3, <1>5
<1>7. PICK rq, rs : rq = r.queue /\ rs = r.sched
    OBVIOUS
<1>8. Fit(rq, rs, places) /\ LocalsBlocked(rq, places) /\ Tidy(rs)
    BY <1>6, <1>7 DEF AfterRound, Fit
<1>9. CASE Selected(rq, rs, lim, pause) = {}
    BY <1>7, <1>8, <1>9, NoneSelected
<1>10. CASE Selected(rq, rs, lim, pause) # {}
  <2>1. Len(rs.waiting) = 0
      BY <1>1, <1>6, <1>7, <1>10 DEF AfterRound
  <2>2. DOMAIN rs.waiting = {}
      BY <1>8, <2>1, SchedFields, LenProperties DEF Tidy
  <2>3. Eligible(rq, rs, lim, pause) = {}
      BY <2>2 DEF Eligible
  <2> QED BY <1>7, <1>8, <2>3
<1> QED BY <1>9, <1>10

----------------------------------------------------------------------------
(* The whole drain.                                                         *)

(* A pass over the entries of project_slot: none of them is a ticket.       *)
LEMMA LocalsPassed ==
    ASSUME NEW q, NEW s, NEW places, Fit(q, s, places), NEW d \in Passes(q, Locals(places))
    PROVE  Fit(d, s, places) /\ LocalsBlocked(d, places)
<1>1. Sound(q, FALSE)
    BY DEF Fit
<1>a. PICK own : own = Locals(places)
    OBVIOUS
<1>b. d \in Passes(q, own)
    BY <1>a
<1>c. \E G \in SUBSET (Waiting(q) \cap own) :
          /\ d = Grant(q, G) /\ Grantable(q, G) /\ Granted(q, G, d) /\ Sound(d, FALSE)
          /\ \A g \in G : MayOvertake(q, g)
          /\ \A t \in Waiting(d) \cap own : Blocked(d, t)
    BY <1>1, <1>b, PassServes
<1>2. PICK G \in SUBSET (Waiting(q) \cap Locals(places)) :
          /\ d = Grant(q, G) /\ Granted(q, G, d) /\ Sound(d, FALSE)
          /\ \A t \in Waiting(d) \cap Locals(places) : Blocked(d, t)
    BY <1>a, <1>c
<1>3. ASSUME NEW x \in Tokens PROVE Placed(d, s, places, x)
  <2>1. Placed(q, s, places, x)
      BY DEF Fit
  <2>2. CASE x \in G
    <3>1. places[x] = "local" /\ x \in d.active
        BY <1>2, <2>2 DEF Locals, Granted
    <3> QED BY <2>1, <3>1 DEF Placed
  <2>3. CASE x \notin G
    <3>1. Same(q, s, places, d, s, places, x)
        BY <1>2, <2>3 DEF Same, Granted
    <3> QED BY <2>1, <3>1, SamePlaced
  <2> QED BY <2>2, <2>3
<1> QED BY <1>2, <1>3 DEF Fit, LocalsBlocked

LEMMA Settled ==
    ASSUME NEW q, NEW s, NEW places, Fit(q, s, places), NEW lim, NEW pause, NEW shut \in BOOLEAN,
           NEW r \in Settlements(q, s, lim, pause, places, shut),
           NEW d, d = Scheduled(r.queue), NEW e, e = r.sched
    PROVE  /\ Fit(d, e, places)
           /\ Armed(d)
           /\ LocalsBlocked(d, places)
           /\ ~shut => Eligible(d, e, lim, pause) = {}
<1>1. PICK p \in Passes(q, Locals(places)) :
          r \in IF shut THEN {[queue |-> p, sched |-> s]} ELSE GrantTickets(p, s, lim, pause)
    BY DEF Settlements
<1>2. Fit(p, s, places) /\ LocalsBlocked(p, places)
    BY <1>1, LocalsPassed
<1>3. PICK c : c = r.queue
    OBVIOUS
<1>4. /\ Fit(c, e, places) /\ LocalsBlocked(c, places)
      /\ ~shut => Eligible(c, e, lim, pause) = {}
  <2>1. CASE shut
    <3>1. c = p /\ e = s
        BY <1>1, <1>3, <2>1
    <3> QED BY <1>2, <2>1, <3>1
  <2>2. CASE ~shut
    <3>1. r \in GrantTickets(p, s, lim, pause)
        BY <1>1, <2>2
    <3> QED BY <1>2, <1>3, <3>1, TicketsGranted
  <2> QED BY <2>1, <2>2
<1>5. Sound(c, FALSE) /\ Shape(c)
    BY <1>4 DEF Fit, Sound
<1>6. /\ Rescheduled(c, d)
      /\ d.timer = (Waiting(c) # {} /\ (c.timer \/ c.active \ c.long # {}))
    BY <1>3, <1>5, ScheduledFields
<1>7. Sound(d, FALSE) /\ d.entries = c.entries /\ d.active = c.active /\ Waiting(d) = Waiting(c)
    BY <1>5, <1>6, ScheduledSound DEF Rescheduled, Waiting
<1>8. Fit(d, e, places)
    BY <1>4, <1>7, QueueReplaced
<1>9. Armed(d)
    BY <1>6, <1>7 DEF Armed, Rescheduled
<1>10. \A t : Blocked(d, t) <=> Blocked(c, t)
    BY <1>6, BlockedWithoutTimer
<1>11. LocalsBlocked(d, places)
    BY <1>4, <1>7, <1>10 DEF LocalsBlocked
<1>12. Eligible(d, e, lim, pause) = Eligible(c, e, lim, pause)
    BY <1>10 DEF Eligible
<1> QED BY <1>4, <1>8, <1>9, <1>11, <1>12

----------------------------------------------------------------------------
(* The handlers: what each hands to the drain is Fit.                       *)
LEMMA Draining ==
    ASSUME NEW q, NEW s, NEW places, Fit(q, s, places), NEW lim, NEW pause, NEW shut,
           DrainAll(q, s, lim, pause, places, shut),
           limit' = lim, paused' = pause, pc' = places, closed' = shut,
           lim \in Limits \cup {0}, {pause, shut, notify'} \subseteq BOOLEAN
    PROVE  Inv'
<1>1. PICK r \in Settlements(q, s, lim, pause, places, shut) :
          queue' = Scheduled(r.queue) /\ sched' = r.sched
    BY DEF DrainAll
<1>2. PICK d : d = Scheduled(r.queue)
    OBVIOUS
<1>3. PICK e : e = r.sched
    OBVIOUS
<1>4. /\ Fit(d, e, places)
      /\ Armed(d)
      /\ LocalsBlocked(d, places)
      /\ ~shut => Eligible(d, e, lim, pause) = {}
    BY <1>2, <1>3, Settled
<1>5. queue' = d /\ sched' = e
    BY <1>1, <1>2, <1>3
<1>6. Fit(queue, sched, pc)'
    BY <1>4, <1>5
<1>7. Armed(queue)'
    BY <1>4, <1>5
<1>8. NobodyForgotten'
    BY <1>4, <1>5 DEF NobodyForgotten, LocalsBlocked
<1> QED BY <1>6, <1>7, <1>8 DEF Inv

LEMMA NotifiedKeeps == Inv /\ Notified => Inv'
<1> SUFFICES ASSUME Inv, Notified PROVE Inv'
    OBVIOUS
<1>1. PICK q, s, places : q = queue /\ s = sched /\ places = pc
    OBVIOUS
<1>2. PICK lim, pause, shut : lim = limit /\ pause = paused /\ shut = closed
    OBVIOUS
<1>3. Fit(q, s, places)
    BY <1>1 DEF Inv
<1>4. DrainAll(q, s, lim, pause, places, shut)
    BY <1>1, <1>2 DEF Notified
<1>5. limit' = lim /\ paused' = pause /\ pc' = places /\ closed' = shut
    BY <1>1, <1>2 DEF Notified, budget
<1>6. lim \in Limits \cup {0} /\ {pause, shut, notify'} \subseteq BOOLEAN
    BY <1>2 DEF Inv, Notified
<1> QED BY <1>3, <1>4, <1>5, <1>6, Draining

(* One operation moves, and nothing else does.                              *)
LEMMA OneMoves ==
    ASSUME NEW q, NEW s, NEW places, Fit(q, s, places), NEW t \in Tokens, NEW place \in Places,
           NEW d, Sound(d, FALSE), NEW r, Tidy(r),
           Placed(d, r, [places EXCEPT ![t] = place], t),
           \A x \in Tokens \ {t} :
              /\ r.ticket[x] = s.ticket[x]
              /\ x \in r.active <=> x \in s.active
              /\ x \in ToSet(r.waiting) <=> x \in ToSet(s.waiting)
              /\ x \in d.entries <=> x \in q.entries
              /\ x \in d.active <=> x \in q.active
    PROVE  Fit(d, r, [places EXCEPT ![t] = place])
<1> DEFINE after == [places EXCEPT ![t] = place]
<1>1. /\ after \in [Tokens -> Places] /\ after[t] = place
      /\ \A x \in Tokens \ {t} : after[x] = places[x]
    BY DEF Fit
<1>2. Placed(d, r, after, t)
    OBVIOUS
<1> HIDE DEF after
<1>3. ASSUME NEW x \in Tokens \ {t} PROVE Placed(d, r, after, x)
  <2>1. Placed(q, s, places, x)
      BY DEF Fit
  <2>2. Same(q, s, places, d, r, after, x)
      BY <1>1 DEF Same
  <2> QED BY <2>1, <2>2, SamePlaced
<1>4. Fit(d, r, after)
    BY <1>1, <1>2, <1>3 DEF Fit
<1> QED BY <1>4 DEF after

(* An operation that is in no line and holds no claims takes its place in   *)
(* the line, and its claims theirs in the queue.                            *)
LEMMA Competes ==
    ASSUME NEW q, NEW s, NEW places, Fit(q, s, places), NEW t \in Tokens,
           t \notin ToSet(s.waiting), t \notin q.entries, NEW k \in Kinds \cup Conversions
    PROVE  /\ Fit(WithClaims(q, t, k), Competing(s, t, k), [places EXCEPT ![t] = "queued"])
           /\ HasClaims(Competing(s, t, k), t) <=> k.joint
<1>1. PICK c : c = Competing(s, t, k)
    OBVIOUS
<1>2. PICK d : d = WithClaims(q, t, k)
    OBVIOUS
<1>3. Sound(q, FALSE) /\ Tidy(s) /\ s \in SchedType /\ Shape(q)
    BY DEF Fit, Tidy, Sound
<1>4. PICK line : line = Append(s.waiting, t)
    OBVIOUS
<1>5. /\ line \in Seq(Tokens) /\ Single(line) /\ ToSet(line) = ToSet(s.waiting) \cup {t}
    BY <1>3, <1>4, JoinFacts, SchedFields DEF Tidy
<1>6. PICK tickets : tickets = [s.ticket EXCEPT ![t] = k]
    OBVIOUS
<1>7. /\ tickets \in [Tokens -> Tickets] /\ tickets[t] = k
      /\ \A x \in Tokens \ {t} : tickets[x] = s.ticket[x]
    BY <1>3, <1>6, SchedFields DEF Tickets
<1>8. c = [s EXCEPT !.waiting = line, !.active = s.active \ {t}, !.turn = s.turn, !.ticket = tickets]
    BY <1>1, <1>3, <1>4, <1>6 DEF Competing, SchedType
<1>9. PICK owners : owners = s.active \ {t}
    OBVIOUS
<1>10. owners \in SUBSET Tokens /\ IsFiniteSet(owners)
    BY <1>3, <1>9, SchedFields, FS_RemoveElement DEF Tidy
<1>11. /\ c \in SchedType /\ c.waiting = line /\ c.active = owners
       /\ c.turn = s.turn /\ c.ticket = tickets
  <2>1. s.turn \in SUBSET (Keys \X Keys)
      BY <1>3, SchedFields
  <2>2. c = [s EXCEPT !.waiting = line, !.active = owners, !.turn = s.turn, !.ticket = tickets]
      BY <1>8, <1>9
  <2>3. s \in SchedType /\ line \in Seq(Tokens) /\ tickets \in [Tokens -> Tickets]
      BY <1>3, <1>5, <1>7
  <2> QED BY <1>10, <2>1, <2>2, <2>3 DEF SchedType
<1>12. Tidy(c)
    BY <1>3, <1>5, <1>10, <1>11 DEF Tidy
<1>13. HasClaims(c, t) <=> k.joint
    BY <1>7, <1>11 DEF HasClaims
<1>14. /\ Sound(d, FALSE) /\ d.active = q.active /\ t \notin q.active
       /\ d.entries = IF k.joint THEN q.entries \cup {t} ELSE q.entries
  <2>1. t \notin q.active
      BY <1>3 DEF Shape
  <2>2. CASE k.joint
    <3>1. PICK ask : ask = AsRequest(k)
        OBVIOUS
    <3>2. IsRequest(ask)
        BY <3>1, SchedulerAssumption DEF IsRequest, AsRequest
    <3>3. d = Enqueue(q, t, ask)
        BY <1>2, <2>2, <3>1 DEF WithClaims
    <3>4. Sound(d, FALSE) /\ Enqueued(q, t, ask, d)
        BY <1>3, <3>2, <3>3, EnqueueSound
    <3> QED BY <2>1, <2>2, <3>4 DEF Enqueued
  <2>3. CASE ~k.joint
      BY <1>2, <1>3, <2>1, <2>3 DEF WithClaims
  <2>4. k.joint \in BOOLEAN
      BY SchedulerAssumption
  <2> QED BY <2>2, <2>3
<1>15. Placed(d, c, [places EXCEPT ![t] = "queued"], t)
  <2>1. [places EXCEPT ![t] = "queued"][t] = "queued"
      BY DEF Fit
  <2>2. t \notin c.active /\ t \in ToSet(c.waiting) /\ t \notin d.active
      BY <1>5, <1>9, <1>11, <1>14
  <2>3. HasClaims(c, t) => t \in Waiting(d)
      BY <1>13, <1>14, <2>2 DEF Waiting
  <2>4. t \in d.entries => HasClaims(c, t)
      BY <1>13, <1>14
  <2> QED BY <2>1, <2>2, <2>3, <2>4 DEF Placed
<1>16. \A x \in Tokens \ {t} :
          /\ c.ticket[x] = s.ticket[x]
          /\ x \in c.active <=> x \in s.active
          /\ x \in ToSet(c.waiting) <=> x \in ToSet(s.waiting)
          /\ x \in d.entries <=> x \in q.entries
          /\ x \in d.active <=> x \in q.active
    BY <1>5, <1>7, <1>9, <1>11, <1>14
<1>17. Fit(d, c, [places EXCEPT ![t] = "queued"])
    BY <1>12, <1>14, <1>15, <1>16, OneMoves DEF Places
<1> QED BY <1>1, <1>2, <1>13, <1>17

(* A ticket leaves, and its claims with it.                                 *)
LEMMA Leaves ==
    ASSUME NEW q, NEW s, NEW places, Fit(q, s, places), NEW t \in Tokens, places[t] = "leaving"
    PROVE  Fit(FreeClaims(q, s, t), Without(s, t), [places EXCEPT ![t] = "idle"])
<1>1. PICK w : w = Without(s, t)
    OBVIOUS
<1>2. PICK d : d = FreeClaims(q, s, t)
    OBVIOUS
<1>3. Sound(q, FALSE) /\ Tidy(s) /\ s \in SchedType /\ Shape(q)
    BY DEF Fit, Tidy, Sound
<1>4. PICK line : line = Leave(s.waiting, t)
    OBVIOUS
<1>5. /\ line \in Seq(Tokens) /\ Single(line) /\ ToSet(line) = ToSet(s.waiting) \ {t}
    BY <1>3, <1>4, LeaveFacts, SchedFields DEF Tidy
<1>6. PICK owners : owners = s.active \ {t}
    OBVIOUS
<1>7. owners \in SUBSET Tokens /\ IsFiniteSet(owners)
    BY <1>3, <1>6, SchedFields, FS_RemoveElement DEF Tidy
<1>8. PICK tickets : tickets = [s.ticket EXCEPT ![t] = NoTicket]
    OBVIOUS
<1>9. /\ tickets \in [Tokens -> Tickets] /\ tickets[t] = NoTicket
      /\ \A x \in Tokens \ {t} : tickets[x] = s.ticket[x]
    BY <1>3, <1>8, SchedFields DEF Tickets
<1>10. \E keys : w = [s EXCEPT !.waiting = line, !.active = owners,
                    !.turn = {p \in s.turn : p[1] \in keys /\ p[2] \in keys}, !.ticket = tickets]
  <2>1. PICK rest : rest = [s EXCEPT !.waiting = Leave(@, t), !.active = @ \ {t}]
      OBVIOUS
  <2>2. rest.turn = s.turn /\ rest.ticket = s.ticket
      BY <1>3, <2>1 DEF SchedType
  <2>3. PICK keys : keys = {Key(rest, x) : x \in rest.active \cup ToSet(rest.waiting)}
      OBVIOUS
  <2>4. w = [rest EXCEPT !.turn = {p \in @ : p[1] \in keys /\ p[2] \in keys}, !.ticket[t] = NoTicket]
      BY <1>1, <2>1, <2>3 DEF Without
  <2>5. w = [rest EXCEPT !.turn = {p \in s.turn : p[1] \in keys /\ p[2] \in keys}, !.ticket = tickets]
      BY <1>8, <2>2, <2>4
  <2>6. rest = [s EXCEPT !.waiting = line, !.active = owners]
      BY <1>4, <1>6, <2>1
  <2> QED BY <2>5, <2>6
<1>11. PICK keys : w = [s EXCEPT !.waiting = line, !.active = owners,
                    !.turn = {p \in s.turn : p[1] \in keys /\ p[2] \in keys}, !.ticket = tickets]
    BY <1>10
<1>12. PICK turn : turn = {p \in s.turn : p[1] \in keys /\ p[2] \in keys}
    OBVIOUS
<1>13. turn \in SUBSET (Keys \X Keys) /\ IsFiniteSet(turn) /\ Reflexive(turn)
  <2>1. turn \subseteq s.turn
      BY <1>12
  <2>2. Reflexive(turn)
      BY <1>3, <1>12 DEF Tidy, Reflexive
  <2> QED BY <1>3, <2>1, <2>2, SchedFields, FS_Subset DEF Tidy
<1>14. /\ w \in SchedType /\ w.waiting = line /\ w.active = owners
       /\ w.turn = turn /\ w.ticket = tickets
  <2>1. w = [s EXCEPT !.waiting = line, !.active = owners, !.turn = turn, !.ticket = tickets]
      BY <1>11, <1>12
  <2>2. s \in SchedType /\ line \in Seq(Tokens) /\ tickets \in [Tokens -> Tickets]
      BY <1>3, <1>5, <1>9
  <2> QED BY <1>7, <1>13, <2>1, <2>2 DEF SchedType
<1>15. Tidy(w)
    BY <1>5, <1>7, <1>13, <1>14 DEF Tidy
<1>16. Placed(q, s, places, t)
    BY DEF Fit
<1>17. /\ Sound(d, FALSE) /\ d.entries = q.entries \ {t} /\ d.active = q.active \ {t}
  <2>1. CASE HasClaims(s, t)
    <3>1. d = Discard(q, t)
        BY <1>2, <2>1 DEF FreeClaims
    <3>2. Sound(d, FALSE) /\ Discarded(q, t, d)
        BY <1>3, <3>1, DiscardSound
    <3> QED BY <3>2 DEF Discarded
  <2>2. CASE ~HasClaims(s, t)
    <3>1. t \notin q.entries /\ t \notin q.active
        BY <1>3, <1>16, <2>2 DEF Placed, Shape
    <3> QED BY <1>2, <1>3, <2>2, <3>1 DEF FreeClaims
  <2> QED BY <2>1, <2>2
<1>18. Placed(d, w, [places EXCEPT ![t] = "idle"], t)
  <2>1. [places EXCEPT ![t] = "idle"][t] = "idle"
      BY DEF Fit
  <2>2. t \notin w.active /\ t \notin ToSet(w.waiting) /\ t \notin d.entries
      BY <1>5, <1>6, <1>14, <1>17
  <2>3. ~HasClaims(w, t)
      BY <1>9, <1>14 DEF HasClaims, NoTicket
  <2> QED BY <2>1, <2>2, <2>3 DEF Placed
<1>19. \A x \in Tokens \ {t} :
          /\ w.ticket[x] = s.ticket[x]
          /\ x \in w.active <=> x \in s.active
          /\ x \in ToSet(w.waiting) <=> x \in ToSet(s.waiting)
          /\ x \in d.entries <=> x \in q.entries
          /\ x \in d.active <=> x \in q.active
    BY <1>5, <1>6, <1>9, <1>14, <1>17
<1>20. Fit(d, w, [places EXCEPT ![t] = "idle"])
    BY <1>15, <1>17, <1>18, <1>19, OneMoves DEF Places
<1> QED BY <1>1, <1>2, <1>20

(* An entry of project_slot comes and goes.                                 *)
LEMMA LocalComes ==
    ASSUME NEW q, NEW s, NEW places, Fit(q, s, places), NEW t \in Tokens, places[t] = "idle",
           NEW ask \in LocalRequests
    PROVE  Fit(Enqueue(q, t, ask), s, [places EXCEPT ![t] = "local"])
<1>1. PICK d : d = Enqueue(q, t, ask)
    OBVIOUS
<1>2. Sound(q, FALSE) /\ Tidy(s) /\ Placed(q, s, places, t)
    BY DEF Fit
<1>3. t \notin q.entries
    BY <1>2 DEF Placed
<1>4. IsRequest(ask)
    BY SchedulerAssumption DEF IsRequest
<1>5. Sound(d, FALSE) /\ d.entries = q.entries \cup {t} /\ d.active = q.active
  <2>1. Sound(d, FALSE) /\ Enqueued(q, t, ask, d)
      BY <1>1, <1>2, <1>3, <1>4, EnqueueSound
  <2> QED BY <2>1 DEF Enqueued
<1>6. [places EXCEPT ![t] = "local"][t] = "local"
    BY DEF Fit
<1>7. Placed(d, s, [places EXCEPT ![t] = "local"], t)
    BY <1>2, <1>6 DEF Placed
<1>8. Fit(d, s, [places EXCEPT ![t] = "local"])
    BY <1>2, <1>5, <1>7, OneMoves DEF Places
<1> QED BY <1>1, <1>8

LEMMA LocalGoes ==
    ASSUME NEW q, NEW s, NEW places, Fit(q, s, places), NEW t \in Tokens, places[t] = "local"
    PROVE  Fit(Discard(q, t), s, [places EXCEPT ![t] = "idle"])
<1>1. PICK d : d = Discard(q, t)
    OBVIOUS
<1>2. Sound(q, FALSE) /\ Tidy(s) /\ Placed(q, s, places, t)
    BY DEF Fit
<1>3. Sound(d, FALSE) /\ d.entries = q.entries \ {t} /\ d.active = q.active \ {t}
  <2>1. Sound(d, FALSE) /\ Discarded(q, t, d)
      BY <1>1, <1>2, DiscardSound
  <2> QED BY <2>1 DEF Discarded
<1>4. [places EXCEPT ![t] = "idle"][t] = "idle"
    BY DEF Fit
<1>5. Placed(d, s, [places EXCEPT ![t] = "idle"], t)
    BY <1>2, <1>3, <1>4 DEF Placed
<1>6. Fit(d, s, [places EXCEPT ![t] = "idle"])
    BY <1>2, <1>3, <1>5, OneMoves DEF Places
<1> QED BY <1>1, <1>6

----------------------------------------------------------------------------
(* Each handler keeps the invariant.                                        *)
LEMMA SlotKeeps ==
    ASSUME Inv, NEW t \in Tokens, NEW k \in Kinds, Slot(t, k)
    PROVE  Inv'
<1>1. PICK q, s, places : q = queue /\ s = sched /\ places = pc
    OBVIOUS
<1>2. PICK lim, pause, shut : lim = limit /\ pause = paused /\ shut = closed
    OBVIOUS
<1>3. Fit(q, s, places) /\ places[t] = "idle" /\ Placed(q, s, places, t)
    BY <1>1 DEF Inv, Fit, Slot
<1>4. /\ t \notin ToSet(s.waiting) /\ t \notin s.active /\ t \notin q.entries
    BY <1>3 DEF Placed
<1>5. PICK d, c, after : /\ d = WithClaims(q, t, k) /\ c = Competing(s, t, k)
                         /\ after = [places EXCEPT ![t] = "queued"]
    OBVIOUS
<1>6. Fit(d, c, after)
    BY <1>3, <1>4, <1>5, Competes
<1>7. c = [s EXCEPT !.waiting = Append(@, t), !.ticket[t] = k]
  <2>1. s \in SchedType /\ s.active \ {t} = s.active
      BY <1>3, <1>4 DEF Fit, Tidy
  <2> QED BY <1>5, <2>1 DEF Competing, SchedType
<1>8. DrainAll(d, c, lim, pause, after, shut) /\ pc' = after
    BY <1>1, <1>2, <1>5, <1>7 DEF Slot
<1>9. limit' = lim /\ paused' = pause /\ closed' = shut
    BY <1>2 DEF Slot, budget
<1>10. lim \in Limits \cup {0} /\ {pause, shut, notify'} \subseteq BOOLEAN
    BY <1>2 DEF Inv, Slot
<1> QED BY <1>6, <1>8, <1>9, <1>10, Draining

LEMMA ReleaseKeeps ==
    ASSUME Inv, NEW t \in Tokens, Release(t)
    PROVE  Inv'
<1>1. PICK q, s, places : q = queue /\ s = sched /\ places = pc
    OBVIOUS
<1>2. PICK lim, pause, shut : lim = limit /\ pause = paused /\ shut = closed
    OBVIOUS
<1>3. Fit(q, s, places) /\ places[t] = "leaving"
    BY <1>1 DEF Inv, Release
<1>4. PICK d, w, after : /\ d = FreeClaims(q, s, t) /\ w = Without(s, t)
                         /\ after = [places EXCEPT ![t] = "idle"]
    OBVIOUS
<1>5. Fit(d, w, after)
    BY <1>3, <1>4, Leaves
<1>6. DrainAll(d, w, lim, pause, after, shut) /\ pc' = after
    BY <1>1, <1>2, <1>4 DEF Release, AfterRelease
<1>7. limit' = lim /\ paused' = pause /\ closed' = shut
    BY <1>2 DEF Release, budget
<1>8. lim \in Limits \cup {0} /\ {pause, shut, notify'} \subseteq BOOLEAN
    BY <1>2 DEF Inv, Release
<1> QED BY <1>5, <1>6, <1>7, <1>8, Draining

LEMMA LocalSlotKeeps ==
    ASSUME Inv, NEW t \in Tokens, NEW ask \in LocalRequests, LocalSlot(t, ask)
    PROVE  Inv'
<1>1. PICK q, s, places : q = queue /\ s = sched /\ places = pc
    OBVIOUS
<1>2. PICK lim, pause, shut : lim = limit /\ pause = paused /\ shut = closed
    OBVIOUS
<1>3. Fit(q, s, places) /\ places[t] = "idle"
    BY <1>1 DEF Inv, LocalSlot
<1>4. PICK d, after : d = Enqueue(q, t, ask) /\ after = [places EXCEPT ![t] = "local"]
    OBVIOUS
<1>5. Fit(d, s, after)
    BY <1>3, <1>4, LocalComes
<1>6. DrainAll(d, s, lim, pause, after, shut) /\ pc' = after
    BY <1>1, <1>2, <1>4 DEF LocalSlot
<1>7. limit' = lim /\ paused' = pause /\ closed' = shut
    BY <1>2 DEF LocalSlot, budget
<1>8. lim \in Limits \cup {0} /\ {pause, shut, notify'} \subseteq BOOLEAN
    BY <1>2 DEF Inv, LocalSlot
<1> QED BY <1>5, <1>6, <1>7, <1>8, Draining

LEMMA LocalReleaseKeeps ==
    ASSUME Inv, NEW t \in Tokens, LocalRelease(t)
    PROVE  Inv'
<1>1. PICK q, s, places : q = queue /\ s = sched /\ places = pc
    OBVIOUS
<1>2. PICK lim, pause, shut : lim = limit /\ pause = paused /\ shut = closed
    OBVIOUS
<1>3. Fit(q, s, places) /\ places[t] = "local"
    BY <1>1 DEF Inv, LocalRelease
<1>4. PICK d, after : d = Discard(q, t) /\ after = [places EXCEPT ![t] = "idle"]
    OBVIOUS
<1>5. Fit(d, s, after)
    BY <1>3, <1>4, LocalGoes
<1>6. DrainAll(d, s, lim, pause, after, shut) /\ pc' = after
    BY <1>1, <1>2, <1>4 DEF LocalRelease, AfterRelease
<1>7. limit' = lim /\ paused' = pause /\ closed' = shut
    BY <1>2 DEF LocalRelease, budget
<1>8. lim \in Limits \cup {0} /\ {pause, shut, notify'} \subseteq BOOLEAN
    BY <1>2 DEF Inv, LocalRelease
<1> QED BY <1>5, <1>6, <1>7, <1>8, Draining

LEMMA PressureKeeps ==
    ASSUME Inv, NEW lim \in Limits \cup {0}, NEW pause \in BOOLEAN, Pressure(lim, pause)
    PROVE  Inv'
<1>1. PICK q, s, places, shut : q = queue /\ s = sched /\ places = pc /\ shut = closed
    OBVIOUS
<1>2. Fit(q, s, places)
    BY <1>1 DEF Inv
<1>3. DrainAll(q, s, lim, pause, places, shut)
    BY <1>1 DEF Pressure
<1>4. limit' = lim /\ paused' = pause /\ pc' = places /\ closed' = shut
    BY <1>1 DEF Pressure
<1>5. {pause, shut, notify'} \subseteq BOOLEAN
    BY <1>1 DEF Inv, Pressure
<1> QED BY <1>2, <1>3, <1>4, <1>5, Draining

LEMMA ReconfigureKeeps ==
    ASSUME Inv, NEW relaxed \in Modes, Reconfigure(relaxed)
    PROVE  Inv'
<1>1. PICK q, s, places : q = queue /\ s = sched /\ places = pc
    OBVIOUS
<1>2. PICK lim, pause, shut : lim = limit /\ pause = paused /\ shut = closed
    OBVIOUS
<1>3. Fit(q, s, places) /\ Sound(q, FALSE) /\ relaxed \in BOOLEAN
    BY <1>1, SchedulerAssumption DEF Inv, Fit
<1>4. PICK d : d = Reindexed(q, relaxed)
    OBVIOUS
<1>5. Sound(d, FALSE) /\ Rematched(q, relaxed, d)
    BY <1>3, <1>4, ReindexSound
<1>6. Fit(d, s, places)
    BY <1>3, <1>5, QueueReplaced DEF Rematched
<1>7. DrainAll(d, s, lim, pause, places, shut)
    BY <1>1, <1>2, <1>4 DEF Reconfigure
<1>8. limit' = lim /\ paused' = pause /\ pc' = places /\ closed' = shut
    BY <1>1, <1>2 DEF Reconfigure, budget
<1>9. lim \in Limits \cup {0} /\ {pause, shut, notify'} \subseteq BOOLEAN
    BY <1>2 DEF Inv, Reconfigure
<1> QED BY <1>6, <1>7, <1>8, <1>9, Draining

LEMMA CloseKeeps ==
    ASSUME Inv, Close
    PROVE  Inv'
<1>1. PICK q, s, places : q = queue /\ s = sched /\ places = pc
    OBVIOUS
<1>2. PICK lim, pause : lim = limit /\ pause = paused
    OBVIOUS
<1>3. Fit(q, s, places)
    BY <1>1 DEF Inv
<1>4. DrainAll(q, s, lim, pause, places, TRUE)
    BY <1>1, <1>2 DEF Close
<1>5. limit' = lim /\ paused' = pause /\ pc' = places /\ closed' = TRUE
    BY <1>1, <1>2 DEF Close, budget
<1>6. lim \in Limits \cup {0} /\ {pause, TRUE, notify'} \subseteq BOOLEAN
    BY <1>2 DEF Inv, Close
<1> QED BY <1>3, <1>4, <1>5, <1>6, Draining

LEMMA TimerKeeps ==
    ASSUME Inv, TimerFires
    PROVE  Inv'
<1>1. PICK q, s, places : q = queue /\ s = sched /\ places = pc
    OBVIOUS
<1>2. PICK lim, pause, shut : lim = limit /\ pause = paused /\ shut = closed
    OBVIOUS
<1>3. Fit(q, s, places) /\ Sound(q, FALSE)
    BY <1>1 DEF Inv, Fit
<1>4. PICK d : d = [q EXCEPT !.timer = FALSE]
    OBVIOUS
<1>5. Sound(d, FALSE) /\ Rescheduled(q, d)
    BY <1>3, <1>4, QuietSound
<1>6. Fit(d, s, places)
    BY <1>3, <1>5, QueueReplaced DEF Rescheduled
<1>7. DrainAll(d, s, lim, pause, places, shut)
    BY <1>1, <1>2, <1>4 DEF TimerFires
<1>8. limit' = lim /\ paused' = pause /\ pc' = places /\ closed' = shut
    BY <1>1, <1>2 DEF TimerFires, budget
<1>9. lim \in Limits \cup {0} /\ {pause, shut, notify'} \subseteq BOOLEAN
    BY <1>2 DEF Inv, TimerFires
<1> QED BY <1>6, <1>7, <1>8, <1>9, Draining

(* A conversion does not drain: it tells the task that will.                *)
LEMMA ConvertKeeps ==
    ASSUME Inv, NEW t \in Tokens, NEW k \in Conversions, Convert(t, k)
    PROVE  Inv'
<1>1. PICK q, s, places : q = queue /\ s = sched /\ places = pc
    OBVIOUS
<1>2. PICK lim, pause : lim = limit /\ pause = paused
    OBVIOUS
<1>3. /\ Fit(q, s, places) /\ Placed(q, s, places, t)
      /\ places[t] = "running" /\ t \in s.active /\ ~HasClaims(s, t)
    BY <1>1 DEF Inv, Fit, Convert
<1>4. t \notin ToSet(s.waiting) /\ t \notin q.entries
    BY <1>3 DEF Placed
<1>5. PICK d, c, after : /\ d = WithClaims(q, t, k) /\ c = Competing(s, t, k)
                         /\ after = [places EXCEPT ![t] = "queued"]
    OBVIOUS
<1>6. Fit(d, c, after) /\ HasClaims(c, t)
    BY <1>3, <1>4, <1>5, Competes, SchedulerAssumption
<1>7. t \in Selected(d, c, lim, pause) /\ queue' = Grant(d, {t}) /\ sched' = Admit(c, t)
    BY <1>1, <1>2, <1>5 DEF Convert
<1>8. PICK e, r : e = Grant(d, {t}) /\ r = Admit(c, t)
    OBVIOUS
<1>9. GrantTicket([queue |-> d, sched |-> c], t) = [queue |-> e, sched |-> r]
    BY <1>6, <1>8 DEF GrantTicket
<1>10. Fit(e, r, after) /\ t \in r.active
    BY <1>6, <1>7, <1>9, TicketGranted
<1>11. Fit(e, r, places)
  <2>1. /\ after[t] = "queued" /\ places \in [Tokens -> Places]
        /\ \A x \in Tokens \ {t} : after[x] = places[x]
      BY <1>3, <1>5 DEF Fit
  <2>2. \A x \in Tokens : Placed(e, r, after, x)
      BY <1>10 DEF Fit
  <2>3. \A x \in Tokens \ {t} : Placed(e, r, places, x)
      BY <2>1, <2>2 DEF Placed
  <2>4. Placed(e, r, places, t)
      BY <1>3, <1>10, <2>1, <2>2 DEF Placed
  <2> QED BY <1>10, <2>1, <2>3, <2>4 DEF Fit
<1>12. Fit(queue, sched, pc)'
  <2>1. pc' = places /\ queue' = e /\ sched' = r
      BY <1>1, <1>7, <1>8 DEF Convert
  <2> QED BY <1>11, <2>1
<1>13. notify' = TRUE
    BY DEF Convert, TellsOthers
<1>14. limit' = limit /\ paused' = paused /\ closed' = closed
    BY DEF Convert, budget
<1>15. NobodyForgotten'
    BY <1>13 DEF NobodyForgotten
<1> QED BY <1>12, <1>13, <1>14, <1>15 DEF Inv

(* A coroutine moves by itself: not into or out of project_slot, and into   *)
(* its body only with its slot.                                             *)
LEMMA CoroutineKeeps ==
    ASSUME Inv, NEW t \in Tokens, pc[t] \in {"queued", "running"},
           NEW place \in {"running", "leaving"}, place = "running" => t \in sched.active,
           pc' = [pc EXCEPT ![t] = place], UNCHANGED <<queue, sched, budget, closed, notify>>
    PROVE  Inv'
<1>1. PICK q, s, places : q = queue /\ s = sched /\ places = pc
    OBVIOUS
<1>2. PICK after : after = [places EXCEPT ![t] = place]
    OBVIOUS
<1>3. Fit(q, s, places) /\ places[t] \in {"queued", "running"}
    BY <1>1 DEF Inv
<1>4. /\ after \in [Tokens -> Places] /\ after[t] = place
      /\ \A x \in Tokens \ {t} : after[x] = places[x]
    BY <1>2, <1>3 DEF Fit, Places
<1>5. ASSUME NEW x \in Tokens PROVE Placed(q, s, after, x)
  <2>1. Placed(q, s, places, x)
      BY <1>3 DEF Fit
  <2>2. CASE x = t
      BY <1>1, <1>3, <1>4, <2>1, <2>2 DEF Placed
  <2>3. CASE x # t
      BY <1>4, <2>1, <2>3 DEF Placed
  <2> QED BY <2>2, <2>3
<1>6. Fit(q, s, after)
    BY <1>3, <1>4, <1>5 DEF Fit
<1>7. queue' = queue /\ sched' = sched /\ limit' = limit /\ paused' = paused
      /\ closed' = closed /\ notify' = notify /\ pc' = after
    BY <1>1, <1>2 DEF budget
<1>8. Fit(queue, sched, pc)'
    BY <1>1, <1>6, <1>7
<1>9. Locals(pc') = Locals(pc)
    BY <1>1, <1>3, <1>4, <1>7 DEF Locals
<1>10. NobodyForgotten'
    BY <1>7, <1>9 DEF Inv, NobodyForgotten
<1>11. (~notify => Armed(queue))'
    BY <1>7 DEF Inv
<1> QED BY <1>7, <1>8, <1>10, <1>11 DEF Inv

(* An owner becomes long.  When no timer is armed nobody waits for claims.   *)
LEMMA AgeKeeps ==
    ASSUME Inv, NEW t \in Tokens, Age(t)
    PROVE  Inv'
<1>1. PICK q, s, places : q = queue /\ s = sched /\ places = pc
    OBVIOUS
<1>2. PICK d : d = [q EXCEPT !.long = @ \cup {t}]
    OBVIOUS
<1>3. Fit(q, s, places) /\ Sound(q, FALSE) /\ Shape(q) /\ t \in q.active \ q.long
    BY <1>1 DEF Inv, Fit, Age, Sound
<1>4. Sound(d, FALSE)
    BY <1>2, <1>3, AgeSound
<1>5. /\ d.entries = q.entries /\ d.active = q.active /\ d.timer = q.timer
      /\ d.long = q.long \cup {t} /\ Waiting(d) = Waiting(q)
    BY <1>2, <1>3 DEF Shape, QueueType, Waiting
<1>6. Fit(d, s, places)
    BY <1>3, <1>4, <1>5, QueueReplaced
<1>7. /\ queue' = d /\ sched' = s /\ pc' = places /\ limit' = limit /\ paused' = paused
      /\ closed' = closed /\ notify' = notify
    BY <1>1, <1>2 DEF Age, budget
<1>8. (~notify => Armed(queue))'
    BY <1>1, <1>5, <1>7 DEF Inv, Armed
<1>9. NobodyForgotten'
  <2>1. SUFFICES ASSUME ~closed', ~notify', ~queue'.timer
                 PROVE  /\ Eligible(d, s, limit', paused') = {}
                        /\ \A x \in Locals(places) \cap Waiting(d) : Blocked(d, x)
      BY <1>7 DEF NobodyForgotten
  <2>2. Waiting(q) = {} /\ Waiting(d) = {}
      BY <1>1, <1>3, <1>5, <1>7, <2>1 DEF Inv, Armed
  <2>3. Eligible(q, s, limit, paused) = {}
      BY <1>1, <1>5, <1>7, <2>1 DEF Inv, NobodyForgotten
  <2>4. ASSUME NEW i \in DOMAIN s.waiting PROVE ~HasClaims(s, s.waiting[i])
    <3>1. s.waiting[i] \in Tokens
        BY <1>3, SchedFields, LenProperties, ElementOfSeq DEF Fit, Tidy
    <3>2. s.waiting[i] \in ToSet(s.waiting) /\ Placed(q, s, places, s.waiting[i])
        BY <1>3, <3>1 DEF ToSet, Fit
    <3> QED BY <2>2, <3>2 DEF Placed
  <2>5. Eligible(d, s, limit, paused) = Eligible(q, s, limit, paused)
      BY <2>4 DEF Eligible
  <2> QED BY <1>7, <2>2, <2>3, <2>5
<1>10. Fit(queue, sched, pc)'
    BY <1>6, <1>7
<1> QED BY <1>7, <1>8, <1>9, <1>10 DEF Inv

LEMMA InitInv == Init => Inv
<1> SUFFICES ASSUME Init PROVE Inv
    OBVIOUS
<1>1. PICK relaxed \in Modes : queue = EmptyQueue(relaxed)
    BY DEF Init
<1>2. relaxed \in BOOLEAN
    BY SchedulerAssumption
<1>3. Sound(queue, FALSE) /\ queue.entries = {} /\ queue.active = {} /\ Waiting(queue) = {}
    BY <1>1, <1>2, EmptySound DEF EmptyQueue, Waiting
<1>4. PICK s : s = sched
    OBVIOUS
<1>5. /\ s = [waiting |-> <<>>, active |-> {}, turn |-> {}, ticket |-> [t \in Tokens |-> NoTicket]]
      /\ pc = [t \in Tokens |-> "idle"]
    BY <1>4 DEF Init
<1>6. s.waiting \in Seq(Tokens) /\ DOMAIN s.waiting = {}
    BY <1>5, EmptySeq, LenProperties
<1>7. Tidy(s)
  <2>1. s \in SchedType
      BY <1>5, <1>6 DEF SchedType, Tickets
  <2>2. IsFiniteSet(s.active) /\ IsFiniteSet(s.turn)
      BY <1>5, FS_EmptySet
  <2> QED BY <1>5, <1>6, <2>1, <2>2 DEF Tidy, Single, Reflexive
<1>8. ToSet(s.waiting) = {} /\ \A t \in Tokens : ~HasClaims(s, t)
    BY <1>5, <1>6 DEF ToSet, HasClaims, NoTicket
<1>9. \A t \in Tokens : Placed(queue, s, pc, t)
    BY <1>3, <1>5, <1>8 DEF Placed
<1>10. Fit(queue, sched, pc)
    BY <1>3, <1>4, <1>5, <1>7, <1>9 DEF Fit, Places
<1>11. Eligible(queue, sched, limit, paused) = {}
    BY <1>4, <1>6 DEF Eligible
<1>12. Armed(queue) /\ NobodyForgotten
    BY <1>3, <1>11 DEF Armed, NobodyForgotten
<1> QED BY <1>10, <1>12 DEF Init, Inv

LEMMA NextInv == Inv /\ [Next]_vars => Inv'
<1> SUFFICES ASSUME Inv, [Next]_vars PROVE Inv'
    OBVIOUS
<1>1. CASE Arrival
    BY <1>1, SlotKeeps, LocalSlotKeeps DEF Arrival
<1>2. ASSUME NEW t \in Tokens, Resume(t) PROVE Inv'
  <2>1. PICK place \in {"running", "leaving"} : place = IF closed THEN "leaving" ELSE "running"
      OBVIOUS
  <2>2. pc' = [pc EXCEPT ![t] = place] /\ (place = "running" => t \in sched.active)
      BY <1>2, <2>1 DEF Resume
  <2> QED BY <1>2, <2>2, CoroutineKeeps DEF Resume
<1>3. ASSUME NEW t \in Tokens, Abandon(t) PROVE Inv'
    BY <1>3, CoroutineKeeps DEF Abandon
<1>4. ASSUME NEW t \in Tokens, End(t) PROVE Inv'
    BY <1>4, CoroutineKeeps DEF End
<1>5. ASSUME NEW t \in Tokens, NEW k \in Conversions, Convert(t, k) PROVE Inv'
    BY <1>5, ConvertKeeps
<1>6. ASSUME NEW lim \in Limits, Pressure(lim, FALSE) PROVE Inv'
    BY <1>6, PressureKeeps
<1>7. CASE Pressure(0, TRUE)
    BY <1>7, PressureKeeps
<1>8. CASE UNCHANGED vars
  <2>1. Fit(queue, sched, pc)' /\ (~notify => Armed(queue))'
      BY <1>8 DEF vars, budget, Inv
  <2>2. NobodyForgotten'
      BY <1>8 DEF vars, budget, Inv, NobodyForgotten
  <2> QED BY <1>8, <2>1, <2>2 DEF vars, budget, Inv
<1> QED BY <1>1, <1>2, <1>3, <1>4, <1>5, <1>6, <1>7, <1>8, NotifiedKeeps, ReleaseKeeps,
           LocalReleaseKeeps, AgeKeeps, ReconfigureKeeps, CloseKeeps, TimerKeeps DEF Next

(* The inductive invariant.                                                 *)
THEOREM Invariance == Spec => []Inv
<1> QED BY InitInv, NextInv, PTL DEF Spec

----------------------------------------------------------------------------
(* Tickets are in one place, turns belong to keys that were served, owners  *)
(* of claims are entries of the queue.                                      *)
THEOREM SchedulerTypeCorrect == Spec => []TypeOK
<1>1. Inv => TypeOK
  <2> SUFFICES ASSUME Inv PROVE TypeOK
      OBVIOUS
  <2>1. PICK s : s = sched
      OBVIOUS
  <2>2. Tidy(s) /\ \A t \in Tokens : Placed(queue, s, pc, t)
      BY <2>1 DEF Inv, Fit
  <2>3. ToSet(s.waiting) \subseteq Tokens
      BY <2>2, SchedFields, LenProperties, ElementOfSeq DEF Tidy, ToSet
  <2>4. ToSet(s.waiting) \subseteq Tokens \ s.active
      BY <2>2, <2>3 DEF Placed
  <2>5. s.active \subseteq Tokens /\ \A t \in Tokens : s.ticket[t] \in Kinds \cup Conversions \cup {NoTicket}
      BY <2>2, SchedFields DEF Tidy, Tickets
  <2>6. queue.active \subseteq queue.entries /\ queue.entries \subseteq Tokens
      BY DEF Inv, Fit, Sound, Shape, QueueType
  <2> QED BY <2>1, <2>2, <2>4, <2>5, <2>6 DEF TypeOK, Inv, Fit, Tidy, Reflexive
<1> QED BY <1>1, Invariance, PTL

(* A ticket owns its claims exactly while it owns its slot and waits for    *)
(* them exactly while it waits for its slot, after any sequence of grants,  *)
(* cancellations between grant and resumption, conversions and close        *)
(* (scheduler.py:187-206, 283-291, 312-327, 367).                           *)
THEOREM SlotsComeWithClaims == Spec => []JointOwnership
<1>1. Inv => JointOwnership
    BY DEF Inv, Fit, Placed, JointOwnership
<1> QED BY <1>1, Invariance, PTL

(* Whatever changed, the step that changed it granted everything that       *)
(* became free, or the timer or the task of a conversion will               *)
(* (scheduler.py:219-310).                                                  *)
THEOREM NobodyIsForgotten == Spec => []NobodyForgotten
<1>1. Inv => NobodyForgotten
    BY DEF Inv
<1> QED BY <1>1, Invariance, PTL
=============================================================================
