---------------------------- MODULE StorageProofs ----------------------------
(***************************************************************************)
(* What is kept through interruptions: encrypted fields stay readable      *)
(* through a change of keys (KeyRotation), a read decides what was granted *)
(* when it ended (StoreReads), and an upload keeps what it acknowledged    *)
(* and is published once (IncomingUpload).  The three share no state, and  *)
(* each part stands by itself.                                             *)
(***************************************************************************)
EXTENDS KeyRotation, StoreReads, IncomingUpload, FiniteSetTheorems, SequenceTheorems,
        WellFoundedInduction, TLAPS

----------------------------------------------------------------------------
(* Whatever the number of keys and fields, no field of the database becomes *)
(* unreadable, an interrupted rotation can be resumed, and a finished one   *)
(* has retired the old keys.                                                *)
(*                                                                          *)
(* Readable is not inductive: PublishRing replaces the ring on disk by the  *)
(* plan, so the plan must be known to cover every field from the moment it  *)
(* is made, and, since a kill forgets the plan, so must the staged ring     *)
(* that the journal names, whatever the Hub writes in between.              *)

(* A ring that may replace the one on disk.                                 *)
Covers(next) ==
    /\ next \in Rings
    /\ ring # None => ring.active \in next.keys
    /\ \A r \in Rows : rows[r] # None => Decrypts(Suite(legacy, next), rows[r])

HubIsCurrent == lock = "hub" => cipher = Suite(legacy, ring) /\ pc = "off"

Journalled == Unfinished => Covers(staged[journal.active])

Unpublished == {"stage", "prepare"}
Published   == {"published", "encrypt", "committed", "replace", "replaced", "trim"}
Committed   == {"committed", "replace", "replaced", "trim", "done"}
Replaced    == {"replaced", "trim", "done"}

RowsOf(key) == \A r \in Rows : rows[r] # None => rows[r] = [versioned |-> TRUE, key |-> key]

Progress ==
    /\ pc \in Unpublished \cup {"publish"} \cup Published \cup {"done", "off"}
    /\ pc \in Unpublished => ~Unfinished /\ Covers(plan)
    /\ pc = "prepare" => staged[plan.active] = plan
    /\ pc \in Published \cup {"publish", "done"} =>
        Unfinished /\ journal.active = plan.active /\ staged[plan.active] = plan
    /\ pc \in Published => ring = plan
    /\ pc \in Committed => RowsOf(plan.active)
    /\ pc \in Replaced => legacy = plan.active
    /\ pc = "done" => ring = [active |-> plan.active, keys |-> {plan.active}]

RingInv == TypeOK /\ HubIsCurrent /\ Readable /\ Journalled /\ Progress /\ Retired

----------------------------------------------------------------------------
(* What a process writes with the keys it found on disk, those keys read,   *)
(* and so does every ring that covers them.                                 *)
LEMMA EncryptTyped ==
    ASSUME legacy \in Keys, ring \in Rings \cup {None}
    PROVE  /\ Encrypt(Suite(legacy, ring)) \in Fields
           /\ Encrypt(Suite(legacy, ring)) # None
           /\ Decrypts(Suite(legacy, ring), Encrypt(Suite(legacy, ring)))
           /\ \A next : Covers(next) =>
                Decrypts(Suite(legacy, next), Encrypt(Suite(legacy, ring)))
<1>1. \A f : f \in Fields => f # None
    BY NoneAssumption
<1>2. CASE ring = None
    <2> DEFINE field == [versioned |-> FALSE, key |-> legacy]
    <2>1. Encrypt(Suite(legacy, ring)) = field
        BY <1>2 DEF Encrypt, Suite
    <2>2. field \in Fields
        BY DEF Fields
    <2>3. \A next : Decrypts(Suite(legacy, next), field)
        BY DEF Decrypts, Suite
    <2> HIDE DEF field
    <2> QED BY <1>1, <2>1, <2>2, <2>3
<1>3. CASE ring # None
    <2> DEFINE field == [versioned |-> TRUE, key |-> ring.active]
    <2>1. Encrypt(Suite(legacy, ring)) = field
        BY <1>3 DEF Encrypt, Suite
    <2>2. ring.active \in Keys /\ ring.active \in ring.keys
        BY <1>3 DEF Rings
    <2>3. field \in Fields
        BY <2>2 DEF Fields
    <2>4. Decrypts(Suite(legacy, ring), field)
        BY <1>3, <2>2 DEF Decrypts, Suite
    <2>5. ASSUME NEW next, Covers(next)
          PROVE  Decrypts(Suite(legacy, next), field)
        <3>1. next # None /\ ring.active \in next.keys
            BY <1>3, <2>5, NoneAssumption DEF Covers
        <3> QED BY <3>1 DEF Decrypts, Suite
    <2> HIDE DEF field
    <2> QED BY <1>1, <2>1, <2>3, <2>4, <2>5
<1> QED BY <1>2, <1>3

(* Nothing that the predicates of the rotation read has changed.            *)
LEMMA DiskKept ==
    ASSUME UNCHANGED <<legacy, ring, rows>>
    PROVE  /\ Readable' <=> Readable
           /\ \A next : Covers(next)' <=> Covers(next)
BY DEF Readable, Covers, Decrypts, Suite

LEMMA InitHolds == Init => RingInv
<1> SUFFICES ASSUME Init PROVE RingInv
    OBVIOUS
<1>1. TypeOK
    BY DEF Init, TypeOK
<1>2. ~Unfinished /\ ~(journal # None)
    BY DEF Init, Unfinished
<1> QED BY <1>1, <1>2 DEF RingInv, Init, HubIsCurrent, Readable, Journalled, Progress, Retired,
            Unpublished, Published, Committed, Replaced

----------------------------------------------------------------------------
LEMMA HubStartsKeeps == RingInv /\ HubStarts => RingInv'
<1> SUFFICES ASSUME RingInv, HubStarts PROVE RingInv'
    OBVIOUS
<1> USE DEF RingInv, HubStarts, disk
<1>1. pc = "off" /\ pc' = "off"
    BY DEF TypeOK
<1>2. TypeOK'
    BY <1>1 DEF TypeOK
<1>3. HubIsCurrent'
    BY <1>1 DEF HubIsCurrent, Suite
<1>4. Unfinished' <=> Unfinished
    BY DEF Unfinished
<1>5. Readable' /\ Journalled'
    BY <1>4, DiskKept DEF Journalled
<1>6. Progress'
    BY <1>1 DEF Progress, Unpublished, Published, Committed, Replaced
<1>7. Retired'
    BY DEF Retired, Encrypt, Suite
<1> QED BY <1>2, <1>3, <1>5, <1>6, <1>7

LEMMA HubWritesKeeps == ASSUME NEW r \in Rows PROVE RingInv /\ HubWrites(r) => RingInv'
<1> SUFFICES ASSUME RingInv, HubWrites(r) PROVE RingInv'
    OBVIOUS
<1> USE DEF RingInv, HubWrites, process
<1>1. pc = "off" /\ pc' = "off" /\ cipher = Suite(legacy, ring)
    BY DEF HubIsCurrent
<1>2. legacy \in Keys /\ ring \in Rings \cup {None}
    BY DEF TypeOK
<1>3. rows' = [rows EXCEPT ![r] = Encrypt(Suite(legacy, ring))]
    BY <1>1
<1>4. TypeOK'
    BY <1>1, <1>2, <1>3, EncryptTyped DEF TypeOK
<1>5. \A q \in Rows : rows'[q] = IF q = r THEN Encrypt(Suite(legacy, ring)) ELSE rows[q]
    BY <1>3 DEF TypeOK
<1>6. HubIsCurrent'
    BY <1>1 DEF HubIsCurrent, Suite
<1>7. Readable'
    BY <1>2, <1>5, EncryptTyped DEF Readable, Decrypts, Suite
<1>8. ASSUME NEW next, Covers(next) PROVE Covers(next)'
    <2>1. Decrypts(Suite(legacy, next), Encrypt(Suite(legacy, ring)))
        BY <1>2, <1>8, EncryptTyped
    <2>2. \A q \in Rows : rows'[q] # None => Decrypts(Suite(legacy, next), rows'[q])
        BY <1>5, <1>8, <2>1 DEF Covers
    <2> QED BY <1>8, <2>2 DEF Covers, Decrypts, Suite
<1>9. Journalled'
    BY <1>8 DEF Journalled, Unfinished
<1>10. Progress'
    BY <1>1 DEF Progress, Unpublished, Published, Committed, Replaced
<1>11. Retired'
    BY <1>5 DEF Retired, Encrypt, Suite
<1> QED BY <1>4, <1>6, <1>7, <1>9, <1>10, <1>11

LEMMA HubDeletesKeeps == ASSUME NEW r \in Rows PROVE RingInv /\ HubDeletes(r) => RingInv'
<1> SUFFICES ASSUME RingInv, HubDeletes(r) PROVE RingInv'
    OBVIOUS
<1> USE DEF RingInv, HubDeletes, process
<1>1. pc = "off" /\ pc' = "off"
    BY DEF HubIsCurrent
<1>2. TypeOK'
    BY <1>1 DEF TypeOK
<1>3. \A q \in Rows : rows'[q] = IF q = r THEN None ELSE rows[q]
    BY DEF TypeOK
<1>4. HubIsCurrent'
    BY <1>1 DEF HubIsCurrent, Suite
<1>5. Readable'
    BY <1>3 DEF Readable, Decrypts, Suite
<1>6. ASSUME NEW next, Covers(next) PROVE Covers(next)'
    BY <1>3, <1>6 DEF Covers, Decrypts, Suite
<1>7. Journalled'
    BY <1>6 DEF Journalled, Unfinished
<1>8. Progress'
    BY <1>1 DEF Progress, Unpublished, Published, Committed, Replaced
<1>9. Retired'
    BY <1>3 DEF Retired, Encrypt, Suite
<1> QED BY <1>2, <1>4, <1>5, <1>7, <1>8, <1>9

LEMMA KilledKeeps == RingInv /\ Killed => RingInv'
<1> SUFFICES ASSUME RingInv, Killed PROVE RingInv'
    OBVIOUS
<1> USE DEF RingInv, Killed, disk
<1>1. TypeOK' /\ HubIsCurrent'
    BY DEF TypeOK, HubIsCurrent
<1>2. Unfinished' <=> Unfinished
    BY DEF Unfinished
<1>3. Readable' /\ Journalled'
    BY <1>2, DiskKept DEF Journalled
<1>4. Progress'
    BY DEF Progress, Unpublished, Published, Committed, Replaced
<1>5. Retired'
    BY DEF Retired, Encrypt, Suite
<1> QED BY <1>1, <1>3, <1>4, <1>5

----------------------------------------------------------------------------
(* The plan of a new rotation keeps every key that reads something now.     *)
LEMMA RotateKeeps == RingInv /\ Rotate => RingInv'
<1> SUFFICES ASSUME RingInv, Rotate PROVE RingInv'
    OBVIOUS
<1> USE DEF RingInv, Rotate, disk
<1>1. PICK fresh \in Keys \ born :
        plan' = [active |-> fresh, keys |-> Suite(legacy, ring).keys \cup {legacy, fresh}]
    OBVIOUS
<1>2. Suite(legacy, ring).keys \subseteq Keys
    BY DEF TypeOK, Suite, Rings
<1>3. plan' \in Rings
    BY <1>1, <1>2 DEF Rings, TypeOK
<1>4. TypeOK'
    BY <1>3 DEF TypeOK
<1>5. Covers(plan')
    <2>1. ring # None => ring.active \in (plan').keys
        BY <1>1 DEF TypeOK, Suite, Rings
    <2>2. plan' # None
        BY <1>3, NoneAssumption
    <2>3. \A r \in Rows : rows[r] # None => Decrypts(Suite(legacy, plan'), rows[r])
        BY <1>1, <2>2 DEF Readable, Decrypts, Suite
    <2> QED BY <1>3, <2>1, <2>3 DEF Covers
<1>6. Covers(plan)'
    BY <1>5 DEF Covers, Decrypts, Suite
<1>7. Unfinished' <=> Unfinished
    BY DEF Unfinished
<1>8. HubIsCurrent' /\ Readable' /\ Journalled'
    BY <1>7, DiskKept DEF HubIsCurrent, Journalled
<1>9. Progress'
    BY <1>6, <1>7 DEF Progress, Unpublished, Published, Committed, Replaced
<1>10. Retired'
    BY DEF Retired, Encrypt, Suite
<1> QED BY <1>4, <1>8, <1>9, <1>10

LEMMA ResumeKeeps == RingInv /\ Resume => RingInv'
<1> SUFFICES ASSUME RingInv, Resume PROVE RingInv'
    OBVIOUS
<1> USE DEF RingInv, Resume, disk
<1>1. journal.active \in Keys
    BY DEF TypeOK, Journals, Unfinished
<1>2. plan' \in Rings /\ (plan').active = journal.active
    BY <1>1 DEF TypeOK
<1>3. TypeOK'
    BY <1>2 DEF TypeOK
<1>4. Unfinished' <=> Unfinished
    BY DEF Unfinished
<1>5. HubIsCurrent' /\ Readable' /\ Journalled'
    BY <1>4, DiskKept DEF HubIsCurrent, Journalled
<1>6. Progress'
    BY <1>2, <1>4 DEF Progress, Unpublished, Published, Committed, Replaced
<1>7. Retired'
    BY DEF Retired, Encrypt, Suite
<1> QED BY <1>3, <1>5, <1>6, <1>7

----------------------------------------------------------------------------
(* The writes of a rotation, in their order.                                *)
LEMMA StageRingKeeps == RingInv /\ StageRing => RingInv'
<1> SUFFICES ASSUME RingInv, StageRing PROVE RingInv'
    OBVIOUS
<1> USE DEF RingInv, StageRing, Step
<1>1. pc = "stage" /\ pc' = "prepare" /\ plan \in Rings /\ Covers(plan) /\ ~Unfinished
    BY DEF Progress, Unpublished, TypeOK
<1>2. plan.active \in Keys
    BY <1>1 DEF Rings
<1>3. TypeOK'
    BY <1>1, <1>2 DEF TypeOK
<1>4. ~Unfinished'
    BY <1>1 DEF Unfinished
<1>5. (staged')[plan.active] = plan
    BY <1>2 DEF TypeOK
<1>6. Covers(plan)' /\ Readable'
    BY <1>1, DiskKept DEF Covers
<1>7. HubIsCurrent' /\ Journalled'
    BY <1>4 DEF HubIsCurrent, Journalled
<1>8. Progress'
    BY <1>1, <1>4, <1>5, <1>6 DEF Progress, Unpublished, Published, Committed, Replaced
<1>9. Retired'
    BY DEF Retired, Encrypt, Suite
<1> QED BY <1>3, <1>6, <1>7, <1>8, <1>9

(* The first record makes the staged ring the one that a resume goes by.    *)
LEMMA PreparedKeeps == RingInv /\ Record("prepare", "publish", "prepared") => RingInv'
<1> SUFFICES ASSUME RingInv, Record("prepare", "publish", "prepared") PROVE RingInv'
    OBVIOUS
<1> USE DEF RingInv, Record, Step, Note
<1>1. pc = "prepare" /\ plan \in Rings /\ Covers(plan) /\ staged[plan.active] = plan
    BY DEF Progress, Unpublished, TypeOK
<1>2. journal' = [active |-> plan.active, stage |-> "prepared"] /\ journal' \in Journals
    BY <1>1 DEF Journals, Stages, Rings
<1>3. TypeOK'
    BY <1>1, <1>2 DEF TypeOK
<1>4. Unfinished'
    BY <1>2, NoneAssumption DEF Unfinished
<1>5. Covers(plan)' /\ Readable'
    BY <1>1, DiskKept DEF Covers
<1>6. HubIsCurrent' /\ Journalled'
    BY <1>1, <1>2, <1>5 DEF HubIsCurrent, Journalled
<1>7. Progress'
    BY <1>1, <1>2, <1>4 DEF Progress, Unpublished, Published, Committed, Replaced
<1>8. Retired'
    BY <1>2 DEF Retired
<1> QED BY <1>3, <1>5, <1>6, <1>7, <1>8

(* The records between change nothing that a resume depends on.             *)
RingBetween == {<<"published", "encrypt", "keyring_published">>,
            <<"committed", "replace", "database_committed">>,
            <<"replaced", "trim", "legacy_key_replaced">>}

LEMMA RecordKeeps ==
    ASSUME NEW b \in RingBetween, RingInv, Record(b[1], b[2], b[3])
    PROVE  RingInv'
<1> USE DEF RingInv, Record, Step, Note
<1>1. pc \in Published /\ pc' \in Published
    BY DEF RingBetween, Published
<1>2. /\ plan \in Rings /\ Unfinished /\ journal.active = plan.active
      /\ staged[plan.active] = plan /\ ring = plan
    BY <1>1 DEF Progress, TypeOK, Published
<1>3. /\ journal' = [active |-> plan.active, stage |-> b[3]]
      /\ b[3] \in Stages \ {"complete"}
    BY DEF RingBetween, Stages
<1>4. journal' \in Journals
    BY <1>2, <1>3 DEF Journals, Rings
<1>5. TypeOK'
    BY <1>1, <1>2, <1>4 DEF TypeOK, Published
<1>6. Unfinished'
    BY <1>3, <1>4, NoneAssumption DEF Unfinished
<1>7. Covers(plan)
    BY <1>2 DEF Journalled
<1>8. Covers(plan)' /\ Readable'
    BY <1>7, DiskKept DEF Covers
<1>9. HubIsCurrent' /\ Journalled'
    BY <1>1, <1>2, <1>3, <1>8 DEF HubIsCurrent, Journalled, Published
<1>10. /\ pc' \in Committed => pc \in Committed
       /\ pc' \in Replaced => pc \in Replaced
    BY DEF RingBetween, Committed, Replaced
<1>11. Progress'
    <2>1. RowsOf(plan.active)' <=> RowsOf(plan.active)
        BY DEF RowsOf
    <2>2. pc' \in Committed => RowsOf(plan.active)'
        BY <1>10, <2>1 DEF Progress
    <2>3. pc' \in Replaced => legacy' = (plan').active
        BY <1>10 DEF Progress
    <2>4. pc' \notin Unpublished /\ pc' \notin {"prepare", "publish", "done"}
        BY <1>1 DEF Published, Unpublished
    <2>5. Unfinished' /\ (journal').active = (plan').active
          /\ (staged')[(plan').active] = plan' /\ ring' = plan'
        BY <1>2, <1>3, <1>6
    <2> QED BY <1>1, <2>2, <2>3, <2>4, <2>5 DEF Progress
<1>12. Retired'
    BY <1>3 DEF Retired
<1> QED BY <1>5, <1>8, <1>9, <1>11, <1>12

LEMMA PublishRingKeeps == RingInv /\ PublishRing => RingInv'
<1> SUFFICES ASSUME RingInv, PublishRing PROVE RingInv'
    OBVIOUS
<1> USE DEF RingInv, PublishRing, Step
<1>1. /\ plan \in Rings /\ Unfinished /\ journal.active = plan.active
      /\ staged[plan.active] = plan
    BY DEF Progress, TypeOK
<1>2. Covers(plan)
    BY <1>1 DEF Journalled
<1>3. TypeOK'
    BY <1>1 DEF TypeOK
<1>4. Unfinished'
    BY <1>1 DEF Unfinished
<1>5. Readable'
    BY <1>2 DEF Covers, Readable, Decrypts, Suite
<1>6. Covers(plan)'
    BY <1>2 DEF Covers, Rings, Decrypts, Suite
<1>7. HubIsCurrent' /\ Journalled'
    BY <1>1, <1>6 DEF HubIsCurrent, Journalled
<1>8. Progress'
    BY <1>1, <1>4 DEF Progress, Published, Unpublished, Committed, Replaced
<1>9. Retired'
    BY <1>4 DEF Retired, Unfinished
<1> QED BY <1>3, <1>5, <1>7, <1>8, <1>9

(* The transaction leaves every field under the new key.                    *)
LEMMA ReencryptKeeps == RingInv /\ Reencrypt => RingInv'
<1> SUFFICES ASSUME RingInv, Reencrypt PROVE RingInv'
    OBVIOUS
<1> USE DEF RingInv, Reencrypt, Step
<1>1. /\ plan \in Rings /\ Unfinished /\ journal.active = plan.active
      /\ staged[plan.active] = plan /\ ring = plan
    BY DEF Progress, TypeOK, Published
<1> DEFINE field == [versioned |-> TRUE, key |-> plan.active]
<1>2. Encrypt(Suite(legacy, ring)) = field
    BY <1>1, NoneAssumption DEF Encrypt, Suite
<1>3. field \in Fields /\ field # None
    <2>1. field \in Fields
        BY <1>1 DEF Fields, Rings
    <2> HIDE DEF field
    <2> QED BY <2>1, NoneAssumption
<1>4. \A r \in Rows : rows'[r] = IF rows[r] = None THEN None ELSE field
    BY <1>2
<1>5. TypeOK'
    BY <1>1, <1>2, <1>3 DEF TypeOK
<1>6. Unfinished'
    BY <1>1 DEF Unfinished
<1>7. RowsOf(plan.active)'
    BY <1>4 DEF RowsOf
<1>8. plan.active \in plan.keys /\ plan # None
    BY <1>1, NoneAssumption DEF Rings
<1>9. Readable' /\ Covers(plan)'
    <2>1. Decrypts(Suite(legacy, plan), field)
        BY <1>8 DEF Decrypts, Suite
    <2>2. Suite(legacy, ring)' = Suite(legacy, plan) /\ Suite(legacy, plan)' = Suite(legacy, plan)
        BY <1>1 DEF Suite
    <2>3. \A r \in Rows : rows'[r] # None => Decrypts(Suite(legacy, plan), rows'[r])
        BY <1>4, <2>1
    <2>4. ring' # None => (ring').active \in (plan').keys
        BY <1>1, <1>8
    <2> QED BY <1>1, <2>2, <2>3, <2>4 DEF Readable, Covers, Decrypts
<1>10. HubIsCurrent' /\ Journalled'
    BY <1>1, <1>9 DEF HubIsCurrent, Journalled
<1>11. Progress'
    BY <1>1, <1>6, <1>7 DEF Progress, Published, Unpublished, Committed, Replaced
<1>12. Retired'
    BY <1>6 DEF Retired, Unfinished
<1> QED BY <1>5, <1>9, <1>10, <1>11, <1>12

LEMMA ReplaceLegacyKeeps == RingInv /\ ReplaceLegacy => RingInv'
<1> SUFFICES ASSUME RingInv, ReplaceLegacy PROVE RingInv'
    OBVIOUS
<1> USE DEF RingInv, ReplaceLegacy, Step
<1>1. /\ plan \in Rings /\ Unfinished /\ journal.active = plan.active
      /\ staged[plan.active] = plan /\ ring = plan /\ RowsOf(plan.active)
    BY DEF Progress, TypeOK, Published, Committed
<1>2. plan.active \in plan.keys /\ plan.active \in Keys /\ plan # None
    BY <1>1, NoneAssumption DEF Rings
<1>3. TypeOK'
    BY <1>1, <1>2 DEF TypeOK
<1>4. Unfinished'
    BY <1>1 DEF Unfinished
<1>5. Readable' /\ Covers(plan)'
    BY <1>1, <1>2 DEF Readable, Covers, RowsOf, Decrypts, Suite
<1>6. HubIsCurrent' /\ Journalled'
    BY <1>1, <1>5 DEF HubIsCurrent, Journalled
<1>7. RowsOf(plan.active)'
    BY <1>1 DEF RowsOf
<1>8. Progress'
    BY <1>1, <1>4, <1>7 DEF Progress, Published, Unpublished, Committed, Replaced
<1>9. Retired'
    BY <1>4 DEF Retired, Unfinished
<1> QED BY <1>3, <1>5, <1>6, <1>8, <1>9

LEMMA TrimRingKeeps == RingInv /\ TrimRing => RingInv'
<1> SUFFICES ASSUME RingInv, TrimRing PROVE RingInv'
    OBVIOUS
<1> USE DEF RingInv, TrimRing, Step
<1>1. /\ plan \in Rings /\ Unfinished /\ journal.active = plan.active
      /\ staged[plan.active] = plan /\ RowsOf(plan.active) /\ legacy = plan.active
    BY DEF Progress, TypeOK, Published, Committed, Replaced
<1>2. plan.active \in plan.keys /\ plan.active \in Keys
    BY <1>1 DEF Rings
<1>3. ring' \in Rings /\ ring' # None
    BY <1>2, NoneAssumption DEF Rings
<1>4. TypeOK'
    BY <1>1, <1>3 DEF TypeOK
<1>5. Unfinished'
    BY <1>1 DEF Unfinished
<1>6. Readable'
    BY <1>1, <1>3 DEF Readable, RowsOf, Decrypts, Suite
<1>7. Covers(plan)'
    BY <1>1, <1>2, NoneAssumption DEF Covers, RowsOf, Decrypts, Suite
<1>8. HubIsCurrent' /\ Journalled'
    BY <1>1, <1>7 DEF HubIsCurrent, Journalled
<1>9. RowsOf(plan.active)'
    BY <1>1 DEF RowsOf
<1>10. Progress'
    BY <1>1, <1>5, <1>9 DEF Progress, Published, Unpublished, Committed, Replaced
<1>11. Retired'
    BY <1>5 DEF Retired, Unfinished
<1> QED BY <1>4, <1>6, <1>8, <1>10, <1>11

(* The last record: what is left is one key, in every place.                *)
LEMMA CompleteKeeps == RingInv /\ Record("done", "off", "complete") => RingInv'
<1> SUFFICES ASSUME RingInv, Record("done", "off", "complete") PROVE RingInv'
    OBVIOUS
<1> USE DEF RingInv, Record, Step, Note
<1>1. /\ plan \in Rings /\ RowsOf(plan.active) /\ legacy = plan.active
      /\ ring = [active |-> plan.active, keys |-> {plan.active}]
    BY DEF Progress, TypeOK, Committed, Replaced
<1>2. journal' = [active |-> plan.active, stage |-> "complete"] /\ journal' \in Journals
    BY <1>1 DEF Journals, Stages, Rings
<1>3. TypeOK'
    BY <1>2 DEF TypeOK
<1>4. ~Unfinished'
    BY <1>2 DEF Unfinished
<1>5. HubIsCurrent' /\ Readable' /\ Journalled'
    BY <1>4, DiskKept DEF HubIsCurrent, Journalled
<1>6. Progress'
    BY DEF Progress, Published, Unpublished, Committed, Replaced
<1>7. ring # None
    BY <1>1, NoneAssumption DEF Rings
<1>8. Encrypt(Suite(legacy, ring)) = [versioned |-> TRUE, key |-> plan.active]
    BY <1>1, <1>7 DEF Encrypt, Suite
<1>9. Encrypt(Suite(legacy, ring))' = Encrypt(Suite(legacy, ring))
    BY DEF Encrypt, Suite
<1>10. Retired'
    BY <1>1, <1>2, <1>8, <1>9 DEF Retired, RowsOf
<1> QED BY <1>3, <1>5, <1>6, <1>10

----------------------------------------------------------------------------
LEMMA RingInductive == RingInv /\ [Next]_vars => RingInv'
<1> SUFFICES ASSUME RingInv, [Next]_vars PROVE RingInv'
    OBVIOUS
<1>1. CASE HubStarts \/ Killed \/ Rotate \/ Resume
    BY <1>1, HubStartsKeeps, KilledKeeps, RotateKeeps, ResumeKeeps
<1>2. CASE \E r \in Rows : HubWrites(r) \/ HubDeletes(r)
    BY <1>2, HubWritesKeeps, HubDeletesKeeps
<1>3. CASE RotationStep
    <2>1. CASE Record("published", "encrypt", "keyring_published")
        BY <2>1, RecordKeeps DEF RingBetween
    <2>2. CASE Record("committed", "replace", "database_committed")
        BY <2>2, RecordKeeps DEF RingBetween
    <2>3. CASE Record("replaced", "trim", "legacy_key_replaced")
        BY <2>3, RecordKeeps DEF RingBetween
    <2> QED BY <1>3, <2>1, <2>2, <2>3, StageRingKeeps, PreparedKeeps, PublishRingKeeps,
               ReencryptKeeps, ReplaceLegacyKeeps, TrimRingKeeps, CompleteKeeps
            DEF RotationStep
<1>4. CASE UNCHANGED vars
    <2> USE <1>4 DEF vars, disk, process, RingInv
    <2>1. TypeOK' /\ Progress' /\ Retired' /\ HubIsCurrent'
        BY DEF TypeOK, Progress, Retired, HubIsCurrent, Unpublished, Published, Committed,
               Replaced, RowsOf, Unfinished, Covers, Decrypts, Suite, Encrypt
    <2>2. Unfinished' <=> Unfinished
        BY DEF Unfinished
    <2>3. Readable' /\ Journalled'
        BY <2>2, DiskKept DEF Journalled
    <2> QED BY <2>1, <2>3
<1> QED BY <1>1, <1>2, <1>3, <1>4 DEF Next

LEMMA Always == Spec => []RingInv
<1> QED BY InitHolds, RingInductive, PTL DEF Spec

(* Kill everything at any moment: every field of the database can be read   *)
(* with the key files as they are (rotate_key, keyring.py:200-301).         *)
THEOREM NothingLost == Spec => []Readable
<1>1. RingInv => Readable
    BY DEF RingInv
<1> QED BY <1>1, Always, PTL

(* An interrupted rotation can always be resumed, and its transaction never *)
(* meets a field that it cannot read (keyring.py:220-243).                  *)
THEOREM AlwaysResumable == Spec => []Resumable
<1>1. RingInv => Resumable
    BY NoneAssumption DEF RingInv, Journalled, Covers, Resumable
<1> QED BY <1>1, Always, PTL

(* When a rotation is complete, and for as long as no other one begins, the *)
(* old keys are gone from the files and from every field                    *)
(* (keyring.py:297-301).                                                    *)
THEOREM OldKeysRetired == Spec => []Retired
<1>1. RingInv => Retired
    BY DEF RingInv
<1> QED BY <1>1, Always, PTL

----------------------------------------------------------------------------
(***************************************************************************)
(* What a read of the Hub's database decides was granted when it ended:    *)
(* proofs about StoreReads, for any number of readers, passes and writes.  *)
(***************************************************************************)

----------------------------------------------------------------------------
(* What a pass knows on its way, and what the fence of the last one keeps.   *)
ReadsBetween == {"noted", "begun", "decided", "checked"}
Looked  == {"begun", "decided", "checked"}

(* The version that a reader noted is not ahead, and a snapshot taken since  *)
(* is what is committed as long as the version is the same.                  *)
Snapshots ==
    \A r \in Readers :
        /\ read[r].at \in Looked => read[r].before <= version
        /\ (read[r].at = "decided" /\ read[r].before = version) => read[r].seen = authority
        /\ (read[r].at = "checked" /\ read[r].before = read[r].after) => read[r].current

(* _writer_lock has one holder.                                              *)
Exclusive ==
    /\ writing # "idle" => fenced = {}
    /\ \A r, s \in fenced : r = s

(* The last pass is fenced, and only other processes commit then.            *)
LastPass ==
    \A r \in Readers : (read[r].at \in ReadsBetween /\ read[r].pass = Passes) =>
        /\ r \in fenced
        /\ read[r].revision = revision
        /\ (read[r].at \in {"begun", "decided"} /\ ~outside[r]) => read[r].before = version
        /\ (read[r].at = "checked" /\ ~outside[r]) => read[r].before = read[r].after

(* A read that goes on has no outcome yet.                                   *)
Unsettled ==
    \A r \in Readers : read[r].at \notin {"away", "audit"} => read[r].outcome = "none"

ReadsInv == ReadsTypeOK /\ Snapshots /\ Exclusive /\ LastPass /\ Unsettled /\ ReadsAreSound

(* What the steps between the steps of readers leave of a pass: the thread   *)
(* that writes cannot commit while a reader has the fence.                   *)
LEMMA DatabaseMoves ==
    ASSUME ReadsInv, UNCHANGED <<fenced, read>>,
           authority' \in Nat, version' \in Nat, revision' \in Nat, writing' \in Writings,
           outside' \in [Readers -> BOOLEAN],
           (version' = version /\ authority' = authority) \/ version' = version + 1,
           \A r \in Readers : outside[r] => outside'[r],
           fenced # {} => /\ writing' = "idle" /\ revision' = revision
                          /\ (version' = version \/ \A r \in Readers : outside'[r])
    PROVE  ReadsInv'
<1> USE DEF ReadsInv, ReadsTypeOK
<1>1. \A r \in Readers : read[r] \in ReadRec
    OBVIOUS
<1>2. ReadsTypeOK'
    OBVIOUS
<1>3. Snapshots'
    BY <1>1 DEF Snapshots, Looked, ReadRec
<1>4. Exclusive'
    BY DEF Exclusive
<1>5. LastPass'
    BY <1>1 DEF LastPass, ReadsBetween, ReadRec
<1>6. ReadsAreSound'
    BY DEF ReadsAreSound, DecisionIsCurrent, RefusedFromOutside
<1>7. Unsettled'
    BY DEF Unsettled
<1> QED BY <1>2, <1>3, <1>4, <1>5, <1>6, <1>7

(* A step of one reader, whose record becomes given.                         *)
Around(r) ==
    /\ UNCHANGED <<authority, revision, writing>>
    /\ version' \in Nat /\ version' >= version
    /\ fenced' \subseteq Readers /\ outside' \in [Readers -> BOOLEAN]
    /\ \A s \in Readers \ {r} : outside'[s] = outside[s] /\ (s \in fenced <=> s \in fenced')
    /\ version' # version => fenced = {} /\ fenced' = {}
    /\ r \in fenced' => r \in fenced \/ Unlocked

Fits(r, given) ==
    /\ given.at \in Looked => given.before <= version'
    /\ (given.at = "decided" /\ given.before = version') => given.seen = authority
    /\ (given.at = "checked" /\ given.before = given.after) => given.current
    /\ (given.at \in ReadsBetween /\ given.pass = Passes) =>
            /\ r \in fenced'
            /\ given.revision = revision
            /\ (given.at \in {"begun", "decided"} /\ ~outside'[r]) => given.before = version'
            /\ (given.at = "checked" /\ ~outside'[r]) => given.before = given.after
    /\ given.at \notin {"away", "audit"} => given.outcome = "none"
    /\ given.outcome = "value" => given.current
    /\ given.outcome = "refused" => outside'[r]

LEMMA ReaderMoves ==
    ASSUME ReadsInv, NEW r \in Readers, NEW given \in ReadRec,
           read' = [read EXCEPT ![r] = given], Around(r), Fits(r, given)
    PROVE  ReadsInv'
<1> USE DEF ReadsInv, ReadsTypeOK, Around, Fits
<1>1. /\ \A s \in Readers : read[s] \in ReadRec
      /\ read'[r] = given /\ \A s \in Readers \ {r} : read'[s] = read[s]
    OBVIOUS
<1>2. ReadsTypeOK'
    OBVIOUS
<1>3. Snapshots'
    BY <1>1 DEF Snapshots, Looked, ReadRec
<1>4. Exclusive'
    BY DEF Exclusive, Unlocked
<1>5. LastPass'
    BY <1>1 DEF LastPass, ReadsBetween, ReadRec
<1>6. ReadsAreSound'
    BY <1>1 DEF ReadsAreSound, DecisionIsCurrent, RefusedFromOutside
<1>7. Unsettled'
    BY <1>1 DEF Unsettled
<1> QED BY <1>2, <1>3, <1>4, <1>5, <1>6, <1>7

----------------------------------------------------------------------------
LEMMA WriterKeeps ==
    ReadsInv /\ (LockWriter \/ WriteRow \/ Commit \/ Rollback \/ CommitOutside) => ReadsInv'
<1> SUFFICES ASSUME ReadsInv
             PROVE  LockWriter \/ WriteRow \/ Commit \/ Rollback \/ CommitOutside => ReadsInv'
    OBVIOUS
<1>1. /\ ReadsTypeOK /\ (fenced # {} => writing = "idle")
    BY DEF ReadsInv, Exclusive
<1>2. CASE LockWriter
    BY <1>1, <1>2, DatabaseMoves DEF LockWriter, Unlocked, database, ReadsTypeOK, Writings
<1>3. CASE WriteRow
    BY <1>1, <1>3, DatabaseMoves DEF WriteRow, database, ReadsTypeOK, Writings
<1>4. CASE Commit
    BY <1>1, <1>4, DatabaseMoves DEF Commit, Commits, ReadsTypeOK, Writings
<1>5. CASE Rollback
    BY <1>1, <1>5, DatabaseMoves DEF Rollback, database, ReadsTypeOK, Writings
<1>6. CASE CommitOutside
    BY <1>1, <1>6, DatabaseMoves DEF CommitOutside, Commits, writer, ReadsTypeOK
<1> QED BY <1>2, <1>3, <1>4, <1>5, <1>6


----------------------------------------------------------------------------
(* What the invariant says of the reader that takes a step.                  *)
LEMMA KnownOf ==
    ASSUME ReadsInv, NEW r \in Readers
    PROVE  /\ read[r] \in ReadRec /\ read \in [Readers -> ReadRec]
           /\ {authority, version, revision} \subseteq Nat
           /\ outside \in [Readers -> BOOLEAN] /\ fenced \subseteq Readers
           /\ read[r].at \in Looked => read[r].before <= version
           /\ (read[r].at = "decided" /\ read[r].before = version) => read[r].seen = authority
           /\ (read[r].at = "checked" /\ read[r].before = read[r].after) => read[r].current
           /\ (read[r].at \in ReadsBetween /\ read[r].pass = Passes) =>
                /\ r \in fenced
                /\ read[r].revision = revision
                /\ (read[r].at \in {"begun", "decided"} /\ ~outside[r]) => read[r].before = version
                /\ (read[r].at = "checked" /\ ~outside[r]) => read[r].before = read[r].after
           /\ read[r].at \notin {"away", "audit"} => read[r].outcome = "none"
           /\ read[r].outcome = "value" => read[r].current
           /\ read[r].outcome = "refused" => outside[r]
    BY DEF ReadsInv, ReadsTypeOK, Snapshots, LastPass, Unsettled, ReadsAreSound, DecisionIsCurrent,
           RefusedFromOutside

LEMMA NoReadIsRead ==
    /\ NoRead \in ReadRec
    /\ NoRead.at = "away" /\ NoRead.outcome = "none"
BY PassesAssumption DEF NoRead, ReadRec, Places

LEMMA StartReadKeeps == ASSUME NEW r \in Readers PROVE ReadsInv /\ StartRead(r) => ReadsInv'
<1> SUFFICES ASSUME ReadsInv, StartRead(r) PROVE ReadsInv'
    OBVIOUS
<1> DEFINE given == [NoRead EXCEPT !.at = "enter"]
<1>1. /\ read[r] \in ReadRec /\ NoRead \in ReadRec
      /\ version \in Nat /\ revision \in Nat /\ authority \in Nat
    BY KnownOf, NoReadIsRead
<1>2. given \in ReadRec
    BY <1>1, PassesAssumption DEF ReadRec, Places, StartRead
<1>3. /\ given.at = "enter"
      /\ given.pass = NoRead.pass /\ given.revision = NoRead.revision
      /\ given.before = NoRead.before
      /\ given.seen = NoRead.seen /\ given.after = NoRead.after
      /\ given.audits = NoRead.audits
      /\ given.current = NoRead.current /\ given.outcome = NoRead.outcome
    BY <1>1 DEF ReadRec
<1>4. read' = [read EXCEPT ![r] = given]
    BY KnownOf DEF StartRead
<1> HIDE DEF given
<1>5. Around(r)
    BY <1>1, KnownOf DEF Around, StartRead, NoRead, database, writer, At
<1>6. Fits(r, given)
    BY <1>1, <1>3, KnownOf DEF Fits, StartRead, NoRead, database, writer, At, Looked, ReadsBetween
<1> QED BY <1>2, <1>4, <1>5, <1>6, ReaderMoves

LEMMA EnterPassKeeps == ASSUME NEW r \in Readers PROVE ReadsInv /\ EnterPass(r) => ReadsInv'
<1> SUFFICES ASSUME ReadsInv, EnterPass(r) PROVE ReadsInv'
    OBVIOUS
<1> DEFINE given == [read[r] EXCEPT !.at = "noted", !.revision = revision, !.audits = FALSE]
<1>1. /\ read[r] \in ReadRec /\ NoRead \in ReadRec
      /\ version \in Nat /\ revision \in Nat /\ authority \in Nat
    BY KnownOf, NoReadIsRead
<1>2. given \in ReadRec
    BY <1>1, PassesAssumption DEF ReadRec, Places, EnterPass
<1>3. /\ given.at = "noted" /\ given.revision = revision /\ given.audits = FALSE
      /\ given.pass = read[r].pass /\ given.before = read[r].before
      /\ given.seen = read[r].seen
      /\ given.after = read[r].after /\ given.current = read[r].current
      /\ given.outcome = read[r].outcome
    BY <1>1 DEF ReadRec
<1>4. read' = [read EXCEPT ![r] = given]
    BY KnownOf DEF EnterPass
<1> HIDE DEF given
<1>5. Around(r)
    <2>1. fenced' \in {fenced, fenced \cup {r}} /\ (fenced' # fenced => Unlocked)
        BY DEF EnterPass, Fence
    <2>2. outside' \in [Readers -> BOOLEAN] /\ \A s \in Readers \ {r} : outside'[s] = outside[s]
        BY KnownOf DEF EnterPass
    <2>3. UNCHANGED <<authority, version, revision, writing>>
        BY DEF EnterPass, database, writer
    <2> QED BY <1>1, <2>1, <2>2, <2>3, KnownOf DEF Around
<1>6. Fits(r, given)
    BY <1>1, <1>3, KnownOf DEF Fits, EnterPass, Fence, Unlocked, database, writer, At, Looked, ReadsBetween
<1> QED BY <1>2, <1>4, <1>5, <1>6, ReaderMoves

LEMMA NoteVersionKeeps == ASSUME NEW r \in Readers PROVE ReadsInv /\ NoteVersion(r) => ReadsInv'
<1> SUFFICES ASSUME ReadsInv, NoteVersion(r) PROVE ReadsInv'
    OBVIOUS
<1> DEFINE given == [read[r] EXCEPT !.at = "begun", !.before = version]
<1>1. /\ read[r] \in ReadRec /\ NoRead \in ReadRec
      /\ version \in Nat /\ revision \in Nat /\ authority \in Nat
    BY KnownOf, NoReadIsRead
<1>2. given \in ReadRec
    BY <1>1, PassesAssumption DEF ReadRec, Places, NoteVersion
<1>3. /\ given.at = "begun" /\ given.before = version
      /\ given.pass = read[r].pass /\ given.revision = read[r].revision
      /\ given.seen = read[r].seen
      /\ given.after = read[r].after /\ given.audits = read[r].audits
      /\ given.current = read[r].current
      /\ given.outcome = read[r].outcome
    BY <1>1 DEF ReadRec
<1>4. read' = [read EXCEPT ![r] = given]
    BY KnownOf DEF NoteVersion
<1> HIDE DEF given
<1>5. Around(r)
    BY <1>1, KnownOf DEF Around, NoteVersion, database, writer, At
<1>6. Fits(r, given)
    BY <1>1, <1>3, KnownOf DEF Fits, NoteVersion, database, writer, At, Looked, ReadsBetween
<1> QED BY <1>2, <1>4, <1>5, <1>6, ReaderMoves

LEMMA LookAgainKeeps == ASSUME NEW r \in Readers PROVE ReadsInv /\ LookAgain(r) => ReadsInv'
<1> SUFFICES ASSUME ReadsInv, LookAgain(r) PROVE ReadsInv'
    OBVIOUS
<1> DEFINE given == [read[r] EXCEPT !.at = "checked", !.after = version,
                          !.current = (read[r].seen = authority)]
<1>1. /\ read[r] \in ReadRec /\ NoRead \in ReadRec
      /\ version \in Nat /\ revision \in Nat /\ authority \in Nat
    BY KnownOf, NoReadIsRead
<1>2. given \in ReadRec
    BY <1>1, PassesAssumption DEF ReadRec, Places, LookAgain
<1>3. /\ given.at = "checked" /\ given.after = version
      /\ given.current = (read[r].seen = authority)
      /\ given.pass = read[r].pass /\ given.revision = read[r].revision
      /\ given.before = read[r].before
      /\ given.seen = read[r].seen /\ given.audits = read[r].audits
      /\ given.outcome = read[r].outcome
    BY <1>1 DEF ReadRec
<1>4. read' = [read EXCEPT ![r] = given]
    BY KnownOf DEF LookAgain
<1> HIDE DEF given
<1>5. Around(r)
    BY <1>1, KnownOf DEF Around, LookAgain, database, writer, At
<1>6. Fits(r, given)
    <2>1. UNCHANGED <<authority, version, revision, outside, fenced>>
        BY DEF LookAgain, database, writer
    <2>2. read[r].at = "decided"
        BY DEF LookAgain, At
    <2>3. CASE read[r].seen = authority
        <3>1. given.current = TRUE
            BY <1>3, <2>3
        <3> QED BY <1>1, <1>3, <2>1, <2>2, <3>1, KnownOf DEF Fits, Looked, ReadsBetween
    <2>4. CASE read[r].seen # authority
        <3>1. read[r].before # version
            BY <2>2, <2>4, KnownOf
        <3> QED BY <1>1, <1>3, <2>1, <2>2, <3>1, KnownOf DEF Fits, Looked, ReadsBetween
    <2> QED BY <2>3, <2>4
<1> QED BY <1>2, <1>4, <1>5, <1>6, ReaderMoves

LEMMA RetryKeeps == ASSUME NEW r \in Readers PROVE ReadsInv /\ Retry(r) => ReadsInv'
<1> SUFFICES ASSUME ReadsInv, Retry(r) PROVE ReadsInv'
    OBVIOUS
<1> DEFINE given == [read[r] EXCEPT !.at = "enter", !.pass = read[r].pass + 1]
<1>1. /\ read[r] \in ReadRec /\ NoRead \in ReadRec
      /\ version \in Nat /\ revision \in Nat /\ authority \in Nat
    BY KnownOf, NoReadIsRead
<1>2. given \in ReadRec
    <2>1. read[r].pass + 1 \in 1..Passes
        BY <1>1, PassesAssumption DEF ReadRec, Retry
    <2> QED BY <1>1, <2>1 DEF ReadRec, Places
<1>3. /\ given.at = "enter" /\ given.pass = read[r].pass + 1
      /\ given.revision = read[r].revision /\ given.before = read[r].before
      /\ given.seen = read[r].seen
      /\ given.after = read[r].after /\ given.audits = read[r].audits
      /\ given.current = read[r].current
      /\ given.outcome = read[r].outcome
    BY <1>1 DEF ReadRec
<1>4. read' = [read EXCEPT ![r] = given]
    BY KnownOf DEF Retry
<1> HIDE DEF given
<1>5. Around(r)
    BY <1>1, KnownOf DEF Around, Retry, database, writer, At
<1>6. Fits(r, given)
    BY <1>1, <1>3, KnownOf DEF Fits, Retry, database, writer, At, Looked, ReadsBetween
<1> QED BY <1>2, <1>4, <1>5, <1>6, ReaderMoves

LEMMA WriteAuditsKeeps == ASSUME NEW r \in Readers PROVE ReadsInv /\ WriteAudits(r) => ReadsInv'
<1> SUFFICES ASSUME ReadsInv, WriteAudits(r) PROVE ReadsInv'
    OBVIOUS
<1> DEFINE given == [read[r] EXCEPT !.at = "away"]
<1>1. /\ read[r] \in ReadRec /\ NoRead \in ReadRec
      /\ version \in Nat /\ revision \in Nat /\ authority \in Nat
    BY KnownOf, NoReadIsRead
<1>2. given \in ReadRec
    BY <1>1, PassesAssumption DEF ReadRec, Places, WriteAudits
<1>3. /\ given.at = "away"
      /\ given.pass = read[r].pass /\ given.revision = read[r].revision
      /\ given.before = read[r].before
      /\ given.seen = read[r].seen /\ given.after = read[r].after
      /\ given.audits = read[r].audits
      /\ given.current = read[r].current /\ given.outcome = read[r].outcome
    BY <1>1 DEF ReadRec
<1>4. read' = [read EXCEPT ![r] = given]
    BY KnownOf DEF WriteAudits
<1> HIDE DEF given
<1>5. Around(r)
    BY <1>1, KnownOf DEF Around, WriteAudits, Commits, Unlocked, writer, At
<1>6. Fits(r, given)
    BY <1>1, <1>3, KnownOf DEF Fits, WriteAudits, Commits, Unlocked, writer, At, Looked, ReadsBetween
<1> QED BY <1>2, <1>4, <1>5, <1>6, ReaderMoves

LEMMA DecideKeeps == ASSUME NEW r \in Readers PROVE ReadsInv /\ Decide(r) => ReadsInv'
<1> SUFFICES ASSUME ReadsInv, Decide(r) PROVE ReadsInv'
    OBVIOUS
<1>0. PICK audits \in BOOLEAN : read' =
        [read EXCEPT ![r].at = "decided", ![r].seen = authority, ![r].audits = audits]
    BY DEF Decide
<1> DEFINE given == [read[r] EXCEPT !.at = "decided", !.seen = authority, !.audits = audits]
<1>1. read[r] \in ReadRec /\ version \in Nat /\ authority \in Nat
    BY KnownOf
<1>2. given \in ReadRec
    BY <1>1 DEF ReadRec, Places
<1>3. /\ given.at = "decided" /\ given.seen = authority
      /\ given.pass = read[r].pass /\ given.revision = read[r].revision
      /\ given.before = read[r].before /\ given.outcome = read[r].outcome
    BY <1>1 DEF ReadRec
<1>4. read' = [read EXCEPT ![r] = given]
    BY <1>0, KnownOf
<1> HIDE DEF given
<1>5. Around(r)
    BY <1>1, KnownOf DEF Around, Decide, database, writer, At
<1>6. Fits(r, given)
    BY <1>1, <1>3, KnownOf DEF Fits, Decide, database, writer, At, Looked, ReadsBetween
<1> QED BY <1>2, <1>4, <1>5, <1>6, ReaderMoves

(* Every way out of a read.                                                  *)
LEMMA LeavesKeeps ==
    ASSUME ReadsInv, NEW r \in Readers, NEW o \in {"value", "error", "refused"},
           NEW a \in BOOLEAN, Leaves(r, o, a),
           UNCHANGED <<authority, version, revision, writing, outside>>,
           o = "value" => read[r].current, o = "refused" => outside[r]
    PROVE  ReadsInv'
<1> DEFINE place == IF a THEN "audit" ELSE "away"
           given == [NoRead EXCEPT !.at = place, !.outcome = o, !.current = read[r].current]
<1>1. /\ read[r] \in ReadRec /\ NoRead \in ReadRec
      /\ version \in Nat /\ authority \in Nat
    BY KnownOf, NoReadIsRead
<1>2. place \in {"audit", "away"}
    OBVIOUS
<1>3. read' = [read EXCEPT ![r] = given]
    BY DEF Leaves
<1> HIDE DEF place
<1>4. given \in ReadRec
    BY <1>1, <1>2 DEF ReadRec, Places
<1>5. given.at = place /\ given.outcome = o /\ given.current = read[r].current
    BY <1>1 DEF ReadRec
<1> HIDE DEF given
<1>6. Around(r)
    BY <1>1, KnownOf DEF Around, Leaves
<1>7. Fits(r, given)
    BY <1>2, <1>5 DEF Fits, Looked, ReadsBetween
<1> QED BY <1>3, <1>4, <1>6, <1>7, ReaderMoves

LEMMA EndsKeep ==
    ASSUME NEW r \in Readers PROVE ReadsInv /\ (Raise(r) \/ Accept(r) \/ Refuse(r)) => ReadsInv'
<1> SUFFICES ASSUME ReadsInv PROVE Raise(r) \/ Accept(r) \/ Refuse(r) => ReadsInv'
    OBVIOUS
<1>1. read[r].audits \in BOOLEAN
    BY KnownOf DEF ReadRec
<1>2. CASE Raise(r)
    <2>1. PICK a \in BOOLEAN : Leaves(r, "error", a)
        BY <1>2 DEF Raise
    <2> QED BY <1>2, <2>1, LeavesKeeps DEF Raise, database, writer
<1>3. CASE Accept(r)
    <2>1. read[r].current
        BY <1>3, KnownOf DEF Accept, At, Valid
    <2> QED BY <1>1, <1>3, <2>1, LeavesKeeps DEF Accept, database, writer
<1>4. CASE Refuse(r)
    <2>1. outside[r]
        BY <1>4, KnownOf DEF Refuse, At, Valid, ReadsBetween
    <2> QED BY <1>1, <1>4, <2>1, LeavesKeeps DEF Refuse, database, writer
<1> QED BY <1>2, <1>3, <1>4

----------------------------------------------------------------------------
LEMMA Initially == ReadsInit => ReadsInv
<1> SUFFICES ASSUME ReadsInit PROVE ReadsInv
    OBVIOUS
<1>1. \A r \in Readers : read[r] = NoRead
    BY DEF ReadsInit
<1>2. ReadsTypeOK
    BY NoReadIsRead DEF ReadsInit, ReadsTypeOK, Writings
<1>3. Snapshots /\ LastPass /\ Unsettled /\ ReadsAreSound
    BY <1>1, NoReadIsRead
    DEF Snapshots, LastPass, Unsettled, Looked, ReadsBetween, ReadsAreSound, DecisionIsCurrent,
        RefusedFromOutside
<1>4. Exclusive
    BY DEF Exclusive, ReadsInit
<1> QED BY <1>2, <1>3, <1>4 DEF ReadsInv

LEMMA ReadsInductive == ReadsInv /\ [ReadsNext]_readsVars => ReadsInv'
<1> SUFFICES ASSUME ReadsInv, [ReadsNext]_readsVars PROVE ReadsInv'
    OBVIOUS
<1>1. CASE LockWriter \/ WriteRow \/ Commit \/ Rollback \/ CommitOutside
    BY <1>1, WriterKeeps
<1>2. ASSUME NEW r \in Readers,
             \/ StartRead(r) \/ EnterPass(r) \/ NoteVersion(r) \/ Decide(r) \/ Raise(r)
             \/ LookAgain(r) \/ Accept(r) \/ Retry(r) \/ Refuse(r) \/ WriteAudits(r)
      PROVE  ReadsInv'
    BY <1>2, StartReadKeeps, EnterPassKeeps, NoteVersionKeeps, DecideKeeps, EndsKeep,
       LookAgainKeeps, RetryKeeps, WriteAuditsKeeps
<1>3. CASE UNCHANGED readsVars
    BY <1>3, DatabaseMoves DEF readsVars, ReadsInv, ReadsTypeOK, Exclusive
<1> QED BY <1>1, <1>2, <1>3 DEF ReadsNext

(* In every behaviour the state has its type (store.py:127-180).             *)
THEOREM ReadsTypeCorrect == ReadsSpec => []ReadsTypeOK
<1>1. ReadsInv => ReadsTypeOK
    BY DEF ReadsInv
<1> QED BY Initially, ReadsInductive, <1>1, PTL DEF ReadsSpec

(* A read returns only what is still granted when it has decided, although   *)
(* sessions, roles and projects change under it, and is refused only because *)
(* of other processes, however much this one writes (store.py:143-160).      *)
THEOREM ReadsSound == ReadsSpec => []ReadsAreSound
<1>1. ReadsInv => ReadsAreSound
    BY DEF ReadsInv
<1> QED BY Initially, ReadsInductive, <1>1, PTL DEF ReadsSpec

----------------------------------------------------------------------------
(* Uploads keep what they acknowledge, are published at most once and stay  *)
(* within their reservation, for every set of uploads, every size and every *)
(* capacity.                                                                *)
(*                                                                          *)
(* The invariant has four parts.  Journal says what the row of an upload    *)
(* means for its files, whatever is under way: it is what an interruption   *)
(* leaves behind, so it must hold at every step and not only at the end of  *)
(* an operation.  UnderWay says what the operation under way relies on at each  *)
(* of its steps; it is lost with the operation.  Covered is the             *)
(* reservation, and UploadTypes the types.                                  *)
(*                                                                          *)
(* The last part is a sum over the uploads.  A fold over a finite set is a  *)
(* recursive function, and the two facts needed of it (that it exists, and  *)
(* a bound) are proved by a least counterexample.                           *)

USE UploadsAssumption

(* Types.                                                                   *)
UploadTypes ==
    /\ row \in [Uploads -> Row \cup {Nothing}]
    /\ spool \in [Uploads -> Seq(Pieces) \cup {Nothing}]
    /\ synced \in [Uploads -> 0..Size]
    /\ copied \in [Uploads -> {0, Size}]
    /\ dest \in [Paths -> Uploads \cup {"other", Nothing}]
    /\ op \in Op \cup {Nothing}
    /\ acked \in [Uploads -> Seq(Pieces)]
    /\ published \in [Uploads -> {0, 1}]

(* The pieces acknowledged are in the spool, in their place, and synced.    *)
Stored(u) ==
    /\ spool[u] # Nothing
    /\ Len(spool[u]) >= row[u].received /\ synced[u] >= row[u].received
    /\ \A i \in 1..row[u].received : spool[u][i] = acked[u][i]

(* An upload as the journal has it, whatever is under way.                  *)
Receives(u) == row[u] # Nothing /\ row[u].state = "receiving" /\ row[u].age = 0

Journal(u) ==
    /\ spool[u] # Nothing => Len(spool[u]) <= Size /\ synced[u] <= Len(spool[u])
    /\ spool[u] = Nothing => synced[u] = 0
    /\ Receives(u) => /\ row[u].named
                      /\ row[u].received = Len(acked[u])
                      /\ row[u].known => Stored(u)
                      /\ ~row[u].known => row[u].received = 0
    /\ row[u] # Nothing => /\ Kept(row[u]) => acked[u] = [i \in 1..Size |-> "right"]
                           /\ row[u].state = "complete" => published[u] = 1
                           /\ row[u].state \notin {"publishing", "complete"} => published[u] = 0
                           /\ row[u].state \notin {"staging", "publishing"} => copied[u] = 0
    /\ published[u] = 1 => acked[u] = [i \in 1..Size |-> "right"]
    /\ row[u] = Nothing => copied[u] = 0
    /\ (row[u] = Nothing \/ ~row[u].named) => spool[u] = Nothing

(* What the operation under way relies on, at each of its steps.            *)
UnderWay ==
    op # Nothing =>
        LET u == op.u  r == row[op.u] IN
        /\ r # Nothing
        /\ r.named
        /\ op.pc \in Work => Receives(u)
        /\ op.pc = "open" => /\ op.kind \in {"status", "chunk", "finish"}
                             /\ op.kind = "finish" => r.received = Size
                             /\ op.known => Stored(u)
                             /\ r.known => op.known
                             /\ op.kind = "chunk" => op.piece \in Pieces /\ op.at < Size
        /\ op.pc \in Work \ {"open"} => op.kind = (IF op.pc \in {"sync", "acknowledge"} THEN "chunk" ELSE op.pc)
        /\ op.pc \in Work \ {"open"} => Stored(u)
        /\ op.pc \in {"status", "chunk", "finish"} => Len(spool[u]) = r.received
        /\ op.pc = "chunk" => op.piece \in Pieces /\ op.at < Size
        /\ op.pc \in {"sync", "acknowledge"} =>
             /\ op.piece \in Pieces /\ op.at = r.received /\ op.at < Size
             /\ Len(spool[u]) = r.received + 1 /\ spool[u][r.received + 1] = op.piece
        /\ op.pc = "acknowledge" => synced[u] = r.received + 1
        /\ op.pc = "finish" => r.received = Size
        /\ op.pc = "copy" => r.state = "staging" /\ copied[u] = 0
        /\ op.pc = "intend" => r.state = "staging" /\ copied[u] = Size
        /\ op.pc = "publish" => r.state = "publishing" /\ copied[u] = Size /\ published[u] = 0
        /\ op.pc = "complete" => r.state = "publishing" /\ copied[u] = 0 /\ published[u] = 1
        /\ op.pc \in {"discard", "release"} => r.age > 0 \/ r.state = "complete"
        /\ op.pc = "release" => spool[u] = Nothing

(* What was reserved covers every upload that may have files.               *)
Counted == {u \in Uploads : Counts(u)}
Covered == 2 * Size * Cardinality(Counted) <= Capacity

UploadInv == UploadTypes /\ (\A u \in Uploads : Journal(u)) /\ UnderWay /\ Covered

----------------------------------------------------------------------------
(* A prefix of a sequence.                                                  *)
LEMMA PrefixOf ==
    ASSUME NEW s \in Seq(Pieces), NEW n \in Nat, n <= Len(s)
    PROVE  /\ SubSeq(s, 1, n) \in Seq(Pieces) /\ Len(SubSeq(s, 1, n)) = n
           /\ \A i \in 1..n : SubSeq(s, 1, n)[i] = s[i]
BY SubSeqProperties

(* Rows and operations that exist.                                          *)
LEMMA Exists ==
    ASSUME UploadTypes, NEW u \in Uploads
    PROVE  /\ row[u] # Nothing => row[u] \in Row
           /\ spool[u] # Nothing => spool[u] \in Seq(Pieces) /\ Len(spool[u]) \in Nat
           /\ acked[u] \in Seq(Pieces) /\ Len(acked[u]) \in Nat
           /\ synced[u] \in 0..Size /\ copied[u] \in {0, Size} /\ published[u] \in {0, 1}
           /\ op # Nothing => op \in Op /\ op.u \in Uploads
BY DEF UploadTypes, Op

(* What a step leaves of an upload.                                         *)
Untouched(v) ==
    /\ row'[v] = row[v] /\ spool'[v] = spool[v] /\ synced'[v] = synced[v]
    /\ copied'[v] = copied[v] /\ acked'[v] = acked[v] /\ published'[v] = published[v]

LEMMA JournalUntouched ==
    ASSUME NEW v, Journal(v), Untouched(v)
    PROVE  Journal(v)'
BY DEF Journal, Untouched, Receives, Stored, Kept

LEMMA CoveredKept ==
    ASSUME Covered, Counted' \subseteq Counted
    PROVE  Covered'
<1>1. IsFiniteSet(Counted)
    BY FS_Subset DEF UploadsAssumption, Counted
<1>2. /\ Cardinality(Counted') <= Cardinality(Counted)
      /\ Cardinality(Counted) \in Nat /\ Cardinality(Counted') \in Nat
    BY <1>1, FS_Subset, FS_CardinalityType
<1>3. \A m, n, s \in Nat : m <= n => 2 * s * m <= 2 * s * n
    OBVIOUS
<1> QED BY <1>2, <1>3 DEF Covered, UploadsAssumption

(* An operation starts, or goes on without a change to any upload.          *)
LEMMA StartKeeps ==
    ASSUME UploadInv, UNCHANGED <<row, spool, synced, copied, acked, published>>,
           op' \in Op \cup {Nothing}, dest' = dest, UnderWay'
    PROVE  UploadInv'
<1>1. UploadTypes'
    BY DEF UploadInv, UploadTypes
<1>2. \A v \in Uploads : Journal(v)'
    BY JournalUntouched DEF UploadInv, Untouched
<1>3. Covered'
    BY CoveredKept DEF UploadInv, Counted, Counts
<1> QED BY <1>1, <1>2, <1>3 DEF UploadInv

----------------------------------------------------------------------------
(* A step that concerns one upload keeps the invariant if it keeps the      *)
(* part of that upload and of the operation under way.                      *)
LEMMA OneUpload ==
    ASSUME UploadInv, NEW u \in Uploads,
           \A v \in Uploads : v # u => Untouched(v),
           UploadTypes', Journal(u)', UnderWay', Counts(u)' => Counts(u)
    PROVE  UploadInv'
<1>1. \A v \in Uploads : Journal(v)'
    BY JournalUntouched DEF UploadInv
<1>2. \A v \in Uploads : Counts(v)' => Counts(v)
    BY DEF Untouched, Counts
<1>3. Covered'
    BY <1>2, CoveredKept DEF UploadInv, Counted
<1> QED BY <1>1, <1>3 DEF UploadInv

(* The operation under way goes on to its next step.                        *)
LEMMA GoesOn ==
    ASSUME UploadTypes, op # Nothing,
           NEW to \in Work \cup {"copy", "intend", "publish", "complete", "discard", "release"},
           Goes(to)
    PROVE  /\ op' \in Op /\ op' # Nothing /\ op'.u = op.u /\ op'.pc = to /\ op'.kind = op.kind
           /\ op'.piece = op.piece /\ op'.at = op.at /\ op'.known = op.known
<1>1. op \in Op
    BY DEF UploadTypes
<1>2. op' = [kind |-> op.kind, u |-> op.u, piece |-> op.piece, at |-> op.at,
             known |-> op.known, pc |-> to]
    BY <1>1 DEF Goes, Op
<1> HIDE DEF Goes
<1>3. op' \in Op
    BY <1>1, <1>2 DEF Op
<1>4. op' # Nothing
    BY <1>3 DEF UploadsAssumption
<1> QED BY <1>2, <1>3, <1>4

(* The journal records a new row of the upload of the operation.            *)
LEMMA CommitHolds ==
    ASSUME UploadTypes, op # Nothing, NEW r \in Row, CommitRow(r)
    PROVE  /\ row' \in [Uploads -> Row \cup {Nothing}] /\ row'[op.u] = r /\ r # Nothing
           /\ \A v \in Uploads : v # op.u => row'[v] = row[v]
<1>1. op.u \in Uploads
    BY DEF UploadTypes, Op
<1> QED BY <1>1 DEF UploadTypes, CommitRow, UploadsAssumption


(* What each commit changes in a row, and what it leaves.                    *)
LEMMA Known ==
    ASSUME NEW r \in Row
    PROVE  LET w == [r EXCEPT !.known = TRUE] IN
           /\ w \in Row /\ w.known /\ w.state = r.state /\ w.received = r.received
           /\ w.named = r.named /\ w.age = r.age /\ w.path = r.path
BY DEF Row

LEMMA Moved ==
    ASSUME NEW r \in Row, NEW s \in {"receiving", "failed", "staging", "publishing", "complete"}
    PROVE  LET w == [r EXCEPT !.state = s] IN
           /\ w \in Row /\ w.known = r.known /\ w.state = s /\ w.received = r.received
           /\ w.named = r.named /\ w.age = r.age /\ w.path = r.path
BY DEF Row

LEMMA MovedKnown ==
    ASSUME NEW r \in Row, NEW s \in {"receiving", "failed", "staging", "publishing", "complete"}
    PROVE  LET w == [r EXCEPT !.state = s, !.known = TRUE] IN
           /\ w \in Row /\ w.known /\ w.state = s /\ w.received = r.received
           /\ w.named = r.named /\ w.age = r.age /\ w.path = r.path
BY DEF Row

LEMMA Received ==
    ASSUME NEW r \in Row, NEW n \in 0..Size
    PROVE  LET w == [r EXCEPT !.known = TRUE, !.received = n] IN
           /\ w \in Row /\ w.known /\ w.state = r.state /\ w.received = n
           /\ w.named = r.named /\ w.age = r.age /\ w.path = r.path
BY DEF Row

LEMMA Unnamed ==
    ASSUME NEW r \in Row
    PROVE  LET w == [r EXCEPT !.named = FALSE] IN
           /\ w \in Row /\ ~w.named /\ w.state = r.state /\ w.received = r.received
           /\ w.known = r.known /\ w.age = r.age /\ w.path = r.path
BY DEF Row

----------------------------------------------------------------------------
(* The operations start.                                                    *)
LEMMA StartsOk ==
    ASSUME UploadTypes, NEW u \in Uploads, row[u] # Nothing,
           NEW kind \in {"status", "chunk", "finish", "cleanup"},
           NEW piece \in Pieces \cup {Nothing}, NEW at \in 0..Size, Starts(kind, u, piece, at)
    PROVE  /\ op' \in Op /\ op' # Nothing /\ op'.u = u /\ op'.pc = "open" /\ op'.kind = kind
           /\ op'.piece = piece /\ op'.at = at /\ op'.known = row[u].known
<1>1. row[u] \in Row
    BY DEF UploadTypes
<1>2. row[u].known \in BOOLEAN
    BY <1>1 DEF Row
<1>3. op' \in Op
    BY <1>2 DEF Starts, Op, Work
<1> QED BY <1>3, <1>2 DEF Starts, UploadsAssumption

LEMMA StatusKeeps ==
    ASSUME UploadInv, NEW u \in Uploads, Status(u)
    PROVE  UploadInv'
<1>1. row[u] # Nothing /\ row[u] \in Row /\ row[u].state = "receiving" /\ row[u].age = 0
    BY DEF Status, Usable, Expired, Kept, UploadInv, UploadTypes, Row
<1>2. /\ op' \in Op /\ op' # Nothing /\ op'.u = u /\ op'.pc = "open" /\ op'.kind = "status"
      /\ op'.known = row[u].known
    <2>1. UploadTypes /\ 0 \in 0..Size /\ Starts("status", u, Nothing, 0)
        BY DEF Status, UploadInv, UploadsAssumption
    <2> QED BY <1>1, <2>1, StartsOk
<1>3. Receives(u) /\ Receives(u)' /\ Journal(u) /\ Journal(u)'
    BY <1>1, JournalUntouched DEF UploadInv, Receives, Status, Files, History, Untouched
<1>4. row[u].known => Stored(u)'
    BY <1>3 DEF Journal, Status, Files, History, Stored
<1>5. UnderWay'
    BY <1>1, <1>2, <1>3, <1>4 DEF UnderWay, Work, Status, Files, History, Journal
<1> QED BY <1>2, <1>5, StartKeeps DEF Status, Files, History

LEMMA ChunkKeeps ==
    ASSUME UploadInv, NEW u \in Uploads,
           NEW piece \in Pieces, NEW at \in 0..Size, Chunk(u, piece, at)
    PROVE  UploadInv'
<1>1. row[u] # Nothing /\ row[u] \in Row /\ row[u].state = "receiving" /\ row[u].age = 0
    BY DEF Chunk, Usable, Expired, Kept, UploadInv, UploadTypes, Row
<1>2. /\ op' \in Op /\ op' # Nothing /\ op'.u = u /\ op'.pc = "open" /\ op'.kind = "chunk"
      /\ op'.known = row[u].known /\ op'.piece = piece /\ op'.at = at
    BY <1>1, StartsOk DEF Chunk, UploadInv
<1>3. Receives(u) /\ Receives(u)' /\ Journal(u) /\ Journal(u)'
    BY <1>1, JournalUntouched DEF UploadInv, Receives, Chunk, Files, History, Untouched
<1>4. row[u].known => Stored(u)'
    BY <1>3 DEF Journal, Chunk, Files, History, Stored
<1>5. UnderWay'
    BY <1>1, <1>2, <1>3, <1>4 DEF UnderWay, Work, Chunk, Files, History, Journal
<1> QED BY <1>2, <1>5, StartKeeps DEF Chunk, Files, History

LEMMA FinishKeeps ==
    ASSUME UploadInv, NEW u \in Uploads, Finish(u)
    PROVE  UploadInv'
<1>0. row[u] # Nothing /\ row[u] \in Row /\ (row[u].state = "complete" \/ row[u].age = 0)
      /\ row[u].state \in {"receiving", "complete"} /\ Journal(u)
    BY DEF Finish, Usable, Expired, Kept, UploadInv, UploadTypes, Row
<1>a. CASE row[u].state = "complete"
    <2>1. op' = [kind |-> "finish", u |-> u, piece |-> Nothing, at |-> 0,
                 known |-> TRUE, pc |-> "discard"] /\ row[u].named
        BY <1>a DEF Finish
    <2>0. 0 \in 0..Size /\ TRUE \in BOOLEAN
        BY DEF UploadsAssumption
    <2>2. op' \in Op
        BY <2>0, <2>1 DEF Op
    <2>3. UnderWay'
        BY <1>a, <1>0, <2>1 DEF UnderWay, Work, Finish
    <2> QED BY <2>2, <2>3, StartKeeps DEF Finish, Files, History
<1>b. CASE row[u].state # "complete"
    <2>1. Starts("finish", u, Nothing, 0) /\ row[u].received = Size /\ row[u].age = 0
          /\ row[u].state = "receiving"
        BY <1>b, <1>0 DEF Finish
    <2>2. /\ op' \in Op /\ op' # Nothing /\ op'.u = u /\ op'.pc = "open" /\ op'.kind = "finish"
          /\ op'.known = row[u].known
        <3>1. UploadTypes /\ 0 \in 0..Size /\ u \in Uploads /\ row[u] # Nothing
            BY <1>0 DEF UploadInv, UploadsAssumption
        <3> QED BY <2>1, <3>1, StartsOk, SMTT(30)
    <2>3. Receives(u) /\ Receives(u)' /\ Journal(u)'
        BY <1>0, <2>1, JournalUntouched DEF Receives, Finish, Files, History, Untouched
    <2>4. row[u].known => Stored(u)'
        BY <1>0, <2>3 DEF Journal, Finish, Files, History, Stored
    <2>5. UnderWay'
        BY <1>0, <2>1, <2>2, <2>3, <2>4 DEF UnderWay, Work, Finish, Files, History, Journal
    <2> QED BY <2>2, <2>5, StartKeeps DEF Finish, Files, History
<1> QED BY <1>a, <1>b

LEMMA CleanupKeeps ==
    ASSUME UploadInv, NEW u \in Uploads, Cleanup(u)
    PROVE  UploadInv'
<1>0. row[u] # Nothing /\ row[u] \in Row /\ row[u].age > 0 /\ Journal(u) /\ op = Nothing
    BY DEF Cleanup, UploadInv, UploadTypes
<1>a. CASE row[u].named
    <2>1. op' = [kind |-> "cleanup", u |-> u, piece |-> Nothing, at |-> 0,
                 known |-> row[u].known, pc |-> "discard"]
        BY <1>a DEF Cleanup
    <2>2. op' \in Op /\ op' # Nothing
        BY <1>0, <2>1 DEF Op, Row, UploadsAssumption
    <2>3. UnderWay'
        BY <1>a, <1>0, <2>1 DEF UnderWay, Work, Cleanup
    <2> QED BY <1>a, <2>2, <2>3, StartKeeps DEF Cleanup, Files, History
<1>b. CASE ~row[u].named
    <2>1. /\ row[u].state \notin {"staging", "publishing"}
          /\ row' = [row EXCEPT ![u] = Nothing] /\ op' = op
          /\ UNCHANGED <<spool, synced, copied, dest, acked, published>>
        BY <1>b DEF Cleanup, Files, History
    <2>2. row'[u] = Nothing
        BY <2>1 DEF UploadInv, UploadTypes
    <2>3. UploadTypes'
        BY <2>1 DEF UploadInv, UploadTypes
    <2>4. Journal(u)'
        BY <1>0, <1>b, <2>1, <2>2 DEF Journal, Receives
    <2>5. \A v \in Uploads : v # u => Untouched(v)
        BY <2>1 DEF Untouched
    <2>6. UnderWay' /\ ~Counts(u)'
        BY <1>0, <2>1, <2>2 DEF UnderWay, Counts
    <2> QED BY <2>3, <2>4, <2>5, <2>6, OneUpload
<1> QED BY <1>a, <1>b

----------------------------------------------------------------------------
(* The steps of an operation on its spool.                                  *)
LEMMA Operating ==
    ASSUME UploadInv, op # Nothing, NEW u, op.u = u
    PROVE  /\ op \in Op /\ u \in Uploads /\ Journal(u) /\ UploadTypes /\ UnderWay
           /\ row[u] \in Row /\ row[u] # Nothing /\ row[u].received \in 0..Size
           /\ acked[u] \in Seq(Pieces) /\ Len(acked[u]) \in Nat
           /\ synced[u] \in 0..Size /\ op.at \in 0..Size
           /\ spool[u] # Nothing => spool[u] \in Seq(Pieces) /\ Len(spool[u]) \in Nat
<1>1. op \in Op /\ u \in Uploads /\ op.at \in 0..Size
    BY DEF UploadInv, UploadTypes, Op
<1>2. row[u] \in Row /\ row[u] # Nothing
    BY <1>1 DEF UploadInv, UnderWay, UploadTypes
<1>3. row[u].received \in 0..Size
    BY <1>2 DEF Row
<1> QED BY <1>1, <1>2, <1>3, Exists DEF UploadInv

(* One piece more.                                                          *)
LEMMA Extended ==
    ASSUME NEW s \in Seq(Pieces), NEW p \in Pieces
    PROVE  /\ s \o <<p>> \in Seq(Pieces) /\ Len(s \o <<p>>) = Len(s) + 1
           /\ (s \o <<p>>)[Len(s) + 1] = p
           /\ \A i \in 1..Len(s) : (s \o <<p>>)[i] = s[i]
OBVIOUS

(* Only the upload of the operation is touched.                             *)
Spooled(u, s, n) ==
    /\ spool' = [spool EXCEPT ![u] = s] /\ synced' = [synced EXCEPT ![u] = n]
    /\ UNCHANGED <<row, copied, dest, acked, published>>

LEMMA SpoolStep ==
    ASSUME UploadInv, op # Nothing, NEW u, op.u = u, NEW s, NEW n \in 0..Size,
           s \in Seq(Pieces) \cup {Nothing},
           spool' = [spool EXCEPT ![u] = s], synced' = [synced EXCEPT ![u] = n],
           UNCHANGED <<row, copied, dest, acked, published>>, op' \in Op \cup {Nothing}
    PROVE  /\ UploadTypes' /\ spool'[u] = s /\ synced'[u] = n
           /\ \A v \in Uploads : v # u => Untouched(v)
BY Operating DEF UploadTypes, Untouched, Spooled

LEMMA CreateKeeps ==
    ASSUME UploadInv, NEW u, op # Nothing /\ op.u = u, Create
    PROVE  UploadInv'
<1>0. op # Nothing /\ op.u = u /\ op.pc = "open" /\ ~op.known /\ spool[u] = Nothing
    BY DEF Create, OpAt
<1>1. op' = [kind |-> op.kind, u |-> u, piece |-> op.piece, at |-> op.at,
             known |-> TRUE, pc |-> "open"]
    BY <1>0, Operating DEF Create, Op
<1>2. op' \in Op
    BY <1>0, <1>1, Operating DEF Op, Work
<1>3. <<>> \in Seq(Pieces) /\ 0 \in 0..Size /\ Len(<<>>) = 0
    BY DEF UploadsAssumption
<1>4. /\ UploadTypes' /\ spool'[u] = <<>> /\ synced'[u] = 0
      /\ \A v \in Uploads : v # u => Untouched(v)
    BY <1>0, <1>2, <1>3, SpoolStep DEF Create, History, Spooled
<1>5. row[u].named /\ Receives(u) /\ ~row[u].known /\ row[u].received = 0
    BY <1>0, Operating DEF UnderWay, Work, Journal
<1>6. <<>> # Nothing
    BY <1>3 DEF UploadsAssumption
<1>7. Journal(u)'
    BY <1>0, <1>3, <1>4, <1>5, <1>6, Operating DEF Journal, Create, History, Receives
<1>8. Stored(u)'
    BY <1>0, <1>3, <1>4, <1>5, <1>6, Operating DEF Stored, Create, History
<1>9. UnderWay'
    BY <1>0, <1>1, <1>4, <1>5, <1>8, Operating DEF UnderWay, Create, History, Work, Receives
<1>10. Counts(u)' => Counts(u)
    BY DEF Create, Counts
<1> QED BY <1>4, <1>7, <1>9, <1>10, <1>0, Operating, OneUpload

LEMMA OpenKeeps ==
    ASSUME UploadInv, NEW u, op # Nothing /\ op.u = u, Open
    PROVE  UploadInv'
<1>0. op # Nothing /\ op.u = u /\ op.pc = "open" /\ op.known /\ spool[u] # Nothing
      /\ Len(spool[u]) >= row[u].received /\ Goes(op.kind)
    BY DEF Open, OpAt
<1>n. PICK n : n = row[u].received
    OBVIOUS
<1>s. PICK s : s = SubSeq(spool[u], 1, n)
    OBVIOUS
<1>k. PICK k : k = op.kind
    OBVIOUS
<1>g. Goes(k)
    BY <1>0, <1>k DEF Goes
<1>u. UNCHANGED <<row, copied, dest, acked, published>>
    BY DEF Open, History
<1>1. op.kind \in {"status", "chunk", "finish"} /\ Stored(u) /\ Receives(u)
      /\ row[u].named /\ (op.kind = "finish" => n = Size)
    BY <1>0, <1>n, Operating DEF UnderWay, Work
<1>1a. op.kind = "chunk" => op.piece \in Pieces /\ op.at < Size
    BY <1>0, Operating DEF UnderWay, Work
<1>2. /\ op' \in Op /\ op' # Nothing /\ op'.u = u /\ op'.pc = k /\ op'.kind = k
      /\ op'.piece = op.piece /\ op'.at = op.at /\ op'.known = op.known
    BY <1>0, <1>1, <1>k, <1>g, GoesOn DEF UploadInv, Work
<1>3. n \in 0..Size /\ n \in Nat
    BY <1>0, <1>n, Operating DEF UploadsAssumption
<1>4. s \in Seq(Pieces) /\ Len(s) = n /\ \A i \in 1..n : s[i] = spool[u][i]
    BY <1>0, <1>n, <1>s, <1>3, Operating, PrefixOf
<1>4a. s # Nothing
    BY <1>4 DEF UploadsAssumption
<1>4b. Spooled(u, s, n)
    BY <1>0, <1>n, <1>s DEF Open, History, Spooled
<1>5. /\ UploadTypes' /\ spool'[u] = s /\ synced'[u] = n
      /\ \A v \in Uploads : v # u => Untouched(v)
    <2>1. s \in Seq(Pieces) \cup {Nothing} /\ op' \in Op \cup {Nothing} /\ n \in 0..Size
        BY <1>2, <1>3, <1>4
    <2>2. op # Nothing /\ op.u = u
        BY <1>0
    <2> QED BY <2>1, <2>2, <1>4b, Operating DEF UploadTypes, Untouched, Spooled
<1>6. Stored(u)'
    BY <1>1, <1>n, <1>2, <1>3, <1>4, <1>4a, <1>5, <1>u DEF Stored
<1>6a. Stored(u)' /\ row'[u] = row[u] /\ Receives(u)'
    BY <1>1, <1>6, <1>u DEF Receives
<1>7. Journal(u)'
    BY <1>0, <1>n, <1>1, <1>3, <1>4, <1>4a, <1>5, <1>6, <1>6a, <1>u, Operating DEF Journal, Receives, Stored, Kept, UploadsAssumption
<1>8. UnderWay'
    BY <1>n, <1>k, <1>1, <1>1a, <1>2, <1>3, <1>4, <1>5, <1>6, <1>6a, Operating DEF UnderWay, Work, Stored
<1>9. Counts(u)' => Counts(u)
    BY DEF Open, Counts
<1> QED BY <1>5, <1>7, <1>8, <1>9, <1>0, Operating, OneUpload

(* A step of the operation under way keeps the invariant if it keeps the    *)
(* part of its upload: that upload is counted already.                      *)
LEMMA OwnUpload ==
    ASSUME UploadInv, NEW u, op # Nothing /\ op.u = u,
           \A v \in Uploads : v # u => Untouched(v), UploadTypes', Journal(u)', UnderWay'
    PROVE  UploadInv'
<1>1. Counts(u) /\ u \in Uploads
    BY Operating DEF UnderWay, Counts
<1> QED BY <1>1, OneUpload

(* The journal alone changes.                                               *)
Recorded(u, r) ==
    /\ row' = [row EXCEPT ![u] = r]
    /\ UNCHANGED <<spool, synced, copied, dest, acked, published>>

LEMMA CommitStep ==
    ASSUME UploadInv, NEW u, op # Nothing /\ op.u = u, NEW r \in Row,
           Recorded(u, r), op' \in Op \cup {Nothing}
    PROVE  /\ UploadTypes' /\ row'[u] = r /\ r # Nothing
           /\ \A v \in Uploads : v # u => Untouched(v)
           /\ UNCHANGED <<spool, synced, copied, dest, acked, published>>
BY Operating DEF UploadTypes, Untouched, Recorded, UploadsAssumption

(* Only that the spool is known changes.                                    *)
LEMMA KnownKeeps ==
    ASSUME NEW u, Journal(u), Stored(u), Receives(u), row'[u] # Nothing, row'[u].known,
           row'[u].state = row[u].state, row'[u].received = row[u].received,
           row'[u].named = row[u].named, row'[u].age = row[u].age,
           UNCHANGED <<spool, synced, copied, dest, acked, published>>
    PROVE  Journal(u)'
<1>1. Stored(u)' /\ Receives(u)'
    BY DEF Stored, Receives
<1>2. /\ row[u].state = "receiving" /\ row[u].named /\ row[u].received = Len(acked[u])
      /\ row[u] # Nothing /\ ~Kept(row[u])
    BY DEF Journal, Receives, Kept
<1>3. /\ row'[u].state = "receiving" /\ row'[u].named /\ row'[u].received = Len(acked'[u])
      /\ ~Kept(row'[u])
    BY <1>2 DEF Kept
<1> QED BY <1>1, <1>2, <1>3 DEF Journal

LEMMA CommitStatusKeeps ==
    ASSUME UploadInv, NEW u, op # Nothing /\ op.u = u, CommitStatus
    PROVE  UploadInv'
<1>0. op # Nothing /\ op.u = u /\ op.pc = "status" /\ op' = Nothing
    BY DEF CommitStatus, OpAt
<1>r. PICK r : r = [row[u] EXCEPT !.known = TRUE]
    OBVIOUS
<1>1. /\ r \in Row /\ r.known /\ r.state = row[u].state /\ r.received = row[u].received
      /\ r.named = row[u].named /\ r.age = row[u].age
    BY <1>r, Operating, Known
<1>2. Recorded(u, r)
    BY <1>0, <1>r DEF CommitStatus, CommitRow, Files, History, Recorded
<1>3. /\ UploadTypes' /\ row'[u] = r /\ r # Nothing
      /\ \A v \in Uploads : v # u => Untouched(v)
      /\ UNCHANGED <<spool, synced, copied, dest, acked, published>>
    BY <1>0, <1>1, <1>2, CommitStep
<1>4. Stored(u) /\ Receives(u) /\ Journal(u)
    BY <1>0, Operating DEF UnderWay, Work
<1>5. Journal(u)'
    BY <1>1, <1>3, <1>4, KnownKeeps
<1>6. UnderWay'
    BY <1>0 DEF UnderWay
<1> QED BY <1>3, <1>5, <1>6, OwnUpload

LEMMA RepeatKeeps ==
    ASSUME UploadInv, NEW u, op # Nothing /\ op.u = u, Repeat
    PROVE  UploadInv'
<1>0. op # Nothing /\ op.u = u /\ op.pc = "chunk" /\ op' = Nothing
    BY DEF Repeat, OpAt
<1>r. PICK r : r = [row[u] EXCEPT !.known = TRUE]
    OBVIOUS
<1>1. /\ r \in Row /\ r.known /\ r.state = row[u].state /\ r.received = row[u].received
      /\ r.named = row[u].named /\ r.age = row[u].age
    BY <1>r, Operating, Known
<1>2. Recorded(u, r)
    BY <1>0, <1>r DEF Repeat, CommitRow, Files, History, Recorded
<1>3. /\ UploadTypes' /\ row'[u] = r /\ r # Nothing
      /\ \A v \in Uploads : v # u => Untouched(v)
      /\ UNCHANGED <<spool, synced, copied, dest, acked, published>>
    BY <1>0, <1>1, <1>2, CommitStep
<1>4. Stored(u) /\ Receives(u) /\ Journal(u)
    BY <1>0, Operating DEF UnderWay, Work
<1>5. Journal(u)'
    BY <1>1, <1>3, <1>4, KnownKeeps
<1>6. UnderWay'
    BY <1>0 DEF UnderWay
<1> QED BY <1>3, <1>5, <1>6, OwnUpload

LEMMA WriteKeeps ==
    ASSUME UploadInv, NEW u, op # Nothing /\ op.u = u, Write
    PROVE  UploadInv'
<1>0. op # Nothing /\ op.u = u /\ op.pc = "chunk" /\ op.at = row[u].received /\ Goes("sync")
    BY DEF Write, OpAt
<1>1. /\ Stored(u) /\ Receives(u) /\ row[u].named /\ op.kind = "chunk"
      /\ op.piece \in Pieces /\ op.at < Size /\ Len(spool[u]) = row[u].received
    BY <1>0, Operating DEF UnderWay, Work
<1>n. PICK n : n = op.at
    OBVIOUS
<1>p. PICK p : p = op.piece
    OBVIOUS
<1>s. PICK s : s = SubSeq(spool[u], 1, n) \o <<p>>
    OBVIOUS
<1>2. /\ op' \in Op /\ op' # Nothing /\ op'.u = u /\ op'.pc = "sync" /\ op'.kind = "chunk"
      /\ op'.piece = p /\ op'.at = n /\ op'.known = op.known
    BY <1>0, <1>1, <1>n, <1>p, GoesOn DEF UploadInv, Work
<1>3. n \in Nat /\ n < Size /\ n = row[u].received /\ p \in Pieces
    BY <1>0, <1>1, <1>n, <1>p, Operating DEF UploadsAssumption
<1>4. /\ spool[u] \in Seq(Pieces) /\ Len(spool[u]) = n /\ spool[u] # Nothing
      /\ \A i \in 1..n : spool[u][i] = acked[u][i]
    BY <1>1, <1>3, Operating DEF Stored
<1>5. /\ SubSeq(spool[u], 1, n) \in Seq(Pieces) /\ Len(SubSeq(spool[u], 1, n)) = n
      /\ \A i \in 1..n : SubSeq(spool[u], 1, n)[i] = spool[u][i]
    BY <1>3, <1>4, PrefixOf
<1>6. s \in Seq(Pieces) /\ Len(s) = n + 1 /\ s[n + 1] = p /\ \A i \in 1..n : s[i] = acked[u][i]
    <2>1. PICK t : t = SubSeq(spool[u], 1, n)
        OBVIOUS
    <2>2. t \in Seq(Pieces) /\ Len(t) = n /\ \A i \in 1..n : t[i] = spool[u][i]
        BY <2>1, <1>5
    <2>3. s = t \o <<p>>
        BY <2>1, <1>s
    <2>4. /\ t \o <<p>> \in Seq(Pieces) /\ Len(t \o <<p>>) = Len(t) + 1
          /\ (t \o <<p>>)[Len(t) + 1] = p
          /\ \A i \in 1..Len(t) : (t \o <<p>>)[i] = t[i]
        BY <2>2, <1>3, Extended
    <2>5. s \in Seq(Pieces) /\ Len(s) = n + 1 /\ s[n + 1] = p /\ \A i \in 1..n : s[i] = t[i]
        BY <2>2, <2>3, <2>4
    <2> QED BY <2>2, <2>5, <1>4
<1>7. s # Nothing /\ n + 1 <= Size
    BY <1>3, <1>6 DEF UploadsAssumption
<1>8. /\ spool' = [spool EXCEPT ![u] = s]
      /\ UNCHANGED <<row, synced, copied, dest, acked, published>>
    BY <1>0, <1>n, <1>p, <1>s DEF Write, History
<1>9. UploadTypes' /\ spool'[u] = s /\ \A v \in Uploads : v # u => Untouched(v)
    BY <1>2, <1>6, <1>8, Operating DEF UploadTypes, Untouched
<1>10. Stored(u)' /\ row'[u] = row[u] /\ Receives(u)'
    BY <1>1, <1>3, <1>6, <1>7, <1>8, <1>9 DEF Stored, Receives
<1>11. Journal(u)'
    BY <1>1, <1>3, <1>4, <1>6, <1>7, <1>8, <1>9, <1>10, Operating
    DEF Journal, Receives, Kept, UploadsAssumption
<1>12. UnderWay'
    BY <1>1, <1>2, <1>3, <1>6, <1>9, <1>10, Operating DEF UnderWay, Work
<1> QED BY <1>9, <1>11, <1>12, OwnUpload

LEMMA SyncKeeps ==
    ASSUME UploadInv, NEW u, op # Nothing /\ op.u = u, Sync
    PROVE  UploadInv'
<1>0. op # Nothing /\ op.u = u /\ op.pc = "sync" /\ Goes("acknowledge")
    BY DEF Sync, OpAt
<1>1. /\ Stored(u) /\ Receives(u) /\ row[u].named /\ op.kind = "chunk" /\ spool[u] # Nothing
      /\ op.piece \in Pieces /\ op.at < Size /\ op.at = row[u].received
      /\ Len(spool[u]) = row[u].received + 1 /\ spool[u][row[u].received + 1] = op.piece
    BY <1>0, Operating DEF UnderWay, Work, Stored
<1>n. PICK n : n = Len(spool[u])
    OBVIOUS
<1>2. /\ op' \in Op /\ op' # Nothing /\ op'.u = u /\ op'.pc = "acknowledge" /\ op'.kind = "chunk"
      /\ op'.piece = op.piece /\ op'.at = op.at /\ op'.known = op.known
    BY <1>0, <1>1, GoesOn DEF UploadInv, Work
<1>3. n \in 0..Size /\ n = row[u].received + 1
    BY <1>0, <1>1, <1>n, Operating DEF UploadsAssumption
<1>4. /\ synced' = [synced EXCEPT ![u] = n]
      /\ UNCHANGED <<row, spool, copied, dest, acked, published>>
    BY <1>0, <1>n DEF Sync, History
<1>5. UploadTypes' /\ synced'[u] = n /\ \A v \in Uploads : v # u => Untouched(v)
    BY <1>2, <1>3, <1>4, Operating DEF UploadTypes, Untouched
<1>6. Stored(u)' /\ row'[u] = row[u] /\ Receives(u)'
    BY <1>1, <1>3, <1>4, <1>5, Operating DEF Stored, Receives
<1>7. Journal(u)'
    BY <1>1, <1>3, <1>4, <1>5, <1>6, Operating DEF Journal, Receives, Kept, UploadsAssumption
<1>8. UnderWay'
    BY <1>1, <1>2, <1>3, <1>4, <1>5, <1>6, Operating DEF UnderWay, Work
<1> QED BY <1>5, <1>7, <1>8, OwnUpload

LEMMA AcknowledgeKeeps ==
    ASSUME UploadInv, NEW u, op # Nothing /\ op.u = u, Acknowledge
    PROVE  UploadInv'
<1>0. op # Nothing /\ op.u = u /\ op.pc = "acknowledge" /\ op' = Nothing
    BY DEF Acknowledge, OpAt
<1>1. /\ Stored(u) /\ Receives(u) /\ row[u].named /\ op.piece \in Pieces
      /\ op.at < Size /\ op.at = row[u].received /\ synced[u] = row[u].received + 1
      /\ Len(spool[u]) = row[u].received + 1 /\ spool[u][row[u].received + 1] = op.piece
    BY <1>0, Operating DEF UnderWay, Work
<1>n. PICK n : n = op.at + 1
    OBVIOUS
<1>p. PICK p : p = op.piece
    OBVIOUS
<1>a. PICK a : a = Append(acked[u], p)
    OBVIOUS
<1>r. PICK r : r = [row[u] EXCEPT !.known = TRUE, !.received = n]
    OBVIOUS
<1>2. n \in 0..Size /\ n = row[u].received + 1 /\ p \in Pieces
    BY <1>0, <1>1, <1>n, <1>p, Operating DEF UploadsAssumption
<1>3. /\ r \in Row /\ r.known /\ r.state = row[u].state /\ r.received = n
      /\ r.named = row[u].named /\ r.age = row[u].age
    BY <1>0, <1>2, <1>r, Operating DEF Row
<1>4. acked[u] \in Seq(Pieces) /\ Len(acked[u]) = row[u].received
    BY <1>1, Operating DEF Journal
<1>5. a \in Seq(Pieces) /\ Len(a) = n /\ a[n] = p /\ \A i \in 1..(n - 1) : a[i] = acked[u][i]
    BY <1>2, <1>4, <1>a
<1>6. /\ row' = [row EXCEPT ![u] = r] /\ acked' = [acked EXCEPT ![u] = a]
      /\ UNCHANGED <<spool, synced, copied, dest, published>>
    BY <1>0, <1>n, <1>p, <1>a, <1>r DEF Acknowledge, CommitRow, Files
<1>7. /\ UploadTypes' /\ row'[u] = r /\ r # Nothing /\ acked'[u] = a
      /\ \A v \in Uploads : v # u => Untouched(v)
    BY <1>0, <1>3, <1>5, <1>6, Operating DEF UploadTypes, Untouched, UploadsAssumption
<1>8. Stored(u)'
    <2>1. \A i \in 1..n : spool[u][i] = a[i]
        <3>1. \A i \in 1..(n - 1) : spool[u][i] = acked[u][i]
            BY <1>0, <1>1, <1>2, Operating DEF Stored
        <3>2. spool[u][n] = p
            BY <1>0, <1>1, <1>2, <1>p
        <3>3. \A i \in 1..n : i = n \/ i \in 1..(n - 1)
            BY <1>2
        <3> QED BY <1>5, <3>1, <3>2, <3>3
    <2>2. /\ spool[u] # Nothing /\ spool'[u] = spool[u] /\ synced'[u] = synced[u]
          /\ row'[u].received = n /\ acked'[u] = a /\ Len(spool[u]) = n /\ synced[u] = n
        BY <1>1, <1>2, <1>3, <1>6, <1>7 DEF Stored
    <2> QED BY <1>2, <2>1, <2>2 DEF Stored, UploadsAssumption
<1>9. Journal(u)'
    <2>1. /\ Journal(u) /\ row[u] # Nothing /\ row[u].state = "receiving" /\ spool[u] # Nothing
          /\ published[u] = 0 /\ copied[u] = 0 /\ row[u].age = 0 /\ row[u].named
        BY <1>0, <1>1, Operating DEF Journal, Receives, Kept, Stored
    <2>2. /\ spool'[u] = spool[u] /\ synced'[u] = synced[u] /\ row'[u] = r
          /\ acked'[u] = a /\ published'[u] = 0 /\ copied'[u] = 0
        BY <1>6, <1>7, <2>1
    <2>3. row'[u].received = Len(acked'[u])
        BY <1>3, <1>5, <2>2
    <2>4. r.state = "receiving" /\ r.named /\ r.known /\ r # Nothing
        BY <1>3, <1>7, <2>1
    <2> QED BY <1>8, <2>1, <2>2, <2>3, <2>4 DEF Journal, Receives, Kept
<1>10. UnderWay'
    BY <1>0 DEF UnderWay
<1> QED BY <1>7, <1>9, <1>10, OwnUpload

----------------------------------------------------------------------------
(* The steps of an operation that finishes an upload.                       *)
LEMMA AllRight ==
    ASSUME NEW s \in Seq(Pieces), Size \in Nat, Len(s) = Size,
           \A i \in 1..Size : s[i] = "right"
    PROVE  s = [i \in 1..Size |-> "right"]
<1>1. s \in [1..Len(s) -> Pieces]
    BY LenProperties
<1> QED BY <1>1

LEMMA RejectKeeps ==
    ASSUME UploadInv, NEW u, op # Nothing /\ op.u = u, Reject
    PROVE  UploadInv'
<1>0. op # Nothing /\ op.u = u /\ op.pc = "finish" /\ op' = Nothing
    BY DEF Reject, OpAt
<1>r. PICK r : r = [row[u] EXCEPT !.state = "failed", !.known = TRUE]
    OBVIOUS
<1>1. /\ r \in Row /\ r.known /\ r.state = "failed" /\ r.received = row[u].received
      /\ r.named = row[u].named /\ r.age = row[u].age
    BY <1>0, <1>r, Operating DEF Row
<1>2. Recorded(u, r)
    BY <1>0, <1>r DEF Reject, CommitRow, Files, History, Recorded
<1>3. /\ UploadTypes' /\ row'[u] = r /\ r # Nothing
      /\ \A v \in Uploads : v # u => Untouched(v)
      /\ UNCHANGED <<spool, synced, copied, dest, acked, published>>
    BY <1>0, <1>1, <1>2, CommitStep
<1>4. Receives(u) /\ row[u].named
    BY <1>0, Operating DEF UnderWay, Work
<1>5. Journal(u)'
    BY <1>1, <1>3, <1>4, Operating DEF Journal, Receives, Kept
<1>6. UnderWay'
    BY <1>0 DEF UnderWay
<1> QED BY <1>3, <1>5, <1>6, OwnUpload

LEMMA StageKeeps ==
    ASSUME UploadInv, NEW u, op # Nothing /\ op.u = u, Stage
    PROVE  UploadInv'
<1>0. op # Nothing /\ op.u = u /\ op.pc = "finish" /\ Goes("copy") /\ Whole(u)
    BY DEF Stage, OpAt
<1>r. PICK r : r = [row[u] EXCEPT !.state = "staging", !.known = TRUE]
    OBVIOUS
<1>1. /\ r \in Row /\ r.known /\ r.state = "staging" /\ r.received = row[u].received
      /\ r.named = row[u].named /\ r.age = row[u].age
    BY <1>0, <1>r, Operating DEF Row
<1>2. Recorded(u, r)
    BY <1>0, <1>r DEF Stage, CommitRow, Files, History, Recorded
<1>3. op' \in Op /\ op' # Nothing /\ op'.u = u /\ op'.pc = "copy"
    BY <1>0, GoesOn DEF UploadInv
<1>4. /\ UploadTypes' /\ row'[u] = r /\ r # Nothing
      /\ \A v \in Uploads : v # u => Untouched(v)
      /\ UNCHANGED <<spool, synced, copied, dest, acked, published>>
    BY <1>0, <1>1, <1>2, <1>3, CommitStep
<1>5. Receives(u) /\ row[u].named /\ Stored(u) /\ row[u].received = Size
    BY <1>0, Operating DEF UnderWay, Work
<1>6. acked[u] = [i \in 1..Size |-> "right"]
    <2>1. \A i \in 1..Size : acked[u][i] = "right"
        BY <1>0, <1>5, Operating DEF Stored, Whole
    <2>2. acked[u] \in Seq(Pieces) /\ Len(acked[u]) = Size
        BY <1>0, <1>5, Operating DEF Journal
    <2> QED BY <2>1, <2>2, AllRight DEF UploadsAssumption
<1>7. copied[u] = 0 /\ published[u] = 0
    BY <1>0, <1>5, Operating DEF Journal, Receives
<1>8. Journal(u)'
    BY <1>1, <1>4, <1>5, <1>6, <1>7, Operating DEF Journal, Receives, Kept
<1>9. UnderWay'
    BY <1>1, <1>3, <1>4, <1>5, <1>7 DEF UnderWay, Work
<1> QED BY <1>4, <1>8, <1>9, OwnUpload

LEMMA CopyKeeps ==
    ASSUME UploadInv, NEW u, op # Nothing /\ op.u = u, Copy
    PROVE  UploadInv'
<1>0. op # Nothing /\ op.u = u /\ op.pc = "copy" /\ Goes("intend")
    BY DEF Copy, OpAt
<1>1. row[u].state = "staging" /\ copied[u] = 0 /\ row[u].named
    BY <1>0, Operating DEF UnderWay
<1>2. op' \in Op /\ op' # Nothing /\ op'.u = u /\ op'.pc = "intend"
    BY <1>0, GoesOn DEF UploadInv
<1>3. /\ copied' = [copied EXCEPT ![u] = copied[u] + Size]
      /\ UNCHANGED <<row, spool, synced, dest, acked, published>>
    BY <1>0 DEF Copy, History
<1>4. copied[u] + Size = Size
    BY <1>1 DEF UploadsAssumption
<1>5. UploadTypes' /\ copied'[u] = Size /\ \A v \in Uploads : v # u => Untouched(v)
    BY <1>2, <1>3, <1>4, Operating DEF UploadTypes, Untouched
<1>6. Journal(u)'
    BY <1>1, <1>3, <1>5, Operating DEF Journal, Receives, Kept, Stored
<1>7. UnderWay'
    BY <1>1, <1>2, <1>3, <1>5, Operating DEF UnderWay, Work
<1> QED BY <1>5, <1>6, <1>7, OwnUpload

LEMMA IntendKeeps ==
    ASSUME UploadInv, NEW u, op # Nothing /\ op.u = u, Intend
    PROVE  UploadInv'
<1>0. op # Nothing /\ op.u = u /\ op.pc = "intend" /\ Goes("publish")
    BY DEF Intend, OpAt
<1>r. PICK r : r = [row[u] EXCEPT !.state = "publishing"]
    OBVIOUS
<1>1. /\ r \in Row /\ r.known = row[u].known /\ r.state = "publishing"
      /\ r.received = row[u].received /\ r.named = row[u].named /\ r.age = row[u].age
    BY <1>0, <1>r, Operating DEF Row
<1>2. Recorded(u, r)
    BY <1>0, <1>r DEF Intend, CommitRow, Files, History, Recorded
<1>3. op' \in Op /\ op' # Nothing /\ op'.u = u /\ op'.pc = "publish"
    BY <1>0, GoesOn DEF UploadInv
<1>4. /\ UploadTypes' /\ row'[u] = r /\ r # Nothing
      /\ \A v \in Uploads : v # u => Untouched(v)
      /\ UNCHANGED <<spool, synced, copied, dest, acked, published>>
    BY <1>0, <1>1, <1>2, <1>3, CommitStep
<1>5. row[u].state = "staging" /\ copied[u] = Size /\ row[u].named
    BY <1>0, Operating DEF UnderWay
<1>6. published[u] = 0 /\ acked[u] = [i \in 1..Size |-> "right"]
    BY <1>5, Operating DEF Journal, Kept
<1>7. Journal(u)'
    BY <1>1, <1>4, <1>5, <1>6, Operating DEF Journal, Receives, Kept
<1>8. UnderWay'
    BY <1>1, <1>3, <1>4, <1>5, <1>6 DEF UnderWay, Work
<1> QED BY <1>4, <1>7, <1>8, OwnUpload

LEMMA PublishKeeps ==
    ASSUME UploadInv, NEW u, op # Nothing /\ op.u = u, Publish
    PROVE  UploadInv'
<1>0. op # Nothing /\ op.u = u /\ op.pc = "publish" /\ Goes("complete")
    BY DEF Publish, OpAt
<1>1. row[u].state = "publishing" /\ copied[u] = Size /\ published[u] = 0 /\ row[u].named
    BY <1>0, Operating DEF UnderWay
<1>2. op' \in Op /\ op' # Nothing /\ op'.u = u /\ op'.pc = "complete"
    BY <1>0, GoesOn DEF UploadInv
<1>3. /\ copied' = [copied EXCEPT ![u] = copied[u] - Size]
      /\ published' = [published EXCEPT ![u] = published[u] + 1]
      /\ dest' = [dest EXCEPT ![row[u].path] = u]
      /\ UNCHANGED <<row, spool, synced, acked>>
    BY <1>0 DEF Publish
<1>4. copied[u] - Size = 0 /\ published[u] + 1 = 1
    BY <1>1 DEF UploadsAssumption
<1>5. UploadTypes' /\ copied'[u] = 0 /\ published'[u] = 1 /\ \A v \in Uploads : v # u => Untouched(v)
    BY <1>2, <1>3, <1>4, Operating DEF UploadTypes, Untouched
<1>6. acked[u] = [i \in 1..Size |-> "right"]
    BY <1>1, Operating DEF Journal, Kept
<1>7. Journal(u)'
    BY <1>1, <1>3, <1>5, <1>6, Operating DEF Journal, Receives, Kept, Stored
<1>8. UnderWay'
    BY <1>1, <1>2, <1>3, <1>5, Operating DEF UnderWay, Work
<1> QED BY <1>5, <1>7, <1>8, OwnUpload

LEMMA CompleteCommitKeeps ==
    ASSUME UploadInv, NEW u, op # Nothing /\ op.u = u, CompleteCommit
    PROVE  UploadInv'
<1>0. op # Nothing /\ op.u = u /\ op.pc = "complete" /\ Goes("discard")
    BY DEF CompleteCommit, OpAt
<1>r. PICK r : r = [row[u] EXCEPT !.state = "complete"]
    OBVIOUS
<1>1. /\ r \in Row /\ r.known = row[u].known /\ r.state = "complete"
      /\ r.received = row[u].received /\ r.named = row[u].named /\ r.age = row[u].age
    BY <1>0, <1>r, Operating DEF Row
<1>2. Recorded(u, r)
    BY <1>0, <1>r DEF CompleteCommit, CommitRow, Files, History, Recorded
<1>3. op' \in Op /\ op' # Nothing /\ op'.u = u /\ op'.pc = "discard"
    BY <1>0, GoesOn DEF UploadInv
<1>4. /\ UploadTypes' /\ row'[u] = r /\ r # Nothing
      /\ \A v \in Uploads : v # u => Untouched(v)
      /\ UNCHANGED <<spool, synced, copied, dest, acked, published>>
    BY <1>0, <1>1, <1>2, <1>3, CommitStep
<1>5. row[u].state = "publishing" /\ copied[u] = 0 /\ published[u] = 1 /\ row[u].named
    BY <1>0, Operating DEF UnderWay
<1>6. acked[u] = [i \in 1..Size |-> "right"]
    BY <1>5, Operating DEF Journal, Kept
<1>7. Journal(u)'
    BY <1>1, <1>4, <1>5, <1>6, Operating DEF Journal, Receives, Kept
<1>8. UnderWay'
    BY <1>1, <1>3, <1>4, <1>5 DEF UnderWay, Work
<1> QED BY <1>4, <1>7, <1>8, OwnUpload

LEMMA DiscardKeeps ==
    ASSUME UploadInv, NEW u, op # Nothing /\ op.u = u, Discard
    PROVE  UploadInv'
<1>0. op # Nothing /\ op.u = u /\ op.pc = "discard" /\ Goes("release")
    BY DEF Discard, OpAt
<1>1. (row[u].age > 0 \/ row[u].state = "complete") /\ row[u].named
    BY <1>0, Operating DEF UnderWay
<1>2. op' \in Op /\ op' # Nothing /\ op'.u = u /\ op'.pc = "release"
    BY <1>0, GoesOn DEF UploadInv
<1>3. /\ spool' = [spool EXCEPT ![u] = Nothing] /\ synced' = [synced EXCEPT ![u] = 0]
      /\ UNCHANGED <<row, copied, dest, acked, published>>
    BY <1>0 DEF Discard, History
<1>4. 0 \in 0..Size
    BY DEF UploadsAssumption
<1>5. UploadTypes' /\ spool'[u] = Nothing /\ synced'[u] = 0 /\ \A v \in Uploads : v # u => Untouched(v)
    BY <1>2, <1>3, <1>4, Operating DEF UploadTypes, Untouched
<1>6. ~Receives(u)'
    BY <1>1, <1>3 DEF Receives
<1>7. Journal(u)'
    BY <1>3, <1>5, <1>6, Operating DEF Journal, Kept
<1>8. UnderWay'
    BY <1>0, <1>1, <1>2, <1>3, <1>5, Operating DEF UnderWay, Work
<1> QED BY <1>5, <1>7, <1>8, OwnUpload

LEMMA ReleaseKeeps ==
    ASSUME UploadInv, NEW u, op # Nothing /\ op.u = u, Release
    PROVE  UploadInv'
<1>0. op # Nothing /\ op.u = u /\ op.pc = "release" /\ op' = Nothing
    BY DEF Release, OpAt
<1>r. PICK r : r = [row[u] EXCEPT !.named = FALSE]
    OBVIOUS
<1>1. /\ r \in Row /\ ~r.named /\ r.known = row[u].known /\ r.state = row[u].state
      /\ r.received = row[u].received /\ r.age = row[u].age
    BY <1>0, <1>r, Operating DEF Row
<1>2. Recorded(u, r)
    BY <1>0, <1>r DEF Release, CommitRow, Files, History, Recorded
<1>3. /\ UploadTypes' /\ row'[u] = r /\ r # Nothing
      /\ \A v \in Uploads : v # u => Untouched(v)
      /\ UNCHANGED <<spool, synced, copied, dest, acked, published>>
    BY <1>0, <1>1, <1>2, CommitStep
<1>4. (row[u].age > 0 \/ row[u].state = "complete") /\ spool[u] = Nothing
    BY <1>0, Operating DEF UnderWay
<1>5. ~Receives(u)'
    BY <1>1, <1>3, <1>4 DEF Receives
<1>6. Journal(u)'
    BY <1>0, <1>1, <1>3, <1>4, <1>5, Operating DEF Journal, Kept
<1>7. UnderWay'
    BY <1>0 DEF UnderWay
<1> QED BY <1>3, <1>6, <1>7, OwnUpload

----------------------------------------------------------------------------
(* An operation that ends in its middle, and what happens around it.        *)
LEMMA FailKeeps ==
    ASSUME UploadInv, NEW u, op # Nothing /\ op.u = u, Fail
    PROVE  UploadInv'
<1>1. op # Nothing /\ op.u = u /\ op' = Nothing /\ UNCHANGED <<row, spool, synced, dest, acked, published>>
    BY DEF Fail, History
<1>2. UnderWay'
    BY <1>1 DEF UnderWay
<1>a. CASE op.pc \in {"intend", "publish"}
    <2>1. copied' = [copied EXCEPT ![u] = copied[u] - Size] /\ copied[u] = Size
        BY <1>a, <1>1, Operating DEF Fail, UnderWay
    <2>2. copied[u] - Size = 0
        BY <2>1 DEF UploadsAssumption
    <2>3. UploadTypes' /\ copied'[u] = 0 /\ \A v \in Uploads : v # u => Untouched(v)
        BY <1>1, <2>1, <2>2, Operating DEF UploadTypes, Untouched
    <2>4. Journal(u)'
        BY <1>1, <2>3, Operating DEF Journal, Receives, Kept, Stored
    <2> QED BY <1>1, <1>2, <2>3, <2>4, OwnUpload
<1>b. CASE op.pc \notin {"intend", "publish"}
    <2>1. copied' = copied
        BY <1>b DEF Fail
    <2> QED BY <1>1, <1>2, <2>1, StartKeeps
<1> QED BY <1>a, <1>b

LEMMA CrashKeeps ==
    ASSUME UploadInv, Crash
    PROVE  UploadInv'
<1>1. op' = Nothing /\ UNCHANGED <<row, copied, dest, acked, published>>
    BY DEF Crash, History
<1>2. PICK left \in [Uploads -> 0..Size] :
        /\ \A v \in Uploads : IF spool[v] = Nothing THEN left[v] = 0
                              ELSE left[v] \in synced[v]..Len(spool[v])
        /\ spool' = [v \in Uploads |-> IF spool[v] = Nothing THEN Nothing
                                       ELSE SubSeq(spool[v], 1, left[v])]
        /\ synced' = left
    BY DEF Crash
<1>3. ASSUME NEW v \in Uploads
      PROVE  /\ synced'[v] \in 0..Size
             /\ spool[v] = Nothing => spool'[v] = Nothing /\ synced'[v] = 0
             /\ spool[v] # Nothing =>
                  /\ spool'[v] \in Seq(Pieces) /\ spool'[v] # Nothing
                  /\ Len(spool'[v]) = synced'[v] /\ synced'[v] >= synced[v]
                  /\ synced'[v] <= Len(spool[v])
                  /\ \A i \in 1..synced'[v] : spool'[v][i] = spool[v][i]
    <2>1. CASE spool[v] = Nothing
        BY <1>2, <1>3, <2>1
    <2>2. CASE spool[v] # Nothing
        <3>1. /\ spool[v] \in Seq(Pieces) /\ synced'[v] \in 0..Size
              /\ synced'[v] \in synced[v]..Len(spool[v]) /\ synced[v] \in 0..Size
              /\ spool'[v] = SubSeq(spool[v], 1, synced'[v])
            BY <1>2, <1>3, <2>2 DEF UploadInv, UploadTypes
        <3>2. synced'[v] \in Nat /\ synced'[v] >= synced[v] /\ synced'[v] <= Len(spool[v])
            BY <3>1 DEF UploadsAssumption
        <3>3. PICK n, s : n = synced'[v] /\ s = spool[v]
            OBVIOUS
        <3>4. /\ SubSeq(s, 1, n) \in Seq(Pieces) /\ Len(SubSeq(s, 1, n)) = n
              /\ \A i \in 1..n : SubSeq(s, 1, n)[i] = s[i]
            BY <3>1, <3>2, <3>3, PrefixOf
        <3>5. spool'[v] = SubSeq(s, 1, n)
            BY <3>1, <3>3
        <3>6. spool'[v] # Nothing
            BY <3>4, <3>5 DEF UploadsAssumption
        <3> QED BY <2>2, <3>1, <3>2, <3>3, <3>4, <3>5, <3>6
    <2> QED BY <2>1, <2>2
<1>4. UploadTypes'
    <2>1. spool' \in [Uploads -> Seq(Pieces) \cup {Nothing}] /\ synced' \in [Uploads -> 0..Size]
        <3>1. \A v \in Uploads : spool'[v] \in Seq(Pieces) \cup {Nothing}
            BY <1>3
        <3>2. spool' = [v \in Uploads |-> spool'[v]]
            BY <1>2
        <3> QED BY <1>2, <3>1, <3>2
    <2> QED BY <1>1, <2>1 DEF UploadInv, UploadTypes
<1>5. ASSUME NEW v \in Uploads
      PROVE  Journal(v)'
    <2>1. Journal(v) /\ row'[v] = row[v] /\ copied'[v] = copied[v] /\ acked'[v] = acked[v]
          /\ published'[v] = published[v]
        BY <1>1, <1>5 DEF UploadInv
    <2>2. Len(spool[v]) <= Size /\ spool[v] # Nothing => Len(spool'[v]) <= Size /\ synced'[v] <= Len(spool'[v])
        BY <1>3, <1>5, Exists DEF UploadInv, UploadsAssumption
    <2>3. Stored(v) /\ row[v] # Nothing => Stored(v)'
        <3>1. SUFFICES ASSUME Stored(v), row[v] # Nothing PROVE Stored(v)'
            OBVIOUS
        <3>2. row[v].received \in 0..Size /\ synced[v] \in 0..Size
            BY <1>5, <3>1 DEF UploadInv, UploadTypes, Row
        <3>3. /\ spool'[v] # Nothing /\ Len(spool'[v]) = synced'[v] /\ synced'[v] \in 0..Size
              /\ synced'[v] >= row[v].received
              /\ \A i \in 1..row[v].received : spool'[v][i] = acked[v][i]
            BY <1>3, <1>5, <3>1, <3>2 DEF Stored, UploadsAssumption
        <3> QED BY <2>1, <3>3 DEF Stored
    <2> QED BY <1>3, <1>5, <2>1, <2>2, <2>3 DEF Journal, Receives, Kept
<1>6. UnderWay'
    BY <1>1 DEF UnderWay
<1>7. Covered'
    BY <1>1, CoveredKept DEF UploadInv, Counted, Counts
<1> QED BY <1>4, <1>5, <1>6, <1>7 DEF UploadInv

LEMMA AgesKeeps ==
    ASSUME UploadInv, NEW u \in Uploads, Ages(u)
    PROVE  UploadInv'
<1>1. op = Nothing /\ row[u] # Nothing /\ row[u] \in Row /\ row[u].age \in 0..1
    BY DEF Ages, UploadInv, UploadTypes, Row
<1>r. PICK r : r = [row[u] EXCEPT !.age = @ + 1]
    OBVIOUS
<1>2. /\ r \in Row /\ r.known = row[u].known /\ r.state = row[u].state
      /\ r.received = row[u].received /\ r.named = row[u].named /\ r.age = row[u].age + 1
    BY <1>1, <1>r DEF Row
<1>3. /\ row' = [row EXCEPT ![u] = r]
      /\ UNCHANGED <<spool, synced, copied, dest, op, acked, published>>
    BY <1>r DEF Ages, Files, History
<1>4. UploadTypes' /\ row'[u] = r /\ r # Nothing /\ \A v \in Uploads : v # u => Untouched(v)
    BY <1>2, <1>3 DEF UploadInv, UploadTypes, Untouched, UploadsAssumption
<1>5. ~Receives(u)'
    BY <1>1, <1>2, <1>4 DEF Receives
<1>6. Journal(u)'
    BY <1>1, <1>2, <1>3, <1>4, <1>5 DEF UploadInv, Journal, Kept
<1>7. UnderWay' /\ (Counts(u)' => Counts(u))
    BY <1>1, <1>2, <1>3, <1>4 DEF UnderWay, Counts
<1> QED BY <1>4, <1>6, <1>7, OneUpload

LEMMA OthersKeep ==
    ASSUME UploadInv, NEW p \in Paths, OthersWrite(p) \/ OthersRemove(p)
    PROVE  UploadInv'
<1>1. UNCHANGED <<row, spool, synced, copied, op, acked, published>>
    BY DEF OthersWrite, OthersRemove, History
<1>2. UploadTypes'
    BY <1>1 DEF OthersWrite, OthersRemove, UploadInv, UploadTypes
<1>3. \A v \in Uploads : Journal(v)'
    BY <1>1, JournalUntouched DEF UploadInv, Untouched
<1>4. UnderWay'
    BY <1>1 DEF UploadInv, UnderWay, Receives, Stored
<1>5. Covered'
    BY <1>1, CoveredKept DEF UploadInv, Counted, Counts
<1> QED BY <1>2, <1>3, <1>4, <1>5 DEF UploadInv

(* Begin counts one upload more, for which the reservation leaves room.     *)
LEMMA BeginKeeps ==
    ASSUME UploadInv, NEW u \in Uploads, NEW p \in Paths, Begin(u, p)
    PROVE  UploadInv'
<1>1. op = Nothing /\ row[u] = Nothing /\ Journal(u)
    BY DEF Begin, UploadInv
<1>r. PICK r : r = [path |-> p, state |-> "receiving", received |-> 0,
                    named |-> TRUE, known |-> FALSE, age |-> 0]
    OBVIOUS
<1>o. PICK o : o = [kind |-> "status", u |-> u, piece |-> Nothing, at |-> 0,
                    known |-> FALSE, pc |-> "open"]
    OBVIOUS
<1>2. r \in Row /\ o \in Op /\ r # Nothing /\ o # Nothing
    <2>1. 0 \in 0..Size /\ 0 \in 0..2 /\ TRUE \in BOOLEAN /\ FALSE \in BOOLEAN
        BY DEF UploadsAssumption
    <2>2. r \in Row
        BY <1>r, <2>1 DEF Row
    <2>3. o \in Op
        BY <1>o, <2>1 DEF Op, Work
    <2> QED BY <2>2, <2>3 DEF UploadsAssumption
<1>3. /\ row' = [row EXCEPT ![u] = r] /\ op' = o
      /\ acked' = [acked EXCEPT ![u] = <<>>] /\ published' = [published EXCEPT ![u] = 0]
      /\ UNCHANGED <<spool, synced, copied, dest>> /\ Reserved(Size)
    BY <1>r, <1>o DEF Begin, Files
<1>4. <<>> \in Seq(Pieces) /\ Len(<<>>) = 0
    OBVIOUS
<1>5. /\ UploadTypes' /\ row'[u] = r /\ acked'[u] = <<>> /\ published'[u] = 0
      /\ \A v \in Uploads : v # u => Untouched(v)
    BY <1>2, <1>3, <1>4 DEF UploadInv, UploadTypes, Untouched
<1>6. /\ spool[u] = Nothing /\ copied[u] = 0
      /\ r.state = "receiving" /\ r.received = 0 /\ r.named /\ ~r.known /\ r.age = 0
    BY <1>1, <1>r DEF Journal
<1>7. Journal(u)'
    BY <1>1, <1>2, <1>3, <1>4, <1>5, <1>6 DEF Journal, Receives, Kept
<1>8. UnderWay'
    BY <1>2, <1>3, <1>5, <1>6, <1>o DEF UnderWay, Receives, Work
<1>9. \A v \in Uploads : Journal(v)'
    BY <1>5, <1>7, JournalUntouched DEF UploadInv
<1>10. Covered'
    <2>1. IsFiniteSet(Counted) /\ Counted' \subseteq Counted \cup {u}
        <3>1. \A v \in Uploads : v # u /\ Counts(v)' => Counts(v)
            BY <1>5 DEF Untouched, Counts
        <3> QED BY <3>1, FS_Subset DEF UploadsAssumption, Counted
    <2>2. /\ IsFiniteSet(Counted \cup {u})
          /\ Cardinality(Counted \cup {u}) <= Cardinality(Counted) + 1
          /\ Cardinality(Counted) \in Nat
        <3>1. /\ IsFiniteSet(Counted \cup {u})
              /\ Cardinality(Counted \cup {u}) =
                    IF u \in Counted THEN Cardinality(Counted) ELSE Cardinality(Counted) + 1
            BY <2>1, FS_AddElement
        <3> QED BY <3>1, <2>1, FS_CardinalityType
    <2>3. /\ Cardinality(Counted') \in Nat
          /\ Cardinality(Counted') <= Cardinality(Counted) + 1
        <3>1. /\ Cardinality(Counted') \in Nat /\ Cardinality(Counted \cup {u}) \in Nat
              /\ Cardinality(Counted') <= Cardinality(Counted \cup {u})
            BY <2>1, <2>2, FS_Subset, FS_CardinalityType
        <3> QED BY <2>2, <3>1
    <2>4. 2 * Size * Cardinality(Counted) + 2 * Size <= Capacity
        BY <1>3 DEF Reserved, Quantify, Counted
    <2>5. \A m, n, s \in Nat : m <= n + 1 => 2 * s * m <= 2 * s * n + 2 * s
        OBVIOUS
    <2> QED BY <2>2, <2>3, <2>4, <2>5 DEF Covered, UploadsAssumption
<1> QED BY <1>5, <1>8, <1>9, <1>10 DEF UploadInv

----------------------------------------------------------------------------
LEMMA Starting ==
    ASSUME UploadsInit
    PROVE  UploadInv
<1>1. 0 \in 0..Size /\ <<>> \in Seq(Pieces)
    BY DEF UploadsAssumption
<1>2. UploadTypes
    BY <1>1 DEF UploadsInit, UploadTypes
<1>3. \A u \in Uploads : Journal(u)
    BY DEF UploadsInit, Journal, Receives
<1>4. UnderWay
    BY DEF UploadsInit, UnderWay
<1>5. Covered
    <2>1. Counted = {}
        BY DEF UploadsInit, Counted, Counts
    <2>2. 2 * Size * 0 <= Capacity
        BY DEF UploadsAssumption
    <2> QED BY <2>1, <2>2, FS_EmptySet DEF Covered
<1> QED BY <1>2, <1>3, <1>4, <1>5 DEF UploadInv

(* Every step of the operation under way.                                   *)
LEMMA OperationKeeps ==
    ASSUME UploadInv,
           \/ Create \/ Open \/ CommitStatus \/ Repeat \/ Write \/ Sync \/ Acknowledge
           \/ Reject \/ Stage \/ Copy \/ Intend \/ Publish \/ CompleteCommit
           \/ Discard \/ Release \/ Fail
    PROVE  UploadInv'
<1>1. op # Nothing
    BY DEF OpAt, Create, Open, CommitStatus, Repeat, Write, Sync, Acknowledge, Reject, Stage,
           Copy, Intend, Publish, CompleteCommit, Discard, Release, Fail
<1>2. PICK u : op # Nothing /\ op.u = u
    BY <1>1
<1>3. CASE Create \/ Open \/ CommitStatus \/ Repeat
    BY <1>2, <1>3, CreateKeeps, OpenKeeps, CommitStatusKeeps, RepeatKeeps
<1>4. CASE Write \/ Sync \/ Acknowledge \/ Reject
    BY <1>2, <1>4, WriteKeeps, SyncKeeps, AcknowledgeKeeps, RejectKeeps
<1>5. CASE Stage \/ Copy \/ Intend \/ Publish
    BY <1>2, <1>5, StageKeeps, CopyKeeps, IntendKeeps, PublishKeeps
<1>6. CASE CompleteCommit \/ Discard \/ Release \/ Fail
    BY <1>2, <1>6, CompleteCommitKeeps, DiscardKeeps, ReleaseKeeps, FailKeeps
<1> QED BY <1>3, <1>4, <1>5, <1>6

LEMMA StepKeeps ==
    ASSUME UploadInv, [UploadsNext]_uploadVars
    PROVE  UploadInv'
<1>1. ASSUME NEW u \in Uploads,
             \/ \E p \in Paths : Begin(u, p)
             \/ Status(u) \/ Finish(u) \/ Cleanup(u) \/ Ages(u)
             \/ \E piece \in Pieces, at \in 0..Size : Chunk(u, piece, at)
      PROVE  UploadInv'
    BY <1>1, BeginKeeps, StatusKeeps, FinishKeeps, CleanupKeeps, AgesKeeps, ChunkKeeps
<1>2. CASE \E p \in Paths : OthersWrite(p) \/ OthersRemove(p)
    BY <1>2, OthersKeep
<1>3. CASE Crash
    BY <1>3, CrashKeeps
<1>4. CASE UNCHANGED uploadVars
    <2>1. /\ UNCHANGED <<row, spool, synced, copied, acked, published>>
          /\ dest' = dest /\ op' = op
        BY <1>4 DEF uploadVars
    <2>2. op' \in Op \cup {Nothing} /\ UnderWay'
        BY <2>1 DEF UploadInv, UploadTypes, UnderWay, Receives, Stored
    <2> QED BY <2>1, <2>2, StartKeeps
<1> QED BY <1>1, <1>2, <1>3, <1>4, OperationKeeps DEF UploadsNext

(* The types, what the journal says of each upload, what the operation      *)
(* under way relies on at each step, and the reservation hold always.       *)
THEOREM UploadInvariance == UploadsSpec => []UploadInv
<1>1. UploadsInit => UploadInv
    BY Starting
<1>2. UploadInv /\ [UploadsNext]_uploadVars => UploadInv'
    BY StepKeeps
<1> QED BY <1>1, <1>2, PTL DEF UploadsSpec

(* An acknowledged piece is in the spool, in its place and synced, until    *)
(* the upload ends (incoming_uploads.py:310-319, 401-414).                  *)
THEOREM AcknowledgedPiecesLast == UploadsSpec => []AcknowledgedKept
<1>1. ASSUME UploadInv
      PROVE  AcknowledgedKept
    <2>1. SUFFICES ASSUME NEW u \in Uploads, row[u] # Nothing, row[u].state = "receiving",
                          row[u].known, row[u].age = 0
                   PROVE  /\ row[u].received = Len(acked[u])
                          /\ synced[u] >= row[u].received
                          /\ SubSeq(spool[u], 1, row[u].received) = acked[u]
        BY DEF AcknowledgedKept
    <2>2. /\ row[u].received = Len(acked[u]) /\ Stored(u) /\ acked[u] \in Seq(Pieces)
          /\ spool[u] \in Seq(Pieces)
        BY <1>1, <2>1 DEF UploadInv, Journal, Receives, UploadTypes, Stored
    <2>3. PICK n, s, a : n = Len(acked[u]) /\ s = spool[u] /\ a = acked[u]
        OBVIOUS
    <2>4. /\ n \in Nat /\ n <= Len(s) /\ s \in Seq(Pieces) /\ a \in Seq(Pieces) /\ Len(a) = n
          /\ \A i \in 1..n : s[i] = a[i]
        BY <2>2, <2>3 DEF Stored
    <2>5. SubSeq(s, 1, n) = a
        <3>1. PICK t : t = SubSeq(s, 1, n)
            OBVIOUS
        <3>2. t \in Seq(Pieces) /\ Len(t) = n /\ \A i \in 1..n : t[i] = a[i]
            BY <2>4, <3>1, PrefixOf
        <3>3. t = a
            BY <2>4, <3>2, SeqEqual
        <3> QED BY <3>1, <3>3
    <2> QED BY <2>2, <2>3, <2>5 DEF Stored
<1> QED BY <1>1, UploadInvariance, PTL

(* However often it is interrupted and repeated, an upload is published at  *)
(* most once, whole, and before its completion is reported                  *)
(* (incoming_uploads.py:470-487).                                           *)
THEOREM PublicationHappensOnce == UploadsSpec => []PublishedOnce
<1>1. UploadInv => PublishedOnce
    BY DEF UploadInv, PublishedOnce, UploadTypes, Journal
<1> QED BY <1>1, UploadInvariance, PTL

----------------------------------------------------------------------------
(* A set of naturals has a least member.                                    *)
LEMMA Least ==
    ASSUME NEW T, T \subseteq Nat, T # {}
    PROVE  \E n \in T : \A m \in T : n <= m
<1>1. PICK n \in T : \A m \in T : <<m, n>> \notin OpToRel(<, Nat)
    BY NatLessThanWellFounded, WFMin
<1>2. \A m \in T : ~(m < n)
    BY <1>1 DEF OpToRel
<1> QED BY <1>2

(* The sum of F over a set, one member after the other, as a function of    *)
(* the sets of D: what a fold over a finite set computes.                   *)
One(s) == CHOOSE x \in s : TRUE
Sums(F, h, D) ==
    \A s \in D : h[s] = IF s = {} THEN 0 ELSE F[One(s)] + h[s \ {One(s)}]
Level(S, n) == {s \in SUBSET S : Cardinality(s) <= n}

LEMMA OneLess ==
    ASSUME NEW S, IsFiniteSet(S), NEW s \in SUBSET S, s # {}
    PROVE  /\ One(s) \in s /\ One(s) \in S /\ s \ {One(s)} \in SUBSET S
           /\ IsFiniteSet(s) /\ IsFiniteSet(s \ {One(s)})
           /\ Cardinality(s) \in Nat /\ Cardinality(s \ {One(s)}) \in Nat
           /\ Cardinality(s \ {One(s)}) = Cardinality(s) - 1
<1>1. One(s) \in s
    BY DEF One
<1>2. IsFiniteSet(s)
    BY FS_Subset
<1> QED BY <1>1, <1>2, FS_RemoveElement, FS_CardinalityType

LEMMA SumsExist ==
    ASSUME NEW S, IsFiniteSet(S), NEW F \in [S -> Nat], NEW n \in Nat
    PROVE  \E h \in [Level(S, n) -> Nat] : Sums(F, h, Level(S, n))
<1> DEFINE P(m) == \E h \in [Level(S, m) -> Nat] : Sums(F, h, Level(S, m))
           T == {m \in Nat : ~P(m)}
<1>1. SUFFICES ASSUME T # {} PROVE FALSE
    BY DEF T
<1>2. PICK m \in T : \A k \in T : m <= k
    BY <1>1, Least
<1>3. CASE m = 0
    <2>1. ASSUME NEW s \in Level(S, 0) PROVE s = {}
        BY <2>1, FS_Subset, FS_CardinalityType, FS_EmptySet DEF Level
    <2>2. [s \in Level(S, 0) |-> 0] \in [Level(S, 0) -> Nat]
        OBVIOUS
    <2>3. Sums(F, [s \in Level(S, 0) |-> 0], Level(S, 0))
        BY <2>1 DEF Sums
    <2> QED BY <1>3, <2>2, <2>3
<1>4. CASE m # 0
    <2>1. m - 1 \in Nat /\ m - 1 \notin T /\ m \in Nat
        BY <1>2, <1>4
    <2>2. PICK h \in [Level(S, m - 1) -> Nat] : Sums(F, h, Level(S, m - 1))
        BY <2>1
    <2> DEFINE e == [s \in Level(S, m) |->
                        IF s = {} THEN 0 ELSE F[One(s)] + h[s \ {One(s)}]]
    <2>3. ASSUME NEW s \in Level(S, m), s # {}
          PROVE  /\ One(s) \in S /\ s \ {One(s)} \in Level(S, m - 1)
                 /\ s \ {One(s)} \in Level(S, m)
        <3>1. s \in SUBSET S /\ Cardinality(s) <= m
            BY <2>3 DEF Level
        <3>2. /\ One(s) \in S /\ s \ {One(s)} \in SUBSET S
              /\ Cardinality(s) \in Nat /\ Cardinality(s \ {One(s)}) \in Nat
              /\ Cardinality(s \ {One(s)}) = Cardinality(s) - 1
            BY <2>3, <3>1, OneLess
        <3>3. PICK c, d : c = Cardinality(s) /\ d = Cardinality(s \ {One(s)})
            OBVIOUS
        <3>4. d <= m - 1 /\ d <= m
            BY <2>1, <3>1, <3>2, <3>3
        <3> QED BY <3>2, <3>3, <3>4 DEF Level
    <2>4. e \in [Level(S, m) -> Nat]
        <3>1. ASSUME NEW s \in Level(S, m) PROVE e[s] \in Nat
            <4>1. CASE s = {}
                BY <4>1
            <4>2. CASE s # {}
                <5>1. F[One(s)] \in Nat /\ h[s \ {One(s)}] \in Nat
                    BY <2>2, <2>3, <3>1, <4>2
                <5> QED BY <4>2, <5>1
            <4> QED BY <4>1, <4>2
        <3> QED BY <3>1
    <2>5. ASSUME NEW t \in Level(S, m - 1), t \in Level(S, m) PROVE e[t] = h[t]
        BY <2>2, <2>5 DEF Sums
    <2>6. Sums(F, e, Level(S, m))
        BY <2>3, <2>5 DEF Sums
    <2>7. P(m)
        BY <2>4, <2>6
    <2> QED BY <2>7
<1> QED BY <1>3, <1>4

(* If F is at most b on the set C and zero outside, the sum over s is at    *)
(* most b for every member of s in C.                                       *)
LEMMA SumBounded ==
    ASSUME NEW S, IsFiniteSet(S), NEW C \in SUBSET S, NEW F \in [S -> Nat], NEW b \in Nat,
           \A x \in S : F[x] <= b /\ (x \notin C => F[x] = 0),
           NEW g, Sums(F, g, SUBSET S)
    PROVE  \A s \in SUBSET S : g[s] \in Nat /\ g[s] <= b * Cardinality(s \cap C)
<1> DEFINE Q(s) == g[s] \in Nat /\ g[s] <= b * Cardinality(s \cap C)
           T == {Cardinality(s) : s \in {r \in SUBSET S : ~Q(r)}}
<1>1. SUFFICES ASSUME T # {} PROVE FALSE
    OBVIOUS
<1>2. T \subseteq Nat
    BY FS_Subset, FS_CardinalityType
<1>3. PICK n \in T : \A k \in T : n <= k
    BY <1>1, <1>2, Least
<1>4. PICK s \in SUBSET S : ~Q(s) /\ Cardinality(s) = n
    BY <1>3
<1>5. IsFiniteSet(s \cap C) /\ Cardinality(s \cap C) \in Nat
    BY FS_Subset, FS_CardinalityType
<1>6. CASE s = {}
    <2>1. g[s] = 0 /\ Cardinality(s \cap C) = 0
        BY <1>6, FS_EmptySet DEF Sums
    <2> QED BY <1>4, <2>1
<1>7. CASE s # {}
    <2>1. PICK x, t : x = One(s) /\ t = s \ {x}
        OBVIOUS
    <2>2. /\ x \in s /\ x \in S /\ t \in SUBSET S /\ g[s] = F[x] + g[t]
          /\ Cardinality(t) = Cardinality(s) - 1 /\ Cardinality(s) \in Nat
          /\ Cardinality(t) \in Nat
        BY <1>7, <2>1, OneLess DEF Sums
    <2>3. Q(t)
        <3>1. ~(n <= Cardinality(t))
            BY <1>4, <2>2
        <3> QED BY <1>3, <2>2, <3>1
    <2>4. IsFiniteSet(t \cap C) /\ Cardinality(t \cap C) \in Nat
        BY <2>2, FS_Subset, FS_CardinalityType
    <2>5. CASE x \in C
        <3>1. t \cap C = (s \cap C) \ {x} /\ x \in s \cap C
            BY <2>1, <2>2, <2>5
        <3>2. Cardinality(t \cap C) = Cardinality(s \cap C) - 1
            <4>1. PICK r : r = s \cap C
                OBVIOUS
            <4>2. Cardinality(r \ {x}) = Cardinality(r) - 1
                BY <1>5, <3>1, <4>1, FS_RemoveElement
            <4> QED BY <3>1, <4>1, <4>2
        <3>3. F[x] \in Nat /\ F[x] <= b
            BY <2>2
        <3>4. \A k \in Nat, i \in Nat, j \in Nat :
                 k # 0 /\ i <= b /\ j <= b * (k - 1) => i + j \in Nat /\ i + j <= b * k
            <4>1. \A k \in Nat : b * (k - 1) = b * k - b /\ b * k \in Nat
                OBVIOUS
            <4> QED BY <4>1
        <3>5. Cardinality(s \cap C) # 0
            BY <2>4, <3>2
        <3> QED BY <1>4, <1>5, <2>2, <2>3, <3>2, <3>3, <3>4, <3>5
    <2>6. CASE x \notin C
        <3>1. t \cap C = s \cap C
            BY <2>1, <2>6
        <3>2. g[s] = g[t]
            BY <2>2, <2>3, <2>6
        <3> QED BY <1>4, <2>3, <3>1, <3>2
    <2> QED BY <2>5, <2>6
<1> QED BY <1>6, <1>7


(* The pieces on disk for an upload: two files at most, of a counted one.   *)
Held(u) == (IF spool[u] = Nothing THEN 0 ELSE Len(spool[u])) + copied[u]

LEMMA HeldWithinReservation ==
    ASSUME UploadInv, NEW u \in Uploads
    PROVE  Held(u) \in Nat /\ Held(u) <= 2 * Size /\ (u \notin Counted => Held(u) = 0)
<1>1. /\ Journal(u) /\ copied[u] \in {0, Size} /\ Size \in Nat
      /\ row[u] # Nothing => row[u] \in Row
      /\ spool[u] # Nothing => Len(spool[u]) \in Nat
    BY Exists DEF UploadInv, UploadsAssumption
<1>2. spool[u] # Nothing => Len(spool[u]) <= Size
    BY <1>1 DEF Journal
<1>3. Held(u) \in Nat /\ Held(u) <= 2 * Size
    BY <1>1, <1>2 DEF Held
<1>4. ~Counts(u) => spool[u] = Nothing /\ copied[u] = 0
    BY <1>1 DEF Journal, Counts, Row
<1> QED BY <1>3, <1>4 DEF Held, Counted

(* Spools and staging files together stay within the capacity that begin    *)
(* reserves against, the files of interrupted uploads included: the sum of  *)
(* what the uploads hold is at most what the counted ones reserve           *)
(* (incoming_uploads.py:342-357, 443-457, 526-534).                         *)
THEOREM SpaceIsReserved == UploadsSpec => []SpaceReserved
<1>1. ASSUME UploadInv
      PROVE  SpaceReserved
    <2> DEFINE Total == CHOOSE g : g = [s \in SUBSET Uploads |->
                  IF s = {} THEN 0
                  ELSE LET x == CHOOSE x \in s : TRUE IN
                       ((IF spool[x] = Nothing THEN 0 ELSE Len(spool[x])) + copied[x]) + g[s \ {x}]]
    <2>1. PICK F : F = [u \in Uploads |-> Held(u)]
        OBVIOUS
    <2>2. PICK C : C = Counted
        OBVIOUS
    <2>3. /\ IsFiniteSet(Uploads) /\ F \in [Uploads -> Nat] /\ C \in SUBSET Uploads
          /\ 2 * Size \in Nat /\ \A u \in Uploads : F[u] = Held(u)
          /\ \A u \in Uploads : F[u] <= 2 * Size /\ (u \notin C => F[u] = 0)
        BY <1>1, <2>1, <2>2, HeldWithinReservation DEF Counted, UploadsAssumption
    <2>4. PICK h : Sums(F, h, SUBSET Uploads) /\ h \in [SUBSET Uploads -> Nat]
        <3>1. PICK n : n = Cardinality(Uploads)
            OBVIOUS
        <3>2. n \in Nat /\ Level(Uploads, n) = SUBSET Uploads
            BY <2>3, <3>1, FS_Subset, FS_CardinalityType DEF Level
        <3>3. PICK h \in [Level(Uploads, n) -> Nat] : Sums(F, h, Level(Uploads, n))
            BY <2>3, <3>2, SumsExist
        <3> QED BY <3>2, <3>3
    <2>5. \A s \in SUBSET Uploads : s # {} => One(s) \in Uploads
        BY DEF One
    <2>6. h = [s \in SUBSET Uploads |->
                  IF s = {} THEN 0
                  ELSE LET x == CHOOSE x \in s : TRUE IN
                       ((IF spool[x] = Nothing THEN 0 ELSE Len(spool[x])) + copied[x]) + h[s \ {x}]]
        <3>1. \A s \in SUBSET Uploads : h[s] = IF s = {} THEN 0 ELSE Held(One(s)) + h[s \ {One(s)}]
            BY <2>3, <2>4, <2>5 DEF Sums
        <3> QED BY <2>4, <3>1 DEF One, Held
    <2>7. Total = [s \in SUBSET Uploads |->
                  IF s = {} THEN 0
                  ELSE LET x == CHOOSE x \in s : TRUE IN
                       ((IF spool[x] = Nothing THEN 0 ELSE Len(spool[x])) + copied[x]) + Total[s \ {x}]]
        <3>1. \E g : g = [s \in SUBSET Uploads |->
                  IF s = {} THEN 0
                  ELSE LET x == CHOOSE x \in s : TRUE IN
                       ((IF spool[x] = Nothing THEN 0 ELSE Len(spool[x])) + copied[x]) + g[s \ {x}]]
            BY <2>6
        <3> QED BY <3>1
    <2>8. SpaceReserved <=> Total[Uploads] <= Capacity
        BY DEF SpaceReserved, MapThenSumSet, MapThenFoldSet
    <2>9. PICK g : g = Total
        OBVIOUS
    <2> HIDE DEF Total
    <2>10. Sums(F, g, SUBSET Uploads)
        <3>1. \A s \in SUBSET Uploads : g[s] = IF s = {} THEN 0 ELSE Held(One(s)) + g[s \ {One(s)}]
            BY <2>7, <2>9 DEF One, Held
        <3> QED BY <2>3, <2>5, <3>1 DEF Sums
    <2>11. g[Uploads] \in Nat /\ g[Uploads] <= 2 * Size * Cardinality(Uploads \cap C)
        BY <2>3, <2>10, SumBounded
    <2>12. Uploads \cap C = Counted /\ 2 * Size * Cardinality(Counted) <= Capacity
        BY <1>1, <2>2 DEF UploadInv, Covered, Counted
    <2>13. Cardinality(Counted) \in Nat
        BY <2>2, <2>3, FS_Subset, FS_CardinalityType
    <2>14. PICK m : m = 2 * Size * Cardinality(Counted)
        OBVIOUS
    <2>15. g[Uploads] \in Nat /\ g[Uploads] <= m
        BY <2>11, <2>12, <2>14
    <2>16. m \in Nat /\ m <= Capacity /\ Capacity \in Nat
        BY <2>12, <2>13, <2>14 DEF UploadsAssumption
    <2> QED BY <2>8, <2>9, <2>15, <2>16
<1> QED BY <1>1, UploadInvariance, PTL
=============================================================================
