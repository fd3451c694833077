----------------------------- MODULE KeyRotation -----------------------------
(***************************************************************************)
(* Rotation of the Hub's encryption key (rotate_key in src/hub/keyring.py).*)
(*                                                                         *)
(* The rotation is an offline command that writes four files and the       *)
(* database one after the other and may be killed before each write.  An   *)
(* operator resumes it, tries a new one, or starts the Hub first, which    *)
(* then writes rows with whatever keys it finds on disk.                   *)
(*                                                                         *)
(* A rotation is identified by the key it generates; the directory of a    *)
(* rotation, its journal entry and its staged ring go under that name.     *)
(***************************************************************************)
EXTENDS Naturals, FiniteSets

CONSTANTS
    Keys,        \* keys that may ever be generated
    Rows,        \* encrypted fields of the database
    None         \* no key, no file, an empty field

(* What is in a ring, in the journal and in a field.                       *)
Rings    == {r \in [active : Keys, keys : SUBSET Keys] : r.active \in r.keys}
Stages   == {"prepared", "keyring_published", "database_committed", "legacy_key_replaced",
             "complete"}
Journals == [active : Keys, stage : Stages]
Fields   == [versioned : BOOLEAN, key : Keys]

ASSUME NoneAssumption == None \notin Rings \cup Journals \cup Fields

VARIABLES
    legacy,      \* master.key
    ring,        \* master.keys.json: [active, keys], or None
    journal,     \* rekey.json: [active, stage], or None
    staged,      \* the next-keyring.json of each rotation, or None
    rows,        \* each field: [versioned, key], or None
    born,        \* keys generated so far
    lock,        \* who holds .hub.lock: "nobody", "hub" or "rotation"
    cipher,      \* the CipherSuite of that process
    pc,          \* the write that the rotation does next
    plan         \* its ring: [active, keys]

disk == <<legacy, ring, journal, staged, rows>>
process == <<lock, cipher, pc, plan>>
vars == <<disk, born, process>>

----------------------------------------------------------------------------
(* CipherSuite: loaded from the disk once, by each process.                *)
Suite(master, keyring) ==
    IF keyring = None
    THEN [versioned |-> FALSE, legacy |-> master, active |-> master, keys |-> {master}]
    ELSE [versioned |-> TRUE, legacy |-> master, active |-> keyring.active,
          keys |-> keyring.keys]

Encrypt(suite) == [versioned |-> suite.versioned, key |-> suite.active]

Decrypts(suite, field) ==
    IF field.versioned THEN field.key \in suite.keys ELSE field.key = suite.legacy

Unfinished == journal # None /\ journal.stage # "complete"

Init ==
    /\ legacy \in Keys
    /\ ring = None
    /\ journal = None
    /\ staged = [k \in Keys |-> None]
    /\ rows = [r \in Rows |-> None]
    /\ born = {legacy}
    /\ lock = "nobody" /\ cipher = None /\ pc = "off" /\ plan = None

----------------------------------------------------------------------------
(* An ordinary start of the Hub: the journal is not looked at.             *)
HubStarts ==
    /\ lock = "nobody"
    /\ lock' = "hub"
    /\ cipher' = Suite(legacy, ring)
    /\ UNCHANGED <<disk, born, pc, plan>>

HubWrites(r) ==
    /\ lock = "hub"
    /\ rows' = [rows EXCEPT ![r] = Encrypt(cipher)]
    /\ UNCHANGED <<legacy, ring, journal, staged, born, process>>

HubDeletes(r) ==
    /\ lock = "hub" /\ rows[r] # None
    /\ rows' = [rows EXCEPT ![r] = None]
    /\ UNCHANGED <<legacy, ring, journal, staged, born, process>>

(* The process ends or is killed, wherever it is; the locks go with it.    *)
Killed ==
    /\ lock # "nobody"
    /\ lock' = "nobody" /\ cipher' = None /\ pc' = "off" /\ plan' = None
    /\ UNCHANGED <<disk, born>>

----------------------------------------------------------------------------
(* rekey: backs up, generates a key, and plans a ring with every key that  *)
(* is readable now.                                                        *)
RotateAlone ==   \* mutant of Rotate: plans a ring of the fresh key only
    /\ lock = "nobody" /\ ~Unfinished
    /\ \E fresh \in Keys \ born :
        /\ lock' = "rotation"
        /\ cipher' = Suite(legacy, ring)
        /\ plan' = [active |-> fresh, keys |-> {fresh}]
        /\ born' = born \cup {fresh}
        /\ pc' = "stage"
        /\ UNCHANGED disk

Rotate ==
    /\ lock = "nobody" /\ ~Unfinished
    /\ \E fresh \in Keys \ born :
        /\ lock' = "rotation"
        /\ cipher' = Suite(legacy, ring)
        /\ plan' = [active |-> fresh, keys |-> Suite(legacy, ring).keys \cup {legacy, fresh}]
        /\ born' = born \cup {fresh}
        /\ pc' = "stage"
        /\ UNCHANGED disk

(* rekey --resume: the staged ring again, and then every write again,      *)
(* whatever stage the journal names.                                       *)
Resume ==
    /\ lock = "nobody" /\ Unfinished
    /\ staged[journal.active] # None /\ staged[journal.active].active = journal.active
    /\ lock' = "rotation"
    /\ cipher' = Suite(legacy, ring)
    /\ plan' = staged[journal.active]
    /\ pc' = "publish"
    /\ UNCHANGED <<disk, born>>

Step(here, next) == lock = "rotation" /\ pc = here /\ pc' = next

Note(stage) == journal' = [active |-> plan.active, stage |-> stage]

StageRing ==
    /\ Step("stage", "prepare")
    /\ staged' = [staged EXCEPT ![plan.active] = plan]
    /\ UNCHANGED <<legacy, ring, journal, rows, born, lock, cipher, plan>>

Record(here, next, stage) ==
    /\ Step(here, next)
    /\ Note(stage)
    /\ UNCHANGED <<legacy, ring, staged, rows, born, lock, cipher, plan>>

PublishRing ==
    /\ Step("publish", "published")
    /\ ring' = plan
    /\ UNCHANGED <<legacy, journal, staged, rows, born, lock, cipher, plan>>

(* The suite is loaded again, and one transaction encrypts every field     *)
(* with the new key; a field that it cannot read undoes all of it and the  *)
(* command fails.                                                          *)
ReencryptBare ==   \* mutant of Reencrypt: leaves what is versioned already
    /\ Step("encrypt", "committed")
    /\ LET suite == Suite(legacy, ring) IN
        /\ cipher' = suite
        /\ \A r \in Rows : rows[r] # None => Decrypts(suite, rows[r])
        /\ rows' = [r \in Rows |-> IF rows[r] = None \/ rows[r].versioned
                                   THEN rows[r] ELSE Encrypt(suite)]
    /\ UNCHANGED <<legacy, ring, journal, staged, born, lock, plan>>

Reencrypt ==
    /\ Step("encrypt", "committed")
    /\ LET suite == Suite(legacy, ring) IN
        /\ cipher' = suite
        /\ \A r \in Rows : rows[r] # None => Decrypts(suite, rows[r])
        /\ rows' = [r \in Rows |-> IF rows[r] = None THEN None ELSE Encrypt(suite)]
    /\ UNCHANGED <<legacy, ring, journal, staged, born, lock, plan>>

ReplaceLegacy ==
    /\ Step("replace", "replaced")
    /\ legacy' = plan.active
    /\ UNCHANGED <<ring, journal, staged, rows, born, lock, cipher, plan>>

TrimRing ==
    /\ Step("trim", "done")
    /\ ring' = [active |-> plan.active, keys |-> {plan.active}]
    /\ UNCHANGED <<legacy, journal, staged, rows, born, lock, cipher, plan>>

RotationStepNoted ==   \* mutant of RotationStep: the journal before the staged ring
    \/ /\ Step("stage", "stage2") /\ Note("prepared")
       /\ UNCHANGED <<legacy, ring, staged, rows, born, lock, cipher, plan>>
    \/ /\ Step("stage2", "publish")
       /\ staged' = [staged EXCEPT ![plan.active] = plan]
       /\ UNCHANGED <<legacy, ring, journal, rows, born, lock, cipher, plan>>
    \/ PublishRing
    \/ Record("published", "encrypt", "keyring_published")
    \/ Reencrypt
    \/ Record("committed", "replace", "database_committed")
    \/ ReplaceLegacy
    \/ Record("replaced", "trim", "legacy_key_replaced")
    \/ TrimRing
    \/ Record("done", "off", "complete")

RotationStep ==
    \/ StageRing
    \/ Record("prepare", "publish", "prepared")
    \/ PublishRing
    \/ Record("published", "encrypt", "keyring_published")
    \/ Reencrypt
    \/ Record("committed", "replace", "database_committed")
    \/ ReplaceLegacy
    \/ Record("replaced", "trim", "legacy_key_replaced")
    \/ TrimRing
    \/ Record("done", "off", "complete")

Next ==
    \/ HubStarts
    \/ \E r \in Rows : HubWrites(r) \/ HubDeletes(r)
    \/ Killed
    \/ Rotate
    \/ Resume
    \/ RotationStep

Spec == Init /\ [][Next]_vars

----------------------------------------------------------------------------
TypeOK ==
    /\ legacy \in Keys
    /\ ring \in Rings \cup {None}
    /\ journal \in Journals \cup {None}
    /\ staged \in [Keys -> Rings \cup {None}]
    /\ \A k \in Keys : staged[k] # None => staged[k].active = k
    /\ rows \in [Rows -> Fields \cup {None}]
    /\ born \subseteq Keys
    /\ lock \in {"nobody", "hub", "rotation"}
    /\ pc # "off" => lock = "rotation" /\ plan \in Rings

(* Nothing is ever lost: kill everything now, and a process that loads the *)
(* two key files as they are reads every field of the database, whichever  *)
(* of the processes that came before wrote it (keyring.py:263-301).        *)
Readable ==
    \A r \in Rows : rows[r] # None => Decrypts(Suite(legacy, ring), rows[r])

(* An interrupted rotation can be carried on: what the journal names is    *)
(* staged whole, and republishing that ring over whatever the interrupted  *)
(* run left, and whatever the Hub wrote meanwhile, leaves every field      *)
(* readable, so that the transaction cannot fail                           *)
(* (keyring.py:238-243, 263-288).                                          *)
Resumable ==
    Unfinished =>
        /\ staged[journal.active] # None
        /\ \A r \in Rows :
            rows[r] # None => Decrypts(Suite(legacy, staged[journal.active]), rows[r])

(* A rotation that is complete has retired the old keys: outside its       *)
(* backup no file holds one and no field needs one, so a leak of an old    *)
(* key discloses nothing that the Hub still keeps (keyring.py:297-301).    *)
Retired ==
    (journal # None /\ journal.stage = "complete") =>
        /\ legacy = journal.active
        /\ ring = [active |-> legacy, keys |-> {legacy}]
        /\ \A r \in Rows : rows[r] # None => rows[r] = Encrypt(Suite(legacy, ring))

=============================================================================
