----------------------------- MODULE StoreReads -----------------------------
(***************************************************************************)
(* How a read of the Hub's database decides (_read_phase of                *)
(* src/hub/store.py).  Reads run on threads of their own, each over a      *)
(* snapshot, beside the one thread that writes and beside other processes  *)
(* that do.  What a read decides is what its snapshot grants, so a change  *)
(* of sessions, grants, roles or projects meanwhile makes it start again;  *)
(* its last pass keeps the writer out.                                     *)
(*                                                                         *)
(* StoreWorker has the thread that writes and the callers; a read of that  *)
(* module, from Read to its end, is one read of this one.                  *)
(***************************************************************************)
EXTENDS Naturals

CONSTANTS
    Readers,     \* read threads
    Passes,      \* the 4 attempts
    Writes       \* bound: commits, and writes of this process, that are explored

ASSUME PassesAssumption == Passes \in Nat \ {0}

VARIABLES
    authority,   \* committed changes of what a decision depends on
    version,     \* data_version: commits of any kind, seen by every reader
    revision,    \* session_revision
    writing,     \* the transaction of the thread that writes
    fenced,      \* readers that hold _writer_lock
    read,        \* what each reader does
    outside      \* history: other processes committed during the pass

readsVars == <<authority, version, revision, writing, fenced, read, outside>>
database  == <<authority, version>>
writer    == <<revision, writing>>

(* Nothing; _writer_lock held and nothing written; written, with or without *)
(* a statement that names a table of the security model.                    *)
Writings == {"idle", "locked", "plain", "security"}

(* No read; about to make a pass; its values noted; in its snapshot;        *)
(* decided; looked at the version again; waiting for its audits.            *)
Places == {"away", "enter", "noted", "begun", "decided", "checked", "audit"}

(* before and after are the two looks at the version, seen is what the      *)
(* snapshot had.  current is history: that was what was committed when the  *)
(* reader looked again.                                                     *)
ReadRec ==
    [at : Places, pass : 1..Passes, revision : Nat, before : Nat, seen : Nat, after : Nat,
     audits : BOOLEAN, current : BOOLEAN, outcome : {"none", "value", "error", "refused"}]

NoRead == [at |-> "away", pass |-> 1, revision |-> 0, before |-> 0, seen |-> 0, after |-> 0,
           audits |-> FALSE, current |-> FALSE, outcome |-> "none"]

ReadsInit ==
    /\ authority = 0 /\ version = 0 /\ revision = 0
    /\ writing = "idle" /\ fenced = {}
    /\ read = [r \in Readers |-> NoRead]
    /\ outside = [r \in Readers |-> FALSE]

Unlocked == writing = "idle" /\ fenced = {}

----------------------------------------------------------------------------
(* The thread that writes: _writer_lock, statements, commit or rollback.    *)
LockWriter ==
    /\ Unlocked
    /\ writing' = "locked"
    /\ UNCHANGED <<database, revision, fenced, read, outside>>

WriteRow ==
    /\ writing \in {"locked", "plain"}
    /\ \/ writing' = "plain" /\ UNCHANGED revision
       \/ writing' = "security" /\ revision < Writes /\ revision' = revision + 1
    /\ UNCHANGED <<database, fenced, read, outside>>

Commits(secure) ==
    /\ version < Writes
    /\ version' = version + 1
    /\ authority' = IF secure THEN authority + 1 ELSE authority

Commit ==
    /\ writing \in {"plain", "security"}
    /\ Commits(writing = "security")
    /\ writing' = "idle"
    /\ UNCHANGED <<revision, fenced, read, outside>>

Rollback ==
    /\ writing # "idle"
    /\ writing' = "idle"
    /\ UNCHANGED <<database, revision, fenced, read, outside>>

(* Another process; SQLite has one writer at a time.                        *)
CommitOutside ==
    /\ writing \in {"idle", "locked"}
    /\ \E secure \in BOOLEAN : Commits(secure)
    /\ outside' = [r \in Readers |-> TRUE]
    /\ UNCHANGED <<writer, fenced, read>>

----------------------------------------------------------------------------
(* One pass, up to each point where a commit may come between.              *)
At(r, place) == read[r].at = place

StartRead(r) ==
    /\ At(r, "away")
    /\ read' = [read EXCEPT ![r] = [NoRead EXCEPT !.at = "enter"]]
    /\ UNCHANGED <<database, writer, fenced, outside>>

Fence(r) ==
    IF read[r].pass = Passes
    THEN Unlocked /\ fenced' = fenced \cup {r}
    ELSE UNCHANGED fenced

EnterPass(r) ==
    /\ At(r, "enter")
    /\ Fence(r)
    /\ read' = [read EXCEPT ![r].at = "noted", ![r].revision = revision, ![r].audits = FALSE]
    /\ outside' = [outside EXCEPT ![r] = FALSE]
    /\ UNCHANGED <<database, writer>>

NoteVersion(r) ==
    /\ At(r, "noted")
    /\ read' = [read EXCEPT ![r].at = "begun", ![r].before = version]
    /\ UNCHANGED <<database, writer, fenced, outside>>

Leaves(r, outcome, audits) ==
    /\ read' = [read EXCEPT ![r] =
            [NoRead EXCEPT !.at = IF audits THEN "audit" ELSE "away",
                           !.outcome = outcome, !.current = read[r].current]]
    /\ fenced' = fenced \ {r}

(* The call, over one snapshot: it has a value, or raises, which ends the   *)
(* read whatever has changed; either may have recorded denials.             *)
Decide(r) ==
    /\ At(r, "begun")
    /\ \E audits \in BOOLEAN :
        read' = [read EXCEPT ![r].at = "decided", ![r].seen = authority, ![r].audits = audits]
    /\ UNCHANGED <<database, writer, fenced, outside>>

Raise(r) ==
    /\ At(r, "begun")
    /\ \E audits \in BOOLEAN : Leaves(r, "error", audits)
    /\ UNCHANGED <<database, writer, outside>>

LookAgain(r) ==
    /\ At(r, "decided")
    /\ read' = [read EXCEPT ![r].at = "checked", ![r].after = version,
                            ![r].current = (read[r].seen = authority)]
    /\ UNCHANGED <<database, writer, fenced, outside>>

SameRevision(r) == read[r].revision = revision   \* mutant of Valid: not the version
Valid(r) == read[r].revision = revision /\ read[r].before = read[r].after

Accept(r) ==
    /\ At(r, "checked") /\ Valid(r)
    /\ Leaves(r, "value", read[r].audits)
    /\ UNCHANGED <<database, writer, outside>>

Retry(r) ==
    /\ At(r, "checked") /\ ~Valid(r) /\ read[r].pass < Passes
    /\ read' = [read EXCEPT ![r].at = "enter", ![r].pass = @ + 1]
    /\ UNCHANGED <<database, writer, fenced, outside>>

Refuse(r) ==
    /\ At(r, "checked") /\ ~Valid(r) /\ read[r].pass = Passes
    /\ Leaves(r, "refused", read[r].audits)
    /\ UNCHANGED <<database, writer, outside>>

(* The denials of the last pass are written by the other thread, which the  *)
(* reader waits for without its fence.                                      *)
WriteAudits(r) ==
    /\ At(r, "audit") /\ Unlocked
    /\ Commits(FALSE)
    /\ read' = [read EXCEPT ![r].at = "away"]
    /\ UNCHANGED <<writer, fenced, outside>>

ReadsNext ==
    \/ LockWriter \/ WriteRow \/ Commit \/ Rollback \/ CommitOutside
    \/ \E r \in Readers :
        \/ StartRead(r) \/ EnterPass(r) \/ NoteVersion(r) \/ Decide(r) \/ Raise(r)
        \/ LookAgain(r) \/ Accept(r) \/ Retry(r) \/ Refuse(r) \/ WriteAudits(r)

ReadsSpec == ReadsInit /\ [][ReadsNext]_readsVars

----------------------------------------------------------------------------
ReadsTypeOK ==
    /\ {authority, version, revision} \subseteq Nat
    /\ writing \in Writings
    /\ fenced \subseteq Readers
    /\ read \in [Readers -> ReadRec]
    /\ outside \in [Readers -> BOOLEAN]

(* A value is returned only when what it was decided on was still what is   *)
(* committed after the decision; a read is refused only when another        *)
(* process kept committing, never for what this process writes, since the   *)
(* last pass keeps it out (store.py:143-160).                               *)
DecisionIsCurrent ==
    \A r \in Readers : read[r].outcome = "value" => read[r].current

RefusedFromOutside ==
    \A r \in Readers : read[r].outcome = "refused" => outside[r]

ReadsAreSound == DecisionIsCurrent /\ RefusedFromOutside

=============================================================================
