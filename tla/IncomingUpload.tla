--------------------------- MODULE IncomingUpload ---------------------------
(***************************************************************************)
(* Resumable uploads into a project (class IncomingUploads in              *)
(* src/agent/incoming_uploads.py and AnchoredDestination in                *)
(* src/agent/incoming_artifacts.py).                                       *)
(*                                                                         *)
(* One lock makes the operations follow one another, so what can go wrong  *)
(* is an operation that ends in its middle: an exception rolls back the    *)
(* journal but not the files; a crash also leaves the staging file and may *)
(* lose what was not synced.  Other programs write to the project.         *)
(*                                                                         *)
(* A file is Size pieces.  An operation is op: what it does to which       *)
(* upload, the step it does next, and what it has not committed yet.       *)
(***************************************************************************)
EXTENDS Naturals, Sequences, FiniteSetsExt

CONSTANTS
    Uploads,     \* upload numbers
    Paths,       \* destinations
    Size,        \* pieces of a file, each within CHUNK_BYTES
    Capacity,    \* RESERVED_BYTES, in pieces
    Active,      \* NODE_UPLOADS
    Nothing

VARIABLES
    row,         \* journal: [path, state, received, named, known, age], or Nothing
    spool,       \* <upload>.part: the pieces in it, or Nothing
    synced,      \* pieces of the spool that a power failure leaves
    copied,      \* pieces in staging files of the upload, in the project
    dest,        \* each path: the upload published there, "other" or Nothing
    op,          \* the operation under way, or Nothing
    acked,       \* history: the pieces acknowledged to the client
    published    \* history: publications since the upload began

uploadVars == <<row, spool, synced, copied, dest, op, acked, published>>

Pieces == {"right", "wrong"}

(* A row of incoming_uploads, and an operation under way.                  *)
Row == [path : Paths, state : {"receiving", "failed", "staging", "publishing", "complete"},
        received : 0..Size, named : BOOLEAN, known : BOOLEAN, age : 0..2]

Work == {"open", "status", "chunk", "sync", "acknowledge", "finish"}   \* on the spool
Op   == [kind : {"status", "chunk", "finish", "cleanup"}, u : Uploads,
         piece : Pieces \cup {Nothing}, at : 0..Size, known : BOOLEAN,
         pc : Work \cup {"copy", "intend", "publish", "complete", "discard", "release"}]

ASSUME UploadsAssumption ==
    /\ Size \in Nat /\ Capacity \in Nat /\ IsFiniteSet(Uploads)
    /\ Nothing \notin Row \cup Op \cup Seq(Pieces)

----------------------------------------------------------------------------
(* age counts expiries passed: of the spool (a day after begin), then of   *)
(* the receipt (a week after staging).  An upload that never came to       *)
(* staging has one expiry for both.                                        *)
Kept(r)    == r.state \in {"staging", "publishing", "complete"}
Expired(r) == r.age = 2 \/ (r.age = 1 /\ ~Kept(r))

(* _row: a row is only usable in the states that are safe to repeat.       *)
UsableEarlier(u) ==   \* mutant of Usable: an interrupted publication may be repeated
    row[u] # Nothing /\ ~Expired(row[u]) /\ row[u].state # "failed"

Usable(u) ==
    /\ row[u] # Nothing /\ ~Expired(row[u])
    /\ row[u].state \in {"receiving", "complete"}

(* What begin counts against the capacity and the number of uploads.       *)
Counts(u) == row[u] # Nothing /\ (row[u].named \/ row[u].state \in {"staging", "publishing"})
ReservedLive(size) ==   \* mutant of Reserved: an interrupted upload is not counted
    2 * size * Quantify(Uploads, LAMBDA u :
                    row[u] # Nothing /\ row[u].state = "receiving") + 2 * size <= Capacity
Reserved(size) == 2 * size * Quantify(Uploads, Counts) + 2 * size <= Capacity

UnfinishedUploads == Quantify(Uploads, LAMBDA u : row[u] # Nothing /\ row[u].state # "complete")

UploadsInit ==
    /\ row = [u \in Uploads |-> Nothing]
    /\ spool = [u \in Uploads |-> Nothing]
    /\ synced = [u \in Uploads |-> 0]
    /\ copied = [u \in Uploads |-> 0]
    /\ dest = [p \in Paths |-> Nothing]
    /\ op = Nothing
    /\ acked = [u \in Uploads |-> <<>>]
    /\ published = [u \in Uploads |-> 0]

Files == <<spool, synced, copied, dest>>
History == <<acked, published>>

Starts(kind, u, piece, at) ==
    op' = [kind |-> kind, u |-> u, piece |-> piece, at |-> at,
           known |-> row[u] # Nothing /\ row[u].known, pc |-> "open"]

Goes(pc) == op' = [op EXCEPT !.pc = pc]
OpAt(pc) == op # Nothing /\ op.pc = pc
CommitRow(change) == row' = [row EXCEPT ![op.u] = change]

----------------------------------------------------------------------------
(* begin reserves durably before it touches the spool; it holds the lock   *)
(* from then on.                                                           *)
Begin(u, p) ==
    /\ op = Nothing /\ row[u] = Nothing
    /\ dest[p] = Nothing
    /\ Reserved(Size) /\ UnfinishedUploads < Active
    /\ row' = [row EXCEPT ![u] = [path |-> p, state |-> "receiving", received |-> 0,
                                  named |-> TRUE, known |-> FALSE, age |-> 0]]
    /\ op' = [kind |-> "status", u |-> u, piece |-> Nothing, at |-> 0,
              known |-> FALSE, pc |-> "open"]
    /\ acked' = [acked EXCEPT ![u] = <<>>]
    /\ published' = [published EXCEPT ![u] = 0]
    /\ UNCHANGED Files

(* begin again, or status.                                                 *)
Status(u) ==
    /\ op = Nothing /\ Usable(u) /\ row[u].state # "complete"
    /\ Starts("status", u, Nothing, 0)
    /\ UNCHANGED <<row, Files, History>>

(* A piece at an offset that is confirmed or the next one.                 *)
Chunk(u, piece, at) ==
    /\ op = Nothing /\ Usable(u) /\ row[u].state # "complete"
    /\ at < Size /\ at <= row[u].received
    /\ Starts("chunk", u, piece, at)
    /\ UNCHANGED <<row, Files, History>>

Finish(u) ==
    /\ op = Nothing /\ Usable(u)
    /\ IF row[u].state = "complete"
       THEN /\ row[u].named
            /\ op' = [kind |-> "finish", u |-> u, piece |-> Nothing, at |-> 0,
                      known |-> TRUE, pc |-> "discard"]
       ELSE /\ row[u].received = Size /\ dest[row[u].path] = Nothing
            /\ Starts("finish", u, Nothing, 0)
    /\ UNCHANGED <<row, Files, History>>

(* The maintenance, one row at a time; interrupted uploads keep theirs.    *)
Cleanup(u) ==
    /\ op = Nothing /\ row[u] # Nothing /\ row[u].age > 0
    /\ IF row[u].named
       THEN /\ op' = [kind |-> "cleanup", u |-> u, piece |-> Nothing, at |-> 0,
                      known |-> row[u].known, pc |-> "discard"]
            /\ UNCHANGED row
       ELSE /\ Expired(row[u]) /\ row[u].state \notin {"staging", "publishing"}
            /\ row' = [row EXCEPT ![u] = Nothing] /\ UNCHANGED op
    /\ UNCHANGED <<Files, History>>

----------------------------------------------------------------------------
(* _materialize: an unregistered spool is created, never adopted.          *)
Create ==
    /\ OpAt("open") /\ ~op.known /\ spool[op.u] = Nothing
    /\ spool' = [spool EXCEPT ![op.u] = <<>>]
    /\ synced' = [synced EXCEPT ![op.u] = 0]
    /\ op' = [op EXCEPT !.known = TRUE]
    /\ UNCHANGED <<row, copied, dest, History>>

(* _reconcile: what was written and never acknowledged is cut off.         *)
Open ==
    /\ OpAt("open") /\ op.known
    /\ spool[op.u] # Nothing /\ Len(spool[op.u]) >= row[op.u].received
    /\ spool' = [spool EXCEPT ![op.u] = SubSeq(@, 1, row[op.u].received)]
    /\ synced' = [synced EXCEPT ![op.u] = row[op.u].received]
    /\ Goes(op.kind)
    /\ UNCHANGED <<row, copied, dest, History>>

CommitStatus ==
    /\ OpAt("status")
    /\ CommitRow([row[op.u] EXCEPT !.known = TRUE])
    /\ op' = Nothing
    /\ UNCHANGED <<Files, History>>

(* A confirmed piece again: only the same piece is accepted.               *)
Repeat ==
    /\ OpAt("chunk") /\ op.at < row[op.u].received
    /\ spool[op.u][op.at + 1] = op.piece
    /\ CommitRow([row[op.u] EXCEPT !.known = TRUE])
    /\ op' = Nothing
    /\ UNCHANGED <<Files, History>>

Write ==
    /\ OpAt("chunk") /\ op.at = row[op.u].received
    /\ spool' = [spool EXCEPT ![op.u] = SubSeq(@, 1, op.at) \o <<op.piece>>]
    /\ Goes("sync")
    /\ UNCHANGED <<row, synced, copied, dest, History>>

SyncNothing ==   \* mutant of Sync: the piece is acknowledged without it
    /\ OpAt("sync")
    /\ Goes("acknowledge")
    /\ UNCHANGED <<row, Files, History>>

Sync ==
    /\ OpAt("sync")
    /\ synced' = [synced EXCEPT ![op.u] = Len(spool[op.u])]
    /\ Goes("acknowledge")
    /\ UNCHANGED <<row, spool, copied, dest, History>>

Acknowledge ==
    /\ OpAt("acknowledge")
    /\ CommitRow([row[op.u] EXCEPT !.known = TRUE, !.received = op.at + 1])
    /\ acked' = [acked EXCEPT ![op.u] = Append(@, op.piece)]
    /\ op' = Nothing
    /\ UNCHANGED <<Files, published>>

----------------------------------------------------------------------------
Whole(u) == spool[u] = [i \in 1..Size |-> "right"]

Reject ==
    /\ OpAt("finish") /\ ~Whole(op.u)
    /\ CommitRow([row[op.u] EXCEPT !.state = "failed", !.known = TRUE])
    /\ op' = Nothing
    /\ UNCHANGED <<Files, History>>

(* The staging file is recorded while it is empty.                         *)
Stage ==
    /\ OpAt("finish") /\ Whole(op.u)
    /\ CommitRow([row[op.u] EXCEPT !.state = "staging", !.known = TRUE])
    /\ Goes("copy")
    /\ UNCHANGED <<Files, History>>

Copy ==
    /\ OpAt("copy")
    /\ copied' = [copied EXCEPT ![op.u] = @ + Size]
    /\ Goes("intend")
    /\ UNCHANGED <<row, spool, synced, dest, History>>

Intend ==
    /\ OpAt("intend")
    /\ CommitRow([row[op.u] EXCEPT !.state = "publishing"])
    /\ Goes("publish")
    /\ UNCHANGED <<Files, History>>

Publish ==
    /\ OpAt("publish") /\ dest[row[op.u].path] = Nothing
    /\ dest' = [dest EXCEPT ![row[op.u].path] = op.u]
    /\ copied' = [copied EXCEPT ![op.u] = @ - Size]
    /\ published' = [published EXCEPT ![op.u] = @ + 1]
    /\ Goes("complete")
    /\ UNCHANGED <<row, spool, synced, acked>>

CompleteCommit ==
    /\ OpAt("complete")
    /\ CommitRow([row[op.u] EXCEPT !.state = "complete"])
    /\ Goes("discard")
    /\ UNCHANGED <<Files, History>>

(* Only a spool whose identity is recorded is ever removed.                *)
Discard ==
    /\ OpAt("discard") /\ (op.known \/ spool[op.u] = Nothing)
    /\ spool' = [spool EXCEPT ![op.u] = Nothing]
    /\ synced' = [synced EXCEPT ![op.u] = 0]
    /\ Goes("release")
    /\ UNCHANGED <<row, copied, dest, History>>

Release ==
    /\ OpAt("release")
    /\ CommitRow([row[op.u] EXCEPT !.named = FALSE])
    /\ op' = Nothing
    /\ UNCHANGED <<Files, History>>

----------------------------------------------------------------------------
(* A refusal, an I/O error or a revoked permission at any step: rolled     *)
(* back, and the staging file is removed unless it was published.          *)
Fail ==
    /\ op # Nothing /\ op' = Nothing
    /\ copied' = IF op.pc \in {"intend", "publish"}
                 THEN [copied EXCEPT ![op.u] = @ - Size] ELSE copied
    /\ UNCHANGED <<row, spool, synced, dest, History>>

(* The Agent dies, or the machine: spools keep what was synced and any     *)
(* part of the rest.                                                       *)
Crash ==
    /\ op # Nothing /\ op' = Nothing
    /\ \E left \in [Uploads -> 0..Size] :
        /\ \A u \in Uploads : IF spool[u] = Nothing THEN left[u] = 0
                              ELSE left[u] \in synced[u]..Len(spool[u])
        /\ spool' = [u \in Uploads |-> IF spool[u] = Nothing THEN Nothing
                                       ELSE SubSeq(spool[u], 1, left[u])]
        /\ synced' = left
    /\ UNCHANGED <<row, copied, dest, History>>

Ages(u) ==
    /\ op = Nothing /\ row[u] # Nothing /\ row[u].age < 2
    /\ row' = [row EXCEPT ![u].age = @ + 1]
    /\ UNCHANGED <<Files, op, History>>

OthersWrite(p) ==
    /\ dest[p] = Nothing /\ dest' = [dest EXCEPT ![p] = "other"]
    /\ UNCHANGED <<row, spool, synced, copied, op, History>>

OthersRemove(p) ==
    /\ dest[p] # Nothing /\ dest' = [dest EXCEPT ![p] = Nothing]
    /\ UNCHANGED <<row, spool, synced, copied, op, History>>

UploadsNext ==
    \/ \E u \in Uploads :
        \/ \E p \in Paths : Begin(u, p)
        \/ Status(u) \/ Finish(u) \/ Cleanup(u) \/ Ages(u)
        \/ \E piece \in Pieces, at \in 0..Size : Chunk(u, piece, at)
    \/ Create \/ Open \/ CommitStatus \/ Repeat \/ Write \/ Sync \/ Acknowledge
    \/ Reject \/ Stage \/ Copy \/ Intend \/ Publish \/ CompleteCommit
    \/ Discard \/ Release
    \/ Fail \/ Crash
    \/ \E p \in Paths : OthersWrite(p) \/ OthersRemove(p)

UploadsSpec == UploadsInit /\ [][UploadsNext]_uploadVars

----------------------------------------------------------------------------
(* An acknowledged piece is never asked for again and never changes: while *)
(* an upload is being received, every piece that the client was told is    *)
(* stored is in the spool, in its place, and survives a power failure      *)
(* (incoming_uploads.py:310-319, 401-414).                                 *)
AcknowledgedKept ==
    \A u \in Uploads :
        (row[u] # Nothing /\ row[u].state = "receiving" /\ row[u].known /\ row[u].age = 0) =>
            /\ row[u].received = Len(acked[u])
            /\ synced[u] >= row[u].received
            /\ SubSeq(spool[u], 1, row[u].received) = acked[u]

(* An upload is published at most once and only whole, however often it is *)
(* interrupted and retried, also when the published file has been moved    *)
(* away since; a receipt of completion is never given without publication  *)
(* (incoming_uploads.py:470-487).                                          *)
PublishedOnce ==
    \A u \in Uploads :
        /\ published[u] <= 1
        /\ published[u] = 1 => acked[u] = [i \in 1..Size |-> "right"]
        /\ (row[u] # Nothing /\ row[u].state = "complete") => published[u] = 1

(* Spools and staging files together stay within the capacity that begin   *)
(* reserves against, the files of interrupted uploads included             *)
(* (incoming_uploads.py:342-357, 443-457, 526-534).                        *)
SpaceReserved ==
    MapThenSumSet(LAMBDA u : (IF spool[u] = Nothing THEN 0 ELSE Len(spool[u])) + copied[u],
                  Uploads) <= Capacity

=============================================================================
