------------------------- MODULE OperationDelivery -------------------------
(***************************************************************************)
(* Durable delivery of operations from the Hub to one Agent.               *)
(*                                                                         *)
(* The Hub (src/hub/runtime.py) stores every admitted operation in a row   *)
(* of its database and works on it until the row holds a result.  The      *)
(* Agent (src/agent/runner.py) keeps a journal (src/agent/journal.py) with *)
(* one record per operation identifier.  Between them is a WebSocket that  *)
(* is FIFO while it lasts and may lose any suffix of what was written when *)
(* it breaks.  Either side may crash, the Agent may be stopped gracefully, *)
(* and the Agent's state directory may be lost, which starts a new journal.*)
(*                                                                         *)
(* What must come out of this: an operation with side effects runs at most *)
(* once, whatever is resent; a row that holds a result keeps it; a result  *)
(* the Agent may forget is one the Hub has stored.                         *)
(***************************************************************************)
EXTENDS Naturals, Sequences, FiniteSets

CONSTANTS
    Ops,                  \* operation identifiers
    Reads,                \* operations of a replayable tool (scope 'read', uploads)
    Processes,            \* operations of a PROCESS_TOOLS tool: the Agent can kill them
    Revocable,            \* operations whose authorization may change meanwhile
    Expirable,            \* operations whose deadline may pass meanwhile
    MaxInterruptedReads,  \* MAX_INTERRUPTED_READS of journal.py
    Prefetch,             \* operations prepared ahead by the delivery pipeline
    MaxConnections,       \* bound: authenticated connections in a behaviour
    MaxJournals,          \* bound: journals the Agent has had
    MaxDown, MaxUp,       \* bounds: frames in flight in each direction
    MaxCopies             \* bound: copies of a result and its acks in flight

ASSUME OpsAssumption ==
    /\ Reads \subseteq Ops
    /\ Processes \subseteq Ops
    /\ Revocable \subseteq Ops
    /\ Expirable \subseteq Ops
    /\ MaxInterruptedReads \in Nat \ {0}

ASSUME BoundsAssumption ==
    /\ Prefetch \in Nat \ {0}
    /\ MaxConnections \in Nat
    /\ MaxJournals \in Nat \ {0}
    /\ MaxDown \in Nat
    /\ MaxUp \in Nat
    /\ MaxCopies \in Nat

VARIABLES
    (* The Hub's database: one row per operation. *)
    state,       \* operations.state; "none" before admission
    attempted,   \* operations.attempts > 0
    accepted,    \* operations.accepted_at is set
    cancelReq,   \* operations.cancel_requested
    sentJournal, \* operations.journal_id: the journal first sent to, 0 for NULL
    verdict,     \* operations.result, reduced to what it says; "none" for NULL
    (* The Hub's memory. *)
    hubCon,      \* number of the registered connection, 0 for none
    hubJournal,  \* journal announced in its hello, 0 without connection
    prepared,    \* prepared deliveries not yet sent, in sending order
    (* The socket. *)
    cons,        \* connections made so far
    down, up,    \* frames on their way to the Agent and to the Hub
    (* The Agent's memory. *)
    agentCon,    \* number of the connection it reads, 0 for none
    stopping,    \* stop_event is set
    job,         \* the task in self.jobs handling an operation
    reader,      \* the receipt report_status is about to send
    (* The Agent's journal. *)
    journalId,   \* meta.journal_id
    call,        \* calls.status, "missing" without a record
    result,      \* calls.result
    acked,       \* calls.acked
    crashes,     \* calls.recovery_attempts
    cancelled,   \* the cancellations table
    (* The environment, and a history variable. *)
    expired,     \* operations whose deadline has passed on the Hub's clock
    denied,      \* operations permission_error refuses at present
    runs         \* how many times execution of an operation began

rowVars     == <<state, attempted, accepted, cancelReq, sentJournal, verdict>>
hubVars     == <<hubCon, hubJournal, prepared>>
netVars     == <<cons, down, up>>
taskVars    == <<agentCon, stopping, job, reader>>
journalVars == <<journalId, call, result, acked, crashes, cancelled>>
envVars     == <<expired, denied>>
agentVars   == <<taskVars, journalVars, runs>>
vars == <<rowVars, hubVars, netVars, agentVars, envVars>>

-----------------------------------------------------------------------------
(* The Hub's operation states.                                             *)
Active  == {"queued", "running", "reconnecting", "cancelling"}
Settled == {"succeeded", "failed", "cancelled"}   \* complete() never leaves these
States  == {"none", "needs_review"} \cup Active \cup Settled

(* What the Agent's journal can say of an operation: its handler returned  *)
(* data or raised; its process was killed on request; it was refused by    *)
(* the cancellation or stop checks before it began; the deadline had       *)
(* passed; it was interrupted; a read crashed the Agent too often.         *)
Outcomes == {"ok", "error", "killed", "refused", "late", "interrupted", "restart_limit"}

(* "forgotten" is RESULT_EXPIRED, which replaces an acknowledged result    *)
(* past its retention period.                                              *)
Results == Outcomes \cup {"forgotten"}

(* What the Hub concludes by itself: it never sent the operation           *)
(* (withdrawn by the user; rejected by policy or deadline), the Agent told *)
(* it that nothing had started (unstarted, by user or by deadline), or the *)
(* journal it was sent to is gone.                                         *)
NeverSent  == {"withdrawn", "rejected"}
Unstarted  == {"unstarted_cancelled", "unstarted_expired"}
HubClaims  == NeverSent \cup Unstarted \cup {"journal_changed"}
Verdicts   == Results \cup HubClaims

(* complete(): the state a verdict leads to.                               *)
StateOf(v) ==
    CASE v = "ok" -> "succeeded"
      [] v \in {"interrupted", "journal_changed"} -> "needs_review"
      [] v \in {"killed", "refused", "withdrawn", "unstarted_cancelled"} -> "cancelled"
      [] OTHER -> "failed"

CallStates == {"missing", "accepted", "retryable", "running", "done", "interrupted"}
Finished(op) == call[op] \in {"done", "interrupted"}

(* self.jobs: "new" until the handler's first step, "queued" while it      *)
(* waits for admission, "started" between mark_running and the second      *)
(* cancellation check, "executing", and an outcome while it is persisted.  *)
JobStates  == {"none", "new", "queued", "started", "executing"} \cup Outcomes
Finishing(op) == job[op] \in Outcomes

Packets == {"call", "probe", "cancel", "cancel_pending"}
DownFrames == [type : Packets \cup {"ack"}, op : Ops]
UpFrames ==
    [type : {"accepted", "started"}, op : Ops]
        \cup [type : {"status"}, op : Ops, status : CallStates]
        \cup [type : {"result"}, op : Ops, result : Results]
Receipt(op) ==    \* report_status: the stored result, else the status
    IF Finished(op) THEN [type |-> "result", op |-> op, result |-> result[op]]
                    ELSE [type |-> "status", op |-> op, status |-> call[op]]

TypeOK ==
    /\ state \in [Ops -> States]
    /\ attempted \in [Ops -> BOOLEAN]
    /\ accepted \in [Ops -> BOOLEAN]
    /\ cancelReq \in [Ops -> BOOLEAN]
    /\ sentJournal \in [Ops -> 0 .. MaxJournals]
    /\ verdict \in [Ops -> Verdicts \cup {"none"}]
    /\ cons \in 0 .. MaxConnections
    /\ hubCon \in 0 .. cons
    /\ hubJournal \in 0 .. MaxJournals
    /\ prepared \in Seq([op : Ops, con : 1 .. cons, packets : Seq(Packets) \ {<<>>}])
    /\ down \in Seq(DownFrames)
    /\ up \in Seq(UpFrames)
    /\ agentCon \in 0 .. cons
    /\ stopping \in BOOLEAN
    /\ job \in [Ops -> JobStates]
    /\ reader \in Seq(UpFrames)
    /\ journalId \in 1 .. MaxJournals
    /\ call \in [Ops -> CallStates]
    /\ result \in [Ops -> Results \cup {"none"}]
    /\ acked \in [Ops -> BOOLEAN]
    /\ crashes \in [Ops -> 0 .. MaxInterruptedReads]
    /\ cancelled \in SUBSET Ops
    /\ expired \in SUBSET Ops
    /\ denied \in SUBSET Ops
    /\ runs \in [Ops -> Nat]

Init ==
    /\ state = [op \in Ops |-> "none"]
    /\ attempted = [op \in Ops |-> FALSE]
    /\ accepted = [op \in Ops |-> FALSE]
    /\ cancelReq = [op \in Ops |-> FALSE]
    /\ sentJournal = [op \in Ops |-> 0]
    /\ verdict = [op \in Ops |-> "none"]
    /\ hubCon = 0 /\ hubJournal = 0 /\ prepared = <<>>
    /\ cons = 0 /\ down = <<>> /\ up = <<>>
    /\ agentCon = 0 /\ stopping = FALSE /\ reader = <<>>
    /\ job = [op \in Ops |-> "none"]
    /\ journalId = 1
    /\ call = [op \in Ops |-> "missing"]
    /\ result = [op \in Ops |-> "none"]
    /\ acked = [op \in Ops |-> FALSE]
    /\ crashes = [op \in Ops |-> 0]
    /\ cancelled = {}
    /\ expired = {} /\ denied = {}
    /\ runs = [op \in Ops |-> 0]

-----------------------------------------------------------------------------
(* The Hub: callers and policy.                                            *)

IsActive(op) == state[op] \in Active

(* complete(): the first settled result of a row stays; needs_review is    *)
(* replaced when the Agent's result arrives later.                         *)
Complete(op, v) ==
    IF state[op] \in Settled
       THEN UNCHANGED <<state, verdict>>
       ELSE /\ state' = [state EXCEPT ![op] = StateOf(v)]
            /\ verdict' = [verdict EXCEPT ![op] = v]

(* _admit_operation(): the durable row is inserted in state 'queued'.      *)
Admit(op) ==
    /\ state[op] = "none"
    /\ state' = [state EXCEPT ![op] = "queued"]
    /\ UNCHANGED <<attempted, accepted, cancelReq, sentJournal, verdict, hubVars, netVars, agentVars, envVars>>

(* _cancel(): file operations already delivered cannot be withdrawn;       *)
(* anything never delivered is settled here; the rest is left to the Agent.*)
Cancel(op) ==
    /\ IsActive(op)
    /\ attempted[op] => op \in Reads \cup Processes
    /\ cancelReq' = [cancelReq EXCEPT ![op] = TRUE]
    /\ IF attempted[op]
          THEN state' = [state EXCEPT ![op] = "cancelling"] /\ UNCHANGED verdict
          ELSE Complete(op, "withdrawn")
    /\ UNCHANGED <<attempted, accepted, sentJournal, hubVars, netVars, agentVars, envVars>>

(* The world changes the answer of permission_error, in both directions,   *)
(* and time passes the deadline.                                           *)
Revoke(op) ==
    /\ op \in Revocable \ denied /\ IsActive(op)
    /\ denied' = denied \cup {op}
    /\ UNCHANGED <<rowVars, hubVars, netVars, agentVars, expired>>

Restore(op) ==
    /\ op \in denied /\ IsActive(op)
    /\ denied' = denied \ {op}
    /\ UNCHANGED <<rowVars, hubVars, netVars, agentVars, expired>>

Expire(op) ==
    /\ op \in Expirable \ expired /\ IsActive(op)
    /\ expired' = expired \cup {op}
    /\ UNCHANGED <<rowVars, hubVars, netVars, agentVars, denied>>

-----------------------------------------------------------------------------
(* The Hub: the delivery worker.                                           *)

Fenced(op) == sentJournal[op] # 0 /\ sentJournal[op] # hubJournal

MayPrepare(op) ==
    /\ IsActive(op)
    /\ Len(prepared) < Prefetch
    /\ \A i \in DOMAIN prepared : prepared[i].op # op

NeverDelivered(op) ==
    /\ ~attempted[op]
    /\ op \in expired \cup denied \/ cancelReq[op]

(* _prepare_delivery(), refusals before any delivery.                      *)
PrepareRefusal(op) ==
    /\ MayPrepare(op)
    /\ NeverDelivered(op)
    /\ Complete(op, IF op \notin denied /\ cancelReq[op] THEN "withdrawn" ELSE "rejected")
    /\ UNCHANGED <<attempted, accepted, cancelReq, sentJournal, hubVars, netVars, agentVars, envVars>>

(* _prepare_delivery(), the journal fence.                                 *)
PrepareFenced(op) ==
    /\ MayPrepare(op)
    /\ ~NeverDelivered(op)
    /\ hubCon # 0
    /\ Fenced(op)
    /\ Complete(op, "journal_changed")
    /\ UNCHANGED <<attempted, accepted, cancelReq, sentJournal, hubVars, netVars, agentVars, envVars>>

(* _prepare_delivery(), packets: a cancellation or a conditional fence     *)
(* first, then a probe of anything that may already have been received and *)
(* a call otherwise.  The decision to call is durable before it is sent.   *)
Fence(op) ==
    IF cancelReq[op] THEN <<"cancel">>
    ELSE IF op \in denied /\ attempted[op] THEN <<"cancel_pending">> ELSE <<>>

Probing(op) ==
    accepted[op] \/ op \in expired \cup denied \/ (cancelReq[op] /\ attempted[op])

PreparePackets(op) ==
    /\ MayPrepare(op)
    /\ ~NeverDelivered(op)
    /\ hubCon # 0
    /\ ~Fenced(op)
    /\ prepared' = Append(prepared,
           [op |-> op, con |-> hubCon,
            packets |-> Fence(op) \o <<IF Probing(op) THEN "probe" ELSE "call">>])
    /\ IF Probing(op)
          THEN UNCHANGED <<attempted, sentJournal>>
          ELSE /\ attempted' = [attempted EXCEPT ![op] = TRUE]
               /\ sentJournal' = [sentJournal EXCEPT ![op] = IF @ = 0 THEN hubJournal ELSE @]
    /\ UNCHANGED <<state, accepted, cancelReq, verdict, hubCon, hubJournal, netVars, agentVars, envVars>>

(* _delivery_packet_current(): the check made under the socket's send lock.*)
PacketCurrent(op, con, packet) ==
    /\ hubCon = con
    /\ IsActive(op)
    /\ packet = "call" => ~(op \in denied \cup expired \/ cancelReq[op] \/ accepted[op])

HubSends(frame) ==
    down' = IF hubCon = agentCon THEN Append(down, frame) ELSE down

(* _send_prepared(): one packet of the oldest preparation; a packet that   *)
(* is no longer current drops the rest of it.                              *)
SendPacket ==
    /\ prepared # <<>>
    /\ LET head == Head(prepared) IN
         /\ PacketCurrent(head.op, head.con, Head(head.packets))
         /\ Len(down) < MaxDown
         /\ HubSends([type |-> Head(head.packets), op |-> head.op])
         /\ prepared' = IF Len(head.packets) = 1
                          THEN Tail(prepared)
                          ELSE [prepared EXCEPT ![1].packets = Tail(@)]
    /\ UNCHANGED <<rowVars, hubCon, hubJournal, cons, up, agentVars, envVars>>

DropPrepared ==
    /\ prepared # <<>>
    /\ LET head == Head(prepared) IN ~PacketCurrent(head.op, head.con, Head(head.packets))
    /\ prepared' = Tail(prepared)
    /\ UNCHANGED <<rowVars, hubCon, hubJournal, netVars, agentVars, envVars>>

-----------------------------------------------------------------------------
(* The Hub: _receive_operation_event(), one frame of the registered        *)
(* connection at a time.  Receipts pass the same journal fence as calls;   *)
(* the acknowledgement of a result leaves after the row is durable.        *)
Receiving(type) ==
    /\ hubCon # 0
    /\ up # <<>>
    /\ Head(up).type = type
    /\ up' = Tail(up)
    /\ UNCHANGED <<cons, hubVars, agentVars, envVars>>

AcknowledgeOpen(op) ==   \* mutant of Acknowledge: not for a row already settled
    IF state[op] \in Settled THEN UNCHANGED down
                             ELSE HubSends([type |-> "ack", op |-> op])

Acknowledge(op) == HubSends([type |-> "ack", op |-> op])

(* An accepted, started or running receipt: the operation is at the Agent. *)
Confirm(op, running) ==
    IF IsActive(op)
       THEN /\ accepted' = [accepted EXCEPT ![op] = TRUE]
            /\ state' = [state EXCEPT ![op] =
                  IF cancelReq[op] THEN "cancelling" ELSE IF running THEN "running" ELSE "queued"]
       ELSE UNCHANGED <<accepted, state>>

Resolve(op, v) == Complete(op, v) /\ UNCHANGED <<accepted, attempted>>

ReceiveProgress ==
    \E type \in {"accepted", "started"} :
        /\ Receiving(type)
        /\ LET op == Head(up).op IN
             IF Fenced(op) THEN Resolve(op, "journal_changed")
             ELSE Confirm(op, type = "started") /\ UNCHANGED <<attempted, verdict>>
        /\ UNCHANGED <<cancelReq, sentJournal, down>>

(* A status receipt.  missing and retryable mean that nothing has started: *)
(* the operation is settled if it is no longer wanted and requeued for a   *)
(* fresh authorization otherwise.                                          *)
Unaccepted(status) == status \in {"missing", "retryable"}

RequeueAccepted(op) ==   \* mutant of Requeue: accepted_at is not cleared
    /\ state' = [state EXCEPT ![op] = "queued"]
    /\ attempted' = [attempted EXCEPT ![op] = FALSE]
    /\ UNCHANGED <<accepted, verdict>>

Requeue(op) ==
    /\ state' = [state EXCEPT ![op] = "queued"]
    /\ accepted' = [accepted EXCEPT ![op] = FALSE]
    /\ attempted' = [attempted EXCEPT ![op] = FALSE]
    /\ UNCHANGED verdict

ReceiveStatus ==
    /\ Receiving("status")
    /\ LET op == Head(up).op
           status == Head(up).status
       IN IF Fenced(op) THEN Resolve(op, "journal_changed")
          ELSE IF ~IsActive(op) THEN UNCHANGED <<state, accepted, attempted, verdict>>
          ELSE IF ~Unaccepted(status)
             THEN Confirm(op, status = "running") /\ UNCHANGED <<attempted, verdict>>
          ELSE IF status = "missing" /\ accepted[op] THEN Resolve(op, "journal_changed")
          ELSE IF cancelReq[op] THEN Resolve(op, "unstarted_cancelled")
          ELSE IF op \in expired THEN Resolve(op, "unstarted_expired")
          ELSE Requeue(op)
    /\ UNCHANGED <<cancelReq, sentJournal, down>>

AckFirst ==   \* mutant of ReceiveResult: acknowledged, and the row not written
    /\ Receiving("result")
    /\ UNCHANGED <<state, verdict>>
    /\ Acknowledge(Head(up).op)
    /\ UNCHANGED <<attempted, accepted, cancelReq, sentJournal>>

ReceiveResult ==
    /\ Receiving("result")
    /\ LET op == Head(up).op IN
         /\ Complete(op, IF Fenced(op) THEN "journal_changed" ELSE Head(up).result)
         /\ Acknowledge(op)
    /\ UNCHANGED <<attempted, accepted, cancelReq, sentJournal>>

-----------------------------------------------------------------------------
(* Connections, and the Hub's restart.                                     *)

MayFail == cons < MaxConnections   \* bound: a failure leaves room to reconnect

(* What reached the other side before a connection broke.                  *)
SomePrefix(s) == {SubSeq(s, 1, n) : n \in 0 .. Len(s)}

(* connect_once() and agent_socket(): the handshake ends with the Hub      *)
(* registering the connection, which fences the one it replaces.           *)
Connect ==
    /\ agentCon = 0 /\ ~stopping
    /\ cons < MaxConnections
    /\ cons' = cons + 1
    /\ hubCon' = cons + 1
    /\ agentCon' = cons + 1
    /\ hubJournal' = journalId
    /\ down' = <<>> /\ up' = <<>>
    /\ UNCHANGED <<rowVars, prepared, stopping, job, reader, journalVars, runs, envVars>>

Disconnected(op) ==
    IF state[op] \in {"running", "cancelling"} THEN "reconnecting" ELSE state[op]

(* detach(): the receive timeout, a failed send or the peer's close.       *)
HubDetach ==
    /\ hubCon # 0
    /\ hubCon = agentCon => MayFail
    /\ hubCon' = 0
    /\ state' = [op \in Ops |-> Disconnected(op)]
    /\ up' = <<>>
    /\ down' \in SomePrefix(down)
    /\ hubJournal' = 0
    /\ UNCHANGED <<attempted, accepted, cancelReq, sentJournal, verdict,
                   prepared, cons, agentVars, envVars>>

(* start() after a crash or a stop of the Hub: rows and their identifiers  *)
(* survive, preparations and connections do not.                           *)
HubRestart ==
    /\ MayFail
    /\ hubCon' = 0
    /\ prepared' = <<>>
    /\ state' = [op \in Ops |-> Disconnected(op)]
    /\ up' = <<>>
    /\ down' \in SomePrefix(down)
    /\ hubJournal' = 0
    /\ UNCHANGED <<attempted, accepted, cancelReq, sentJournal, verdict,
                   cons, agentVars, envVars>>

(* The Agent's side of a lost connection: its reader ends, and the frames  *)
(* it had not read are gone.                                               *)
LoseSocket ==
    /\ agentCon' = 0
    /\ reader' = <<>>
    /\ down' = <<>>
    /\ up' \in SomePrefix(up)

AgentDrop ==
    /\ agentCon # 0
    /\ hubCon = agentCon => MayFail
    /\ LoseSocket
    /\ UNCHANGED <<rowVars, hubVars, cons, stopping, job, journalVars, runs, envVars>>

-----------------------------------------------------------------------------
(* The Agent: receipts.                                                    *)

AgentSends(frame) ==
    /\ agentCon # 0 /\ agentCon = hubCon => Len(up) < MaxUp
    /\ up' = IF agentCon # 0 /\ agentCon = hubCon THEN Append(up, frame) ELSE up

(* report_status(), second half: the receipt is sent after awaits during   *)
(* which the operation may have moved on.                                  *)
SendReceipt ==
    /\ reader # <<>>
    /\ AgentSends(Head(reader))
    /\ reader' = <<>>
    /\ UNCHANGED <<rowVars, hubVars, cons, down, agentCon, stopping, job, journalVars, runs, envVars>>

(* report_outbox(), with every heartbeat: unacknowledged results.  The     *)
(* heartbeat's twelve seconds are a bound on the copies under way.         *)
CopiesInFlight(op) ==
    Cardinality({i \in DOMAIN up : up[i].op = op /\ up[i].type = "result"})
        + Cardinality({i \in DOMAIN down : down[i].op = op /\ down[i].type = "ack"})

SendOutbox(op) ==
    /\ agentCon # 0
    /\ CopiesInFlight(op) < MaxCopies
    /\ Finished(op) /\ ~acked[op]
    /\ AgentSends(Receipt(op))
    /\ UNCHANGED <<rowVars, hubVars, cons, down, agentVars, envVars>>

-----------------------------------------------------------------------------
(* The Agent: the socket reader in connect_once(), one frame at a time.    *)
Reading(type) ==
    /\ agentCon # 0
    /\ reader = <<>>
    /\ down # <<>>
    /\ Head(down).type = type
    /\ down' = Tail(down)
    /\ UNCHANGED <<rowVars, hubVars, cons, up, agentCon, stopping, runs, envVars>>

(* The first step of a new handler is already queued on the loop when the  *)
(* reader asks a thread for the journal, so it runs first; only a          *)
(* cancellation, handled without an await, can be ahead of it.             *)
HandlerBegan(op) == job[op] # "new"

(* report_status(), first half.                                            *)
Report(op) ==
    /\ HandlerBegan(op)
    /\ reader' = <<Receipt(op)>>
    /\ UNCHANGED <<job, journalVars>>

(* A call for an operation already in self.jobs only reports it.           *)
ReadCall ==
    /\ Reading("call")
    /\ LET op == Head(down).op IN
         IF job[op] = "none"
            THEN job' = [job EXCEPT ![op] = "new"] /\ UNCHANGED <<reader, journalVars>>
            ELSE Report(op)

ReadProbe ==
    /\ Reading("probe")
    /\ Report(Head(down).op)

(* cancel_call(): a durable cancellation; work that is accepted and not    *)
(* yet running is woken with CancelledError, and its handler records that  *)
(* it was refused.  A running process is killed, see FinishExecution.      *)
CancelCall(op) ==
    /\ cancelled' = cancelled \cup {op}
    /\ job' = IF call[op] = "accepted" /\ job[op] = "queued"
                 THEN [job EXCEPT ![op] = "refused"] ELSE job
    /\ UNCHANGED <<journalId, call, result, acked, crashes>>

ReadCancel ==
    /\ Reading("cancel")
    /\ CancelCall(Head(down).op)
    /\ UNCHANGED reader

(* cancel_pending_call(): the same, unless execution may have begun.       *)
ReadCancelPending ==
    /\ Reading("cancel_pending")
    /\ LET op == Head(down).op IN
         IF Finishing(op) \/ call[op] \notin {"accepted", "missing", "retryable"}
            THEN UNCHANGED <<job, journalVars>>
            ELSE CancelCall(op)
    /\ UNCHANGED reader

ReadAck ==
    /\ Reading("ack")
    /\ LET op == Head(down).op IN
         /\ HandlerBegan(op)
         /\ acked' = [acked EXCEPT ![op] = @ \/ call[op] # "missing"]
    /\ UNCHANGED <<job, reader, journalId, call, result, crashes, cancelled>>

-----------------------------------------------------------------------------
(* The Agent: handle(), one job per operation.                             *)
Handling(op) == UNCHANGED <<rowVars, hubVars, cons, down, agentCon, stopping, reader, envVars>>

SetJob(op, at) == job' = [job EXCEPT ![op] = at]

(* journal.start(): a first or replayable call is accepted, durably, before*)
(* the accepted receipt; a finished one is answered from the journal.  The *)
(* ALREADY_RUNNING answer needs an accepted or running record without a    *)
(* job, which only a stopping Agent has, and it reads no more frames.      *)
StartAccepted(op) ==
    /\ job[op] = "new"
    /\ call[op] \in {"missing", "retryable"}
    /\ call' = [call EXCEPT ![op] = "accepted"]
    /\ result' = [result EXCEPT ![op] = "none"]
    /\ acked' = [acked EXCEPT ![op] = FALSE]
    /\ SetJob(op, "queued")
    /\ AgentSends([type |-> "accepted", op |-> op])
    /\ Handling(op)
    /\ UNCHANGED <<journalId, crashes, cancelled, runs>>

StartFinished(op) ==
    /\ job[op] = "new"
    /\ Finished(op)
    /\ SetJob(op, "none")
    /\ AgentSends(Receipt(op))
    /\ Handling(op)
    /\ UNCHANGED <<journalVars, runs>>

(* Before mark_running: the cancellation and deadline checks, on the       *)
(* Agent's own clock, and every validation or admission error.             *)
Refuse(op) ==
    /\ job[op] = "queued"
    /\ \E o \in {"refused", "late", "error"} :
         /\ o = "refused" => op \in cancelled
         /\ SetJob(op, o)
    /\ Handling(op)
    /\ UNCHANGED <<up, journalVars, runs>>

(* Accepted work of a stopping Agent leaves its durable receipt untouched. *)
Abandon(op) ==
    /\ job[op] = "queued"
    /\ stopping /\ op \notin cancelled
    /\ SetJob(op, "none")
    /\ Handling(op)
    /\ UNCHANGED <<up, journalVars, runs>>

MarkRunning(op) ==
    /\ job[op] = "queued"
    /\ op \notin cancelled
    /\ call' = [call EXCEPT ![op] = "running"]
    /\ SetJob(op, "started")
    /\ AgentSends([type |-> "started", op |-> op])
    /\ Handling(op)
    /\ UNCHANGED <<journalId, result, acked, crashes, cancelled, runs>>

(* The second check, after the started receipt was sent.                   *)
Withhold(op) ==
    /\ job[op] = "started"
    /\ \E o \in {"refused", "error"} :
         /\ o = "refused" => op \in cancelled \/ stopping
         /\ SetJob(op, o)
    /\ Handling(op)
    /\ UNCHANGED <<up, journalVars, runs>>

Execute(op) ==
    /\ job[op] = "started"
    /\ op \notin cancelled /\ ~stopping
    /\ SetJob(op, "executing")
    /\ runs' = [runs EXCEPT ![op] = @ + 1]
    /\ Handling(op)
    /\ UNCHANGED <<up, journalVars>>

(* A process that is cancelled or stopped may still have finished first.   *)
FinishExecution(op) ==
    /\ job[op] = "executing"
    /\ \E o \in {"ok", "error", "killed", "interrupted"} :
         /\ o = "killed" => op \in Processes \cap cancelled
         /\ o = "interrupted" => op \in Processes /\ stopping
         /\ SetJob(op, o)
    /\ Handling(op)
    /\ UNCHANGED <<up, journalVars, runs>>

(* journal.finish(), then the result is sent if there is a socket.         *)
Persist(op) ==
    /\ Finishing(op)
    /\ call' = [call EXCEPT ![op] = "done"]
    /\ result' = [result EXCEPT ![op] = job[op]]
    /\ acked' = [acked EXCEPT ![op] = FALSE]
    /\ SetJob(op, "none")
    /\ AgentSends([type |-> "result", op |-> op, result |-> job[op]])
    /\ Handling(op)
    /\ UNCHANGED <<journalId, crashes, cancelled, runs>>

-----------------------------------------------------------------------------
(* The Agent: stop, crash and restart, loss of its state, retention.       *)

Stop ==
    /\ MayFail
    /\ ~stopping
    /\ stopping' = TRUE
    /\ LoseSocket
    /\ UNCHANGED <<rowVars, hubVars, cons, job, journalVars, runs, envVars>>

(* Journal.__init__(): what a restart makes of the records it finds.       *)
Counted(op) == crashes[op] + (IF call[op] = "running" /\ op \in Reads THEN 1 ELSE 0)

RecoveredOnceMore(op) ==   \* mutant of Recovered: > for >= at the limit
    CASE call[op] = "accepted" -> "retryable"
      [] call[op] = "running" /\ op \in Reads /\ Counted(op) <= MaxInterruptedReads -> "retryable"
      [] call[op] = "running" /\ (op \notin Reads \/ Counted(op) > MaxInterruptedReads) -> "interrupted"
      [] OTHER -> call[op]

RecoveredReplayable(op) ==   \* mutant of Recovered: any tool is replayed
    IF call[op] \in {"accepted", "running"} THEN "retryable" ELSE call[op]

Recovered(op) ==
    CASE call[op] = "accepted" -> "retryable"
      [] call[op] = "running" /\ op \in Reads /\ Counted(op) < MaxInterruptedReads -> "retryable"
      [] call[op] = "running" /\ (op \notin Reads \/ Counted(op) >= MaxInterruptedReads) -> "interrupted"
      [] OTHER -> call[op]

Recover ==
    /\ crashes' = [op \in Ops |-> Counted(op)]
    /\ call' = [op \in Ops |-> Recovered(op)]
    /\ result' = [op \in Ops |->
          IF call[op] = "running" /\ Recovered(op) = "interrupted"
             THEN IF op \in Reads THEN "restart_limit" ELSE "interrupted"
             ELSE result[op]]
    /\ acked' = [op \in Ops |->
          acked[op] /\ ~(call[op] = "running" /\ Recovered(op) = "interrupted")]
    /\ job' = [op \in Ops |-> "none"]
    /\ stopping' = FALSE

(* A crash at any moment, or the end of a stop; in both cases the next     *)
(* start of the Agent recovers the journal.                                *)
Crash ==
    /\ MayFail
    /\ Recover
    /\ LoseSocket
    /\ UNCHANGED <<rowVars, hubVars, cons, journalId, cancelled, runs, envVars>>

Restart ==
    /\ stopping /\ \A op \in Ops : job[op] = "none"
    /\ Recover
    /\ UNCHANGED <<rowVars, hubVars, netVars, agentCon, reader, journalId, cancelled, runs, envVars>>

(* The state directory is lost while the Agent is down (agent-state moved  *)
(* aside, a reinstall): the next start creates an empty journal.           *)
LoseJournal ==
    /\ agentCon = 0 /\ ~stopping /\ \A op \in Ops : job[op] = "none"
    /\ journalId < MaxJournals
    /\ journalId' = journalId + 1
    /\ call' = [op \in Ops |-> "missing"]
    /\ result' = [op \in Ops |-> "none"]
    /\ acked' = [op \in Ops |-> FALSE]
    /\ crashes' = [op \in Ops |-> 0]
    /\ cancelled' = {}
    /\ UNCHANGED <<rowVars, hubVars, netVars, taskVars, runs, envVars>>

PruneDeletes(op) ==   \* mutant of Prune: no tombstone is left
    /\ Finished(op) /\ acked[op]
    /\ call' = [call EXCEPT ![op] = "missing"]
    /\ result' = [result EXCEPT ![op] = "none"]
    /\ UNCHANGED <<rowVars, hubVars, netVars, taskVars, journalId, acked, crashes, cancelled, runs, envVars>>

(* prune(): an acknowledged result past its retention is replaced by a     *)
(* tombstone that keeps the identifier from running again; its cancellation*)
(* is dropped then or, while it is recent, by a later pass.                *)
Prune(op) ==
    /\ Finished(op) /\ acked[op]
    /\ result[op] # "forgotten" \/ op \in cancelled
    /\ result' = [result EXCEPT ![op] = "forgotten"]
    /\ cancelled' \in {cancelled, cancelled \ {op}}
    /\ UNCHANGED <<rowVars, hubVars, netVars, taskVars, journalId, call, acked, crashes, runs, envVars>>

-----------------------------------------------------------------------------
Caller(op) == Admit(op) \/ Cancel(op) \/ Revoke(op) \/ Restore(op) \/ Expire(op)
Prepare(op) == PrepareRefusal(op) \/ PrepareFenced(op) \/ PreparePackets(op)
Send == SendPacket \/ DropPrepared
Receive == ReceiveProgress \/ ReceiveStatus \/ ReceiveResult
Read == ReadCall \/ ReadProbe \/ ReadCancel \/ ReadCancelPending \/ ReadAck
Handle(op) ==
    \/ StartAccepted(op) \/ StartFinished(op)
    \/ Refuse(op) \/ Abandon(op) \/ MarkRunning(op)
    \/ Withhold(op) \/ Execute(op) \/ FinishExecution(op) \/ Persist(op)

Next ==
    \/ \E op \in Ops : Caller(op) \/ Prepare(op) \/ Handle(op) \/ SendOutbox(op) \/ Prune(op)
    \/ Send \/ Receive \/ Read \/ SendReceipt
    \/ Connect \/ HubDetach \/ HubRestart \/ AgentDrop
    \/ Stop \/ Crash \/ Restart \/ LoseJournal

Spec == Init /\ [][Next]_vars
(* The loops that drive delivery: the worker retries every active row, the *)
(* two readers read, every handler runs on, every heartbeat resends the    *)
(* outbox, both sides notice a dead socket and the Agent reconnects.  An   *)
(* operation that began is assumed to return (the tools have time limits). *)
(* The Agent's senders share a socket whose gate serves control frames in  *)
(* the order they queued (SendLock), so none is passed over forever.       *)
Fairness ==
    /\ \A op \in Ops :
          /\ WF_vars(Prepare(op))
          /\ SF_vars(SendOutbox(op))
          /\ SF_vars(Handle(op))
    /\ WF_vars(Send)
    /\ WF_vars(Receive)
    /\ WF_vars(Read)
    /\ SF_vars(SendReceipt)
    /\ WF_vars(Connect)
    /\ WF_vars(hubCon # agentCon /\ HubDetach)
    /\ WF_vars(hubCon # agentCon /\ AgentDrop)
    /\ WF_vars(Restart)

(* Nothing concludes while connections, processes or permissions keep     *)
(* changing: what is promised is promised once they are stable.            *)
Disturbance ==
    \/ HubDetach \/ HubRestart \/ AgentDrop \/ Stop \/ Crash
    \/ \E op \in Ops : Revoke(op) \/ Restore(op)

EventuallyCalm == <>[][~(hubCon = agentCon /\ Disturbance)]_vars

FairSpec == Spec /\ Fairness /\ EventuallyCalm

-----------------------------------------------------------------------------
(* Execution is bounded whatever is lost, resent, restarted or wiped: once *)
(* for a tool with side effects (journal.start and the journal fence of    *)
(* _prepare_delivery), MAX_INTERRUPTED_READS times for a replayable one.   *)
ExecutionBound ==
    \A op \in Ops : runs[op] <= IF op \in Reads THEN MaxInterruptedReads ELSE 1

(* The Agent may forget a result only when the Hub's row holds a verdict:  *)
(* an acknowledgement is never ahead of the row.                           *)
AckedIsStored == \A op \in Ops : acked[op] => verdict[op] # "none"

(* What the Hub shows as the Agent's result is what the journal of the     *)
(* Agent it was sent to says, as long as that journal exists.              *)
VerdictFromJournal ==
    \A op \in Ops : verdict[op] \in Outcomes /\ sentJournal[op] = journalId =>
        Finished(op) /\ result[op] \in {verdict[op], "forgotten"}

(* A row that is settled keeps its state and its result, whatever late,    *)
(* duplicated or reordered receipt, cancellation or restart follows.       *)
SettledStays ==
    [][\A op \in Ops : state[op] \in Settled =>
          state'[op] = state[op] /\ verdict'[op] = verdict[op]]_vars

(* Every admitted operation gets a verdict once the connection is stable.  *)
Concludes == \A op \in Ops : IsActive(op) ~> verdict[op] # "none"

(* Every result the Agent holds is acknowledged, or lost with its journal. *)
OutboxDrains == \A op \in Ops : Finished(op) ~> (acked[op] \/ call[op] = "missing")

(* The whole protocol implements OperationLedger: with every frame loss,   *)
(* restart and retry hidden, a row is concluded once, by a claim that its  *)
(* execution justifies.                                                    *)
PhaseOf(s) ==
    CASE s = "none" -> "none" [] s \in Active -> "open"
      [] s = "needs_review" -> "review" [] s \in Settled -> "settled"

Ledger == INSTANCE OperationLedger WITH
    Replayable <- Reads,
    MaxRuns <- MaxInterruptedReads,
    Verdicts <- Verdicts \ {"forgotten"},
    AfterRun <- {"ok", "killed"},
    BeforeRun <- {"refused", "late"},
    OnRequest <- {"killed", "withdrawn", "unstarted_cancelled"},
    Revisable <- {"interrupted", "journal_changed"},
    phase <- [op \in Ops |-> PhaseOf(state[op])],
    asked <- cancelReq

ImplementsLedger == Ledger!Spec

(* What the Hub tells a caller who cancelled, or whose deadline passed:    *)
(* the operation was not delivered, or the Agent confirmed that it had not *)
(* begun.                                                                  *)
UnstartedMeansNotRun ==
    \A op \in Ops : verdict[op] \in NeverSent \cup Unstarted => runs[op] = 0
=============================================================================
