---------------------- MODULE OperationDeliveryProofs ----------------------
(***************************************************************************)
(* Delivered operations, for any set of operations, any number of          *)
(* connections and journals, and any loss and restart.                     *)
(*                                                                         *)
(* The first part: execution is bounded and nothing acknowledged is        *)
(* forgotten (Core).  The second: what the Hub tells a caller is true,     *)
(* since the verdict it keeps is the outcome in the Agent's journal, and   *)
(* delivery implements OperationLedger.                                    *)
(*                                                                         *)
(* The argument of the second part is one invariant, Reported.  An outcome *)
(* is a claim when it is recorded, and the three places it then passes     *)
(* (the journal, the task that answers a probe, the connection) never      *)
(* disagree about it; what makes that inductive is what is not obvious in  *)
(* the code: a cancellation under way was asked for, and a record that     *)
(* retention may replace by a tombstone is one nobody will ask about       *)
(* again, since its acknowledgement is the last frame of its connection    *)
(* about that operation.                                                   *)
(***************************************************************************)
EXTENDS OperationDelivery, SequenceTheorems, TLAPS

Preparations == [op : Ops, con : 1 .. cons, packets : Seq(Packets) \ {<<>>}]

(* A handler's progress and the journal's record of the call agree.        *)
JobMatchesCall ==
    \A op \in Ops :
        /\ job[op] = "queued" => call[op] = "accepted"
        /\ job[op] \in {"started", "executing"} => call[op] = "running"
        /\ Finishing(op) => call[op] \in {"accepted", "running"}

(* A finished record holds a result.                                       *)
FinishedHasResult == \A op \in Ops : Finished(op) => result[op] # "none"

(* Only replayable operations are counted, and what may still run was      *)
(* interrupted less often than the limit.                                  *)
CrashRoom ==
    \A op \in Ops :
        /\ ~Finished(op) => crashes[op] < MaxInterruptedReads
        /\ op \notin Reads => crashes[op] = 0

Typed == TypeOK /\ JobMatchesCall /\ FinishedHasResult /\ CrashRoom

(* The journal a row was sent to, and the one of the connection, have      *)
(* existed; an intact connection leads to the current one.                 *)
JournalOrder ==
    /\ hubJournal <= journalId
    /\ \A op \in Ops : sentJournal[op] <= journalId
    /\ agentCon # 0 /\ hubCon = agentCon => hubJournal = journalId
    /\ agentCon = 0 => down = <<>>

CallPrepared(op) ==
    \E i \in DOMAIN prepared :
        /\ prepared[i].op = op
        /\ prepared[i].con = hubCon
        /\ \E k \in DOMAIN prepared[i].packets : prepared[i].packets[k] = "call"

CallFlying(op) == \E i \in DOMAIN down : down[i] = [type |-> "call", op |-> op]

(* Whatever may start an operation at the Agent, or has started it, belongs*)
(* to a call that was sent to the journal the Agent has now.               *)
CallsAreCurrent ==
    \A op \in Ops :
        \/ job[op] # "none"
        \/ call[op] # "missing"
        \/ CallFlying(op)
        \/ CallPrepared(op) /\ agentCon # 0 /\ hubCon = agentCon
        => sentJournal[op] = journalId

(* An operation that may still begin in this journal began at most as      *)
(* often as its interruptions were counted.                                *)
Fresh(op) == call[op] \in {"missing", "accepted", "retryable"} \/ job[op] = "started"

RunsAreCounted ==
    \A op \in Ops :
        /\ sentJournal[op] = 0 => runs[op] = 0
        /\ sentJournal[op] = journalId /\ Fresh(op) => runs[op] <= crashes[op]
        /\ call[op] = "running" => runs[op] <= crashes[op] + 1

USE OpsAssumption, BoundsAssumption

-----------------------------------------------------------------------------
(* Facts about sequences of frames.                                        *)

LEMMA TailType ==
    ASSUME NEW S, NEW s \in Seq(S), s # <<>>
    PROVE  /\ Tail(s) \in Seq(S)
           /\ Head(s) \in S
           /\ \A i \in DOMAIN Tail(s) : i + 1 \in DOMAIN s /\ Tail(s)[i] = s[i + 1]
  BY HeadTailProperties

LEMMA PrefixType ==
    ASSUME NEW S, NEW s \in Seq(S), NEW t \in SomePrefix(s)
    PROVE  /\ t \in Seq(S)
           /\ \A i \in DOMAIN t : i \in DOMAIN s /\ t[i] = s[i]
<1>1. PICK n \in 0 .. Len(s) : t = SubSeq(s, 1, n)
  BY DEF SomePrefix
<1>2. Len(s) \in Nat
  BY LenProperties
<1> QED BY <1>1, <1>2, SubSeqProperties

LEMMA HubSendsType ==
    ASSUME NEW frame \in DownFrames, down \in Seq(DownFrames), HubSends(frame)
    PROVE  down' \in Seq(DownFrames)
  BY AppendProperties DEF HubSends

LEMMA AgentSendsType ==
    ASSUME NEW frame \in UpFrames, up \in Seq(UpFrames), AgentSends(frame)
    PROVE  up' \in Seq(UpFrames)
  BY AppendProperties DEF AgentSends

LEMMA ReceiptType ==
    ASSUME NEW op \in Ops, Typed
    PROVE  Receipt(op) \in UpFrames
<1>1. call[op] \in CallStates /\ result[op] \in Results \cup {"none"}
  BY DEF Typed, TypeOK
<1>2. Finished(op) => result[op] \in Results
  BY <1>1 DEF Typed, FinishedHasResult
<1> QED BY <1>1, <1>2 DEF Receipt, UpFrames

-----------------------------------------------------------------------------
(* Types.                                                                  *)

RowTyped ==
    /\ state \in [Ops -> States]
    /\ attempted \in [Ops -> BOOLEAN]
    /\ accepted \in [Ops -> BOOLEAN]
    /\ cancelReq \in [Ops -> BOOLEAN]
    /\ sentJournal \in [Ops -> 0 .. MaxJournals]
    /\ verdict \in [Ops -> Verdicts \cup {"none"}]

LinkTyped ==
    /\ cons \in 0 .. MaxConnections
    /\ hubCon \in 0 .. cons
    /\ hubJournal \in 0 .. MaxJournals
    /\ prepared \in Seq(Preparations)
    /\ down \in Seq(DownFrames)
    /\ up \in Seq(UpFrames)

TaskTyped ==
    /\ agentCon \in 0 .. cons
    /\ stopping \in BOOLEAN
    /\ job \in [Ops -> JobStates]
    /\ reader \in Seq(UpFrames)

JournalTyped ==
    /\ journalId \in 1 .. MaxJournals
    /\ call \in [Ops -> CallStates]
    /\ result \in [Ops -> Results \cup {"none"}]
    /\ acked \in [Ops -> BOOLEAN]
    /\ crashes \in [Ops -> 0 .. MaxInterruptedReads]
    /\ cancelled \in SUBSET Ops

RestTyped ==
    /\ expired \in SUBSET Ops
    /\ denied \in SUBSET Ops
    /\ runs \in [Ops -> Nat]

AgentSound == JobMatchesCall /\ FinishedHasResult /\ CrashRoom

LEMMA TypedParts ==
    /\ Typed <=> RowTyped /\ LinkTyped /\ TaskTyped /\ JournalTyped /\ RestTyped /\ AgentSound
    /\ Typed' <=> RowTyped' /\ LinkTyped' /\ TaskTyped' /\ JournalTyped' /\ RestTyped' /\ AgentSound'
  BY DEF Typed, TypeOK, RowTyped, LinkTyped, TaskTyped, JournalTyped, RestTyped, AgentSound, Preparations

LEMMA TypedInit == Init => Typed
<1> SUFFICES ASSUME Init PROVE Typed
  OBVIOUS
<1>1. RowTyped
  BY DEF Init, RowTyped, States, Active, Settled, Verdicts
<1>2. LinkTyped
  BY EmptySeq DEF Init, LinkTyped
<1>3. TaskTyped
  <2>1. agentCon \in 0 .. cons /\ job \in [Ops -> JobStates]
    BY DEF Init, JobStates
  <2>2. stopping \in BOOLEAN
    BY DEF Init
  <2>3. reader \in Seq(UpFrames)
    BY EmptySeq DEF Init
  <2> QED BY <2>1, <2>2, <2>3 DEF TaskTyped
<1>4. JournalTyped
  BY DEF Init, JournalTyped, CallStates
<1>5. RestTyped
  BY DEF Init, RestTyped
<1>6. AgentSound
  BY DEF Init, AgentSound, JobMatchesCall, FinishedHasResult, CrashRoom, Finished, Finishing, Outcomes
<1> QED BY <1>1, <1>2, <1>3, <1>4, <1>5, <1>6, TypedParts

LEMMA CompleteType ==
    ASSUME NEW op \in Ops, NEW v \in Verdicts, Complete(op, v), RowTyped
    PROVE  state' \in [Ops -> States] /\ verdict' \in [Ops -> Verdicts \cup {"none"}]
<1>1. StateOf(v) \in States
  BY DEF StateOf, States, Settled, Active
<1> QED BY <1>1 DEF Complete, RowTyped

(* What an action leaves alone stays typed.                                *)
LEMMA SameTyped ==
    /\ RowTyped /\ UNCHANGED rowVars => RowTyped'
    /\ LinkTyped /\ UNCHANGED <<hubVars, netVars>> => LinkTyped'
    /\ TaskTyped /\ UNCHANGED <<taskVars, cons>> => TaskTyped'
    /\ JournalTyped /\ UNCHANGED journalVars => JournalTyped'
    /\ RestTyped /\ UNCHANGED <<envVars, runs>> => RestTyped'
    /\ AgentSound /\ UNCHANGED <<job, call, result, crashes>> => AgentSound'
<1>1. RowTyped /\ UNCHANGED rowVars => RowTyped'
  BY DEF RowTyped, rowVars
<1>2. LinkTyped /\ UNCHANGED <<hubVars, netVars>> => LinkTyped'
  BY DEF LinkTyped, hubVars, netVars, Preparations
<1>3. TaskTyped /\ UNCHANGED <<taskVars, cons>> => TaskTyped'
  BY DEF TaskTyped, taskVars
<1>4. JournalTyped /\ UNCHANGED journalVars => JournalTyped'
  BY DEF JournalTyped, journalVars
<1>5. RestTyped /\ UNCHANGED <<envVars, runs>> => RestTyped'
  BY DEF RestTyped, envVars
<1>6. AgentSound /\ UNCHANGED <<job, call, result, crashes>> => AgentSound'
  BY DEF AgentSound, JobMatchesCall, FinishedHasResult, CrashRoom, Finished, Finishing
<1> QED BY <1>1, <1>2, <1>3, <1>4, <1>5, <1>6

(* Callers and policy.                                                     *)
LEMMA TypedCaller ==
    ASSUME Typed, NEW op \in Ops, Caller(op)
    PROVE  Typed'
<1> USE TypedParts
<1>1. LinkTyped' /\ TaskTyped' /\ JournalTyped' /\ AgentSound'
  <2>1. UNCHANGED <<hubVars, netVars, taskVars, journalVars, runs>>
    BY DEF Caller, Admit, Cancel, Revoke, Restore, Expire, agentVars
  <2> QED BY <2>1, SameTyped DEF netVars, taskVars, journalVars
<1>2. RestTyped'
  BY DEF Caller, Admit, Cancel, Revoke, Restore, Expire, agentVars, envVars, RestTyped
<1>3. RowTyped'
  <2>1. CASE Admit(op)
    BY <2>1 DEF Admit, RowTyped, States, Active
  <2>2. CASE Cancel(op)
    <3>1. CASE attempted[op]
      BY <2>2, <3>1 DEF Cancel, RowTyped, States, Active
    <3>2. CASE ~attempted[op]
      <4>1. Complete(op, "withdrawn")
        BY <2>2, <3>2 DEF Cancel
      <4>2. state' \in [Ops -> States] /\ verdict' \in [Ops -> Verdicts \cup {"none"}]
        BY <4>1, CompleteType DEF Verdicts, HubClaims, NeverSent
      <4> QED BY <2>2, <4>2 DEF Cancel, RowTyped
    <3> QED BY <3>1, <3>2
  <2>3. CASE Revoke(op) \/ Restore(op) \/ Expire(op)
    <3>1. UNCHANGED rowVars
      BY <2>3 DEF Revoke, Restore, Expire
    <3> QED BY <3>1, SameTyped
  <2> QED BY <2>1, <2>2, <2>3 DEF Caller
<1> QED BY <1>1, <1>2, <1>3

(* The delivery worker.                                                    *)
LEMMA TypedConclude ==
    ASSUME Typed, NEW op \in Ops, PrepareRefusal(op) \/ PrepareFenced(op)
    PROVE  Typed'
<1> USE TypedParts
<1>1. UNCHANGED <<hubVars, netVars, agentVars, envVars>>
  BY DEF PrepareRefusal, PrepareFenced
<1>2. LinkTyped' /\ TaskTyped' /\ JournalTyped' /\ RestTyped' /\ AgentSound'
  BY <1>1, SameTyped DEF agentVars, netVars, taskVars, journalVars
<1>3. RowTyped'
  <2>1. \E v \in Verdicts : Complete(op, v)
    BY DEF PrepareRefusal, PrepareFenced, Verdicts, HubClaims, NeverSent
  <2>2. state' \in [Ops -> States] /\ verdict' \in [Ops -> Verdicts \cup {"none"}]
    BY <2>1, CompleteType
  <2>3. UNCHANGED <<attempted, accepted, cancelReq, sentJournal>>
    BY DEF PrepareRefusal, PrepareFenced
  <2> QED BY <2>2, <2>3 DEF RowTyped
<1> QED BY <1>2, <1>3

LEMMA FenceType ==
    ASSUME NEW op \in Ops, NEW last \in {"probe", "call"}
    PROVE  /\ Fence(op) \o <<last>> \in Seq(Packets) \ {<<>>}
           /\ \A k \in DOMAIN (Fence(op) \o <<last>>) :
                 (Fence(op) \o <<last>>)[k] = "call" => last = "call"
<1> DEFINE one == <<last>>
<1>1. one \in Seq(Packets) /\ Len(one) = 1 /\ one[1] = last
  BY DEF Packets
<1>2. Fence(op) \in Seq(Packets) /\ \A k \in DOMAIN Fence(op) : Fence(op)[k] # "call"
  <2>1. <<"cancel">> \in Seq(Packets) /\ <<"cancel_pending">> \in Seq(Packets) /\ <<>> \in Seq(Packets)
    BY DEF Packets
  <2>2. CASE Fence(op) = <<"cancel">>
    BY <2>1, <2>2
  <2>3. CASE Fence(op) = <<"cancel_pending">>
    BY <2>1, <2>3
  <2>4. CASE Fence(op) = <<>>
    BY <2>1, <2>4
  <2> QED BY <2>2, <2>3, <2>4 DEF Fence
<1> HIDE DEF one
<1>3. Fence(op) \o one \in Seq(Packets) /\ Len(Fence(op) \o one) = Len(Fence(op)) + 1
  BY <1>1, <1>2, ConcatProperties
<1>4. Len(Fence(op)) \in Nat
  BY <1>2, LenProperties
<1>5. Fence(op) \o one # <<>>
  BY <1>3, <1>4
<1>6. ASSUME NEW k \in DOMAIN (Fence(op) \o one), (Fence(op) \o one)[k] = "call"
      PROVE  last = "call"
  <2>1. k \in 1 .. Len(Fence(op)) + 1
    BY <1>3
  <2>2. (Fence(op) \o one)[k] = IF k <= Len(Fence(op)) THEN Fence(op)[k] ELSE one[k - Len(Fence(op))]
    BY <1>1, <1>2, <2>1, ConcatProperties
  <2>3. k > Len(Fence(op))
    BY <1>2, <1>4, <1>6, <2>1, <2>2
  <2>4. k - Len(Fence(op)) = 1
    BY <1>4, <2>1, <2>3
  <2> QED BY <1>1, <1>6, <2>2, <2>3, <2>4
<1> QED BY <1>3, <1>5, <1>6 DEF one

LEMMA TypedPreparePackets ==
    ASSUME Typed, NEW op \in Ops, PreparePackets(op)
    PROVE  Typed'
<1> USE TypedParts
<1> DEFINE last == IF Probing(op) THEN "probe" ELSE "call"
<1> DEFINE item == [op |-> op, con |-> hubCon, packets |-> Fence(op) \o <<last>>]
<1>1. UNCHANGED <<state, accepted, cancelReq, verdict, hubCon, hubJournal, netVars, agentVars, envVars>>
  BY DEF PreparePackets
<1>2. TaskTyped' /\ JournalTyped' /\ RestTyped' /\ AgentSound'
  BY <1>1, SameTyped DEF agentVars, netVars, taskVars, journalVars
<1>3. RowTyped'
  BY DEF PreparePackets, RowTyped, LinkTyped
<1>4. LinkTyped'
  <2>1. Fence(op) \o <<last>> \in Seq(Packets) \ {<<>>}
    BY FenceType
  <2>2. item \in Preparations
    BY <2>1 DEF PreparePackets, LinkTyped, Preparations
  <2>3. prepared' = Append(prepared, item)
    BY DEF PreparePackets
  <2>4. prepared' \in Seq(Preparations)
    BY <2>2, <2>3, AppendProperties DEF LinkTyped
  <2> QED BY <1>1, <2>4 DEF LinkTyped, netVars, Preparations
<1> QED BY <1>2, <1>3, <1>4

LEMMA TypedSend ==
    ASSUME Typed, Send
    PROVE  Typed'
<1> USE TypedParts
<1>1. UNCHANGED <<rowVars, hubCon, hubJournal, cons, up, agentVars, envVars>>
  BY DEF Send, SendPacket, DropPrepared, netVars
<1>2. RowTyped' /\ TaskTyped' /\ JournalTyped' /\ RestTyped' /\ AgentSound'
  BY <1>1, SameTyped DEF agentVars, taskVars, journalVars
<1> DEFINE head == Head(prepared)
<1>3. prepared # <<>>
  BY DEF Send, SendPacket, DropPrepared
<1>4. head \in Preparations /\ Tail(prepared) \in Seq(Preparations) /\ prepared \in Seq(Preparations)
  BY <1>3, TailType DEF LinkTyped
<1>5. head.op \in Ops /\ head.packets \in Seq(Packets) /\ head.packets # <<>>
  BY <1>4 DEF Preparations
<1>6. Head(head.packets) \in Packets /\ Tail(head.packets) \in Seq(Packets)
  BY <1>5, TailType
<1>7. prepared' \in Seq(Preparations)
  <2>1. CASE prepared' = Tail(prepared)
    BY <1>4, <2>1
  <2>2. CASE SendPacket /\ Len(head.packets) # 1
    <3>1. prepared' = [prepared EXCEPT ![1].packets = Tail(@)]
      BY <2>2 DEF SendPacket
    <3>2. 1 \in DOMAIN prepared /\ prepared[1] = head
      BY <1>3, <1>4
    <3>3. Tail(head.packets) # <<>>
      <4>1. Len(head.packets) \in Nat /\ Len(head.packets) # 0
        BY <1>5, LenProperties, EmptySeq
      <4>2. Len(Tail(head.packets)) = Len(head.packets) - 1
        BY <1>5, HeadTailProperties
      <4>3. Len(Tail(head.packets)) # 0
        BY <2>2, <4>1, <4>2
      <4> HIDE DEF head
      <4> QED BY <4>3, EmptySeq
    <3>4. [head EXCEPT !.packets = Tail(@)] \in Preparations
      BY <1>4, <1>6, <3>3 DEF Preparations
    <3>5. prepared' = [prepared EXCEPT ![1] = [head EXCEPT !.packets = Tail(@)]]
      BY <3>1, <3>2
    <3> HIDE DEF head
    <3> QED BY <1>4, <3>2, <3>4, <3>5
  <2> QED BY <2>1, <2>2 DEF Send, SendPacket, DropPrepared
<1>8. down' \in Seq(DownFrames)
  <2>1. CASE SendPacket
    <3>1. [type |-> Head(head.packets), op |-> head.op] \in DownFrames
      BY <1>5, <1>6 DEF DownFrames
    <3>2. HubSends([type |-> Head(head.packets), op |-> head.op])
      BY <2>1 DEF SendPacket
    <3> QED BY <3>1, <3>2, HubSendsType DEF LinkTyped
  <2>2. CASE DropPrepared
    BY <2>2 DEF DropPrepared, netVars, LinkTyped
  <2> QED BY <2>1, <2>2 DEF Send
<1> QED BY <1>1, <1>2, <1>7, <1>8 DEF LinkTyped, Preparations

(* Receipts at the Hub.                                                    *)
LEMMA ReceivedFrame ==
    ASSUME Typed, NEW type, Receiving(type)
    PROVE  /\ Head(up) \in UpFrames
           /\ Head(up).op \in Ops
           /\ type = "result" => Head(up).result \in Results
           /\ up' \in Seq(UpFrames)
<1>1. up # <<>> /\ up \in Seq(UpFrames) /\ up' = Tail(up) /\ Head(up).type = type
  BY DEF Receiving, Typed, TypeOK
<1>2. Head(up) \in UpFrames /\ Tail(up) \in Seq(UpFrames)
  BY <1>1, TailType
<1>3. Head(up).op \in Ops /\ (Head(up).type = "result" => Head(up).result \in Results)
  BY <1>2 DEF UpFrames
<1> QED BY <1>1, <1>2, <1>3

(* Whatever a receipt says, the row it changes keeps its type.             *)
RowStep(op) ==
    \/ \E v \in Verdicts : Complete(op, v) /\ UNCHANGED <<accepted, attempted>>
    \/ \E running \in BOOLEAN : Confirm(op, running) /\ UNCHANGED <<attempted, verdict>>
    \/ Requeue(op)
    \/ UNCHANGED <<state, accepted, attempted, verdict>>

LEMMA RowStepTyped ==
    ASSUME RowTyped, NEW op \in Ops, RowStep(op), UNCHANGED <<cancelReq, sentJournal>>
    PROVE  RowTyped'
<1>1. CASE \E v \in Verdicts : Complete(op, v) /\ UNCHANGED <<accepted, attempted>>
  <2>1. state' \in [Ops -> States] /\ verdict' \in [Ops -> Verdicts \cup {"none"}]
    BY <1>1, CompleteType
  <2> QED BY <1>1, <2>1 DEF RowTyped
<1>2. CASE \E running \in BOOLEAN : Confirm(op, running) /\ UNCHANGED <<attempted, verdict>>
  BY <1>2 DEF Confirm, RowTyped, States, Active
<1>3. CASE Requeue(op)
  BY <1>3 DEF Requeue, RowTyped, States, Active
<1>4. CASE UNCHANGED <<state, accepted, attempted, verdict>>
  BY <1>4 DEF RowTyped
<1> QED BY <1>1, <1>2, <1>3, <1>4 DEF RowStep

LEMMA ReceiveRowStep ==
    ASSUME Typed, Receive
    PROVE  \E op \in Ops : RowStep(op) /\ UNCHANGED <<cancelReq, sentJournal>>
<1>1. CASE ReceiveProgress
  <2>1. PICK type \in {"accepted", "started"} :
            /\ Receiving(type)
            /\ IF Fenced(Head(up).op) THEN Resolve(Head(up).op, "journal_changed")
               ELSE Confirm(Head(up).op, type = "started") /\ UNCHANGED <<attempted, verdict>>
            /\ UNCHANGED <<cancelReq, sentJournal, down>>
    BY <1>1 DEF ReceiveProgress
  <2>2. Head(up).op \in Ops
    BY <2>1, ReceivedFrame
  <2>3. RowStep(Head(up).op)
    BY <2>1 DEF RowStep, Resolve, Verdicts, HubClaims
  <2> QED BY <2>1, <2>2, <2>3
<1>2. CASE ReceiveStatus
  <2>1. Head(up).op \in Ops
    BY <1>2, ReceivedFrame DEF ReceiveStatus
  <2>2. RowStep(Head(up).op)
    BY <1>2 DEF ReceiveStatus, RowStep, Resolve, Verdicts, HubClaims, Unstarted
  <2> QED BY <1>2, <2>1, <2>2 DEF ReceiveStatus
<1>3. CASE ReceiveResult
  <2>1. Head(up).op \in Ops /\ Head(up).result \in Results
    BY <1>3, ReceivedFrame DEF ReceiveResult
  <2>2. RowStep(Head(up).op)
    BY <1>3, <2>1 DEF ReceiveResult, RowStep, Verdicts, HubClaims
  <2> QED BY <1>3, <2>1, <2>2 DEF ReceiveResult
<1> QED BY <1>1, <1>2, <1>3 DEF Receive

LEMMA ReceiveFrame ==
    ASSUME Typed, Receive
    PROVE  /\ \E type : Receiving(type)
           /\ down' = down \/ \E op \in Ops : Acknowledge(op)
<1>1. CASE ReceiveProgress
  BY <1>1 DEF ReceiveProgress
<1>2. CASE ReceiveStatus
  BY <1>2 DEF ReceiveStatus
<1>3. CASE ReceiveResult
  <2>1. Head(up).op \in Ops
    BY <1>3, ReceivedFrame DEF ReceiveResult
  <2> QED BY <1>3, <2>1 DEF ReceiveResult
<1> QED BY <1>1, <1>2, <1>3 DEF Receive

LEMMA TypedReceive ==
    ASSUME Typed, Receive
    PROVE  Typed'
<1> USE TypedParts
<1>1. PICK type : Receiving(type)
  BY ReceiveFrame
<1>2. UNCHANGED <<cons, hubVars, agentVars, envVars>>
  BY <1>1 DEF Receiving
<1>3. TaskTyped' /\ JournalTyped' /\ RestTyped' /\ AgentSound'
  BY <1>2, SameTyped DEF agentVars, taskVars, journalVars
<1>4. RowTyped'
  BY ReceiveRowStep, RowStepTyped
<1>5. up' \in Seq(UpFrames)
  BY <1>1, ReceivedFrame
<1>6. down' \in Seq(DownFrames)
  <2>1. CASE down' = down
    BY <2>1 DEF LinkTyped
  <2>2. ASSUME NEW op \in Ops, Acknowledge(op)
        PROVE  down' \in Seq(DownFrames)
    <3>1. [type |-> "ack", op |-> op] \in DownFrames
      BY DEF DownFrames
    <3> QED BY <2>2, <3>1, HubSendsType DEF Acknowledge, LinkTyped
  <2> QED BY <2>1, <2>2, ReceiveFrame
<1> QED BY <1>2, <1>3, <1>4, <1>5, <1>6 DEF LinkTyped, hubVars, Preparations

(* Connections and the Hub's restart.                                      *)
LEMMA PreparationsGrow ==
    ASSUME Typed, cons' = cons + 1
    PROVE  prepared \in Seq(Preparations')
<1>1. cons \in Nat /\ prepared \in Seq(Preparations)
  BY TypedParts DEF LinkTyped
<1>2. \A p \in Preparations : p \in Preparations'
  BY <1>1 DEF Preparations
<1>3. prepared \in [1 .. Len(prepared) -> Preparations] /\ Len(prepared) \in Nat
  BY <1>1, LenProperties
<1>4. prepared \in [1 .. Len(prepared) -> Preparations']
  BY <1>2, <1>3
<1> QED BY <1>3, <1>4

LEMMA TypedConnect ==
    ASSUME Typed, Connect
    PROVE  Typed'
<1> USE TypedParts
<1>1. RowTyped' /\ JournalTyped' /\ RestTyped' /\ AgentSound'
  BY SameTyped DEF Connect, journalVars
<1>2. TaskTyped'
  BY DEF Connect, TaskTyped, LinkTyped
<1>3. LinkTyped'
  <2>1. prepared' \in Seq(Preparations')
    BY PreparationsGrow DEF Connect
  <2>2. cons' \in 0 .. MaxConnections /\ hubCon' \in 0 .. cons' /\ hubJournal' \in 0 .. MaxJournals
    BY DEF Connect, LinkTyped, JournalTyped
  <2>3. down' \in Seq(DownFrames) /\ up' \in Seq(UpFrames)
    BY EmptySeq DEF Connect
  <2> QED BY <2>1, <2>2, <2>3 DEF LinkTyped
<1> QED BY <1>1, <1>2, <1>3

LEMMA TypedHubLoss ==
    ASSUME Typed, HubDetach \/ HubRestart
    PROVE  Typed'
<1> USE TypedParts
<1>1. TaskTyped' /\ JournalTyped' /\ RestTyped' /\ AgentSound'
  BY SameTyped DEF HubDetach, HubRestart, agentVars, taskVars, journalVars
<1>2. RowTyped'
  BY DEF HubDetach, HubRestart, RowTyped, Disconnected, States, Active
<1>3. LinkTyped'
  <2>1. down' \in Seq(DownFrames)
    BY PrefixType DEF HubDetach, HubRestart, LinkTyped
  <2>2. prepared' \in Seq(Preparations) /\ up' \in Seq(UpFrames)
    BY EmptySeq DEF HubDetach, HubRestart, LinkTyped
  <2>3. hubCon' = 0 /\ hubJournal' = 0 /\ cons' = cons
    BY DEF HubDetach, HubRestart
  <2> QED BY <2>1, <2>2, <2>3 DEF LinkTyped, Preparations
<1> QED BY <1>1, <1>2, <1>3

(* The socket and the reader at the Agent.                                 *)
LEMMA LoseSocketTyped ==
    ASSUME Typed, LoseSocket, UNCHANGED <<hubVars, cons, stopping>>,
           job' \in [Ops -> JobStates]
    PROVE  LinkTyped' /\ TaskTyped'
<1> USE TypedParts
<1>1. up' \in Seq(UpFrames)
  BY PrefixType DEF LoseSocket, LinkTyped
<1>2. down' \in Seq(DownFrames) /\ reader' \in Seq(UpFrames)
  BY EmptySeq DEF LoseSocket
<1>3. LinkTyped'
  BY <1>1, <1>2 DEF LinkTyped, hubVars, Preparations
<1>4. agentCon' \in 0 .. cons'
  BY DEF LoseSocket, LinkTyped
<1>5. TaskTyped'
  BY <1>2, <1>4 DEF TaskTyped
<1> QED BY <1>3, <1>5

LEMMA TypedAgentDrop ==
    ASSUME Typed, AgentDrop
    PROVE  Typed'
<1> USE TypedParts
<1>1. RowTyped' /\ JournalTyped' /\ RestTyped'
  BY SameTyped DEF AgentDrop
<1>2. AgentSound'
  BY SameTyped DEF AgentDrop, journalVars
<1>3. LinkTyped' /\ TaskTyped'
  BY LoseSocketTyped DEF AgentDrop, TaskTyped
<1> QED BY <1>1, <1>2, <1>3

LEMMA TypedSendReceipt ==
    ASSUME Typed, SendReceipt
    PROVE  Typed'
<1> USE TypedParts
<1>1. RowTyped' /\ JournalTyped' /\ RestTyped'
  BY SameTyped DEF SendReceipt
<1>2. AgentSound'
  BY SameTyped DEF SendReceipt, journalVars
<1>3. Head(reader) \in UpFrames
  BY TailType DEF SendReceipt, TaskTyped
<1>4. up' \in Seq(UpFrames)
  BY <1>3, AgentSendsType DEF SendReceipt, LinkTyped
<1>5. LinkTyped'
  BY <1>4 DEF SendReceipt, LinkTyped, hubVars, Preparations
<1>6. TaskTyped'
  BY EmptySeq DEF SendReceipt, TaskTyped
<1> QED BY <1>1, <1>2, <1>5, <1>6

LEMMA TypedSendOutbox ==
    ASSUME Typed, NEW op \in Ops, SendOutbox(op)
    PROVE  Typed'
<1> USE TypedParts
<1>1. UNCHANGED <<rowVars, hubVars, cons, down, agentVars, envVars>>
  BY DEF SendOutbox
<1>2. RowTyped' /\ TaskTyped' /\ JournalTyped' /\ RestTyped' /\ AgentSound'
  BY <1>1, SameTyped DEF agentVars, taskVars, journalVars
<1>3. up' \in Seq(UpFrames)
  BY ReceiptType, AgentSendsType DEF SendOutbox, LinkTyped
<1> QED BY <1>1, <1>2, <1>3 DEF LinkTyped, hubVars, Preparations

(* What the reader does of a frame touches neither the calls nor their     *)
(* results.                                                                *)
LEMMA ReadFacts ==
    ASSUME Typed, Read
    PROVE  /\ agentCon # 0 /\ down # <<>> /\ down' = Tail(down)
           /\ Head(down) \in DownFrames /\ Head(down).op \in Ops
           /\ UNCHANGED <<rowVars, hubVars, cons, up, agentCon, stopping, runs, envVars>>
           /\ UNCHANGED <<journalId, call, result, crashes>>
<1>1. PICK type : Reading(type)
  BY DEF Read, ReadCall, ReadProbe, ReadCancel, ReadCancelPending, ReadAck
<1>2. Head(down) \in DownFrames
  BY <1>1, TypedParts, TailType DEF Reading, LinkTyped
<1>3. UNCHANGED <<journalId, call, result, crashes>>
  BY DEF Read, ReadCall, ReadProbe, ReadCancel, ReadCancelPending, ReadAck,
         Report, CancelCall, journalVars
<1> QED BY <1>1, <1>2, <1>3 DEF Reading, DownFrames

(* A handler the reader creates is new; one that it wakes was queued.      *)
LEMMA ReadJob ==
    ASSUME Typed, Read
    PROVE  LET op == Head(down).op IN
           \/ job' = job
           \/ job[op] = "none" /\ Head(down).type = "call" /\ job' = [job EXCEPT ![op] = "new"]
           \/ job[op] = "queued" /\ call[op] = "accepted" /\ job' = [job EXCEPT ![op] = "refused"]
  BY DEF Read, ReadCall, ReadProbe, ReadCancel, ReadCancelPending, ReadAck,
         Reading, Report, CancelCall

LEMMA TypedRead ==
    ASSUME Typed, Read
    PROVE  Typed'
<1> USE TypedParts
<1> DEFINE op == Head(down).op
<1>1. op \in Ops
  BY ReadFacts
<1>2. RowTyped' /\ RestTyped'
  BY ReadFacts, SameTyped
<1>3. LinkTyped'
  <2>1. down' \in Seq(DownFrames)
    BY ReadFacts, TailType DEF LinkTyped
  <2> QED BY <2>1, ReadFacts DEF LinkTyped, hubVars, Preparations
<1>4. TaskTyped'
  <2>1. job' \in [Ops -> JobStates]
    BY <1>1, ReadJob DEF TaskTyped, JobStates, Outcomes
  <2>2. reader' \in Seq(UpFrames)
    <3>1. CASE reader' = reader
      BY <3>1 DEF TaskTyped
    <3>2. CASE reader' = <<Receipt(op)>>
      <4>1. Receipt(op) \in UpFrames
        BY <1>1, ReceiptType
      <4> HIDE DEF op
      <4> QED BY <3>2, <4>1
    <3> QED BY <3>1, <3>2 DEF Read, ReadCall, ReadProbe, ReadCancel, ReadCancelPending,
                              ReadAck, Report
  <2>3. agentCon' \in 0 .. cons' /\ stopping' = stopping
    BY ReadFacts DEF TaskTyped
  <2> QED BY <2>1, <2>2, <2>3 DEF TaskTyped
<1>5. JournalTyped'
  <2>1. acked' \in [Ops -> BOOLEAN]
    BY DEF Read, ReadCall, ReadProbe, ReadCancel, ReadCancelPending, ReadAck,
           Report, CancelCall, journalVars, JournalTyped
  <2>2. cancelled' \in SUBSET Ops
    BY <1>1 DEF Read, ReadCall, ReadProbe, ReadCancel, ReadCancelPending, ReadAck,
           Report, CancelCall, journalVars, JournalTyped
  <2> QED BY <2>1, <2>2, ReadFacts DEF JournalTyped
<1>6. AgentSound'
  <2>1. UNCHANGED <<call, result, crashes>>
    BY ReadFacts
  <2>2. JobMatchesCall'
    <3>1. CASE job' = job
      BY <2>1, <3>1 DEF AgentSound, JobMatchesCall, Finishing
    <3>2. CASE job' = [job EXCEPT ![op] = "new"]
      BY <2>1, <3>2 DEF AgentSound, JobMatchesCall, Finishing, Outcomes, TaskTyped
    <3>3. CASE call[op] = "accepted" /\ job' = [job EXCEPT ![op] = "refused"]
      BY <2>1, <3>3 DEF AgentSound, JobMatchesCall, Finishing, TaskTyped
    <3> QED BY <3>1, <3>2, <3>3, ReadJob
  <2> QED BY <2>1, <2>2 DEF AgentSound, FinishedHasResult, CrashRoom, Finished
<1> QED BY <1>2, <1>3, <1>4, <1>5, <1>6

(* The handlers.                                                           *)
LEMMA HandleFacts ==
    ASSUME NEW op \in Ops, Handle(op)
    PROVE  /\ UNCHANGED <<rowVars, hubVars, cons, down, agentCon, stopping, reader, envVars>>
           /\ UNCHANGED <<journalId, crashes, cancelled>>
  BY DEF Handle, StartAccepted, StartFinished, Refuse, Abandon, MarkRunning, Withhold,
         Execute, FinishExecution, Persist, Handling, journalVars

LEMMA HandleSends ==
    ASSUME Typed, NEW op \in Ops, Handle(op)
    PROVE  up' \in Seq(UpFrames)
<1> USE TypedParts
<1>1. up \in Seq(UpFrames)
  BY DEF LinkTyped
<1>2. CASE StartAccepted(op)
  <2>1. [type |-> "accepted", op |-> op] \in UpFrames
    BY DEF UpFrames
  <2> QED BY <1>1, <1>2, <2>1, AgentSendsType DEF StartAccepted
<1>3. CASE StartFinished(op)
  BY <1>1, <1>3, ReceiptType, AgentSendsType DEF StartFinished
<1>4. CASE MarkRunning(op)
  <2>1. [type |-> "started", op |-> op] \in UpFrames
    BY DEF UpFrames
  <2> QED BY <1>1, <1>4, <2>1, AgentSendsType DEF MarkRunning
<1>5. CASE Persist(op)
  <2>1. [type |-> "result", op |-> op, result |-> job[op]] \in UpFrames
    BY <1>5 DEF UpFrames, Results, Persist, Finishing
  <2> QED BY <1>1, <1>5, <2>1, AgentSendsType DEF Persist
<1>6. CASE up' = up
  BY <1>1, <1>6
<1> QED BY <1>2, <1>3, <1>4, <1>5, <1>6
        DEF Handle, Refuse, Abandon, Withhold, Execute, FinishExecution

(* What a handler's step makes of its job and of its record.               *)
HandlerStep(op) ==
    \/ /\ job[op] = "new" /\ call[op] \in {"missing", "retryable"}
       /\ job' = [job EXCEPT ![op] = "queued"]
       /\ call' = [call EXCEPT ![op] = "accepted"]
       /\ result' = [result EXCEPT ![op] = "none"]
       /\ UNCHANGED runs
    \/ /\ job[op] # "none"
       /\ job' = [job EXCEPT ![op] = "none"]
       /\ UNCHANGED <<call, result, runs>>
    \/ /\ job[op] \in {"queued", "started", "executing"}
       /\ \E o \in Outcomes : job' = [job EXCEPT ![op] = o]
       /\ UNCHANGED <<call, result, runs>>
    \/ /\ job[op] = "queued"
       /\ job' = [job EXCEPT ![op] = "started"]
       /\ call' = [call EXCEPT ![op] = "running"]
       /\ UNCHANGED <<result, runs>>
    \/ /\ job[op] = "started"
       /\ job' = [job EXCEPT ![op] = "executing"]
       /\ runs' = [runs EXCEPT ![op] = @ + 1]
       /\ UNCHANGED <<call, result>>
    \/ /\ Finishing(op)
       /\ job' = [job EXCEPT ![op] = "none"]
       /\ call' = [call EXCEPT ![op] = "done"]
       /\ result' = [result EXCEPT ![op] = job[op]]
       /\ UNCHANGED runs

LEMMA HandleSteps ==
    ASSUME NEW op \in Ops, Handle(op)
    PROVE  HandlerStep(op)
<1>1. CASE StartAccepted(op) \/ StartFinished(op) \/ Abandon(op)
  BY <1>1 DEF StartAccepted, StartFinished, Abandon, SetJob, HandlerStep, journalVars
<1>2. CASE Refuse(op)
  BY <1>2 DEF Refuse, SetJob, HandlerStep, journalVars, Outcomes
<1>3. CASE Withhold(op)
  BY <1>3 DEF Withhold, SetJob, HandlerStep, journalVars, Outcomes
<1>4. CASE FinishExecution(op)
  BY <1>4 DEF FinishExecution, SetJob, HandlerStep, journalVars, Outcomes
<1>5. CASE MarkRunning(op) \/ Execute(op) \/ Persist(op)
  BY <1>5 DEF MarkRunning, Execute, Persist, SetJob, HandlerStep, journalVars
<1> QED BY <1>1, <1>2, <1>3, <1>4, <1>5 DEF Handle

LEMMA TypedHandle ==
    ASSUME Typed, NEW op \in Ops, Handle(op)
    PROVE  Typed'
<1> USE TypedParts
<1>1. HandlerStep(op)
  BY HandleSteps
<1>2. RowTyped'
  BY HandleFacts, SameTyped
<1>3. LinkTyped'
  BY HandleFacts, HandleSends DEF LinkTyped, hubVars, Preparations
<1>4. TaskTyped'
  <2>1. job' \in [Ops -> JobStates]
    BY <1>1 DEF HandlerStep, TaskTyped, JobStates
  <2> QED BY <2>1, HandleFacts DEF TaskTyped
<1>5. JournalTyped'
  <2>1. call' \in [Ops -> CallStates] /\ result' \in [Ops -> Results \cup {"none"}]
    BY <1>1 DEF HandlerStep, JournalTyped, CallStates, Results, Finishing
  <2>2. acked' \in [Ops -> BOOLEAN]
    BY DEF Handle, StartAccepted, StartFinished, Refuse, Abandon, MarkRunning, Withhold,
           Execute, FinishExecution, Persist, journalVars, JournalTyped
  <2> QED BY <2>1, <2>2, HandleFacts DEF JournalTyped
<1>6. RestTyped'
  <2>1. runs' \in [Ops -> Nat]
    BY <1>1 DEF HandlerStep, RestTyped
  <2> QED BY <2>1, HandleFacts DEF RestTyped, envVars
<1>7. AgentSound'
  <2>1. JobMatchesCall'
    BY <1>1 DEF HandlerStep, AgentSound, JobMatchesCall, Finishing, Outcomes, TaskTyped, JournalTyped
  <2>2. FinishedHasResult'
    BY <1>1 DEF HandlerStep, AgentSound, FinishedHasResult, Finished, Finishing, Outcomes, JournalTyped
  <2>3. CrashRoom'
    BY <1>1, HandleFacts
       DEF HandlerStep, AgentSound, CrashRoom, JobMatchesCall, Finished, Finishing, JournalTyped
  <2> QED BY <2>1, <2>2, <2>3 DEF AgentSound
<1> QED BY <1>2, <1>3, <1>4, <1>5, <1>6, <1>7

(* Failures, and retention.                                                *)
LEMMA RecoverFacts ==
    ASSUME Typed, Recover, NEW op \in Ops
    PROVE  /\ job'[op] = "none"
           /\ crashes'[op] = Counted(op) /\ call'[op] = Recovered(op)
           /\ Counted(op) \in 0 .. MaxInterruptedReads
           /\ Recovered(op) \in {"missing", "retryable", "done", "interrupted"}
           /\ op \notin Reads => Counted(op) = 0
           /\ Recovered(op) \in {"done", "interrupted"} \/ Counted(op) < MaxInterruptedReads
           /\ Recovered(op) \in {"done", "interrupted"} => result'[op] # "none"
           /\ result'[op] \in Results \cup {"none"}
<1> USE TypedParts DEF JournalTyped, AgentSound
<1>1. /\ job'[op] = "none" /\ crashes'[op] = Counted(op) /\ call'[op] = Recovered(op)
      /\ result'[op] = IF call[op] = "running" /\ Recovered(op) = "interrupted"
                          THEN IF op \in Reads THEN "restart_limit" ELSE "interrupted"
                          ELSE result[op]
  BY DEF Recover
<1>2. call[op] \in CallStates /\ crashes[op] \in 0 .. MaxInterruptedReads
  OBVIOUS
<1>3. /\ ~Finished(op) => crashes[op] < MaxInterruptedReads
      /\ op \notin Reads => crashes[op] = 0
  BY DEF CrashRoom
<1>4. Counted(op) \in 0 .. MaxInterruptedReads /\ (op \notin Reads => Counted(op) = 0)
  BY <1>2, <1>3 DEF Counted, Finished
<1>5. Recovered(op) \in {"missing", "retryable", "done", "interrupted"}
  BY <1>2, <1>4 DEF Recovered, CallStates
<1>6. Recovered(op) \in {"done", "interrupted"} \/ Counted(op) < MaxInterruptedReads
  BY <1>2, <1>3, <1>4 DEF Recovered, CallStates, Counted, Finished
<1>7. Recovered(op) \in {"done", "interrupted"} => result'[op] # "none"
  BY <1>1, <1>2 DEF Recovered, CallStates, FinishedHasResult, Finished
<1>8. result'[op] \in Results \cup {"none"}
  BY <1>1 DEF Results, Outcomes
<1> QED BY <1>1, <1>4, <1>5, <1>6, <1>7, <1>8

LEMMA TypedRecover ==
    ASSUME Typed, Recover, UNCHANGED <<journalId, cancelled>>
    PROVE  /\ JournalTyped' /\ AgentSound'
           /\ job' \in [Ops -> JobStates] /\ stopping' \in BOOLEAN
<1> USE TypedParts
<1>1. JournalTyped'
  <2>1. call' \in [Ops -> CallStates]
    BY RecoverFacts DEF Recover, CallStates
  <2>2. result' \in [Ops -> Results \cup {"none"}]
    BY RecoverFacts DEF Recover
  <2>3. crashes' \in [Ops -> 0 .. MaxInterruptedReads]
    BY RecoverFacts DEF Recover
  <2>4. acked' \in [Ops -> BOOLEAN]
    BY DEF Recover, JournalTyped
  <2> QED BY <2>1, <2>2, <2>3, <2>4 DEF JournalTyped
<1>2. AgentSound'
  <2>1. JobMatchesCall'
    BY RecoverFacts DEF JobMatchesCall, Finishing, Outcomes
  <2>2. FinishedHasResult'
    BY RecoverFacts DEF FinishedHasResult, Finished
  <2>3. CrashRoom'
    BY RecoverFacts DEF CrashRoom, Finished
  <2> QED BY <2>1, <2>2, <2>3 DEF AgentSound
<1>3. job' \in [Ops -> JobStates]
  BY DEF Recover, JobStates
<1>4. stopping' \in BOOLEAN
  BY DEF Recover
<1> QED BY <1>1, <1>2, <1>3, <1>4

LEMMA TypedFailure ==
    ASSUME Typed, Stop \/ Crash \/ Restart \/ LoseJournal
    PROVE  Typed'
<1> USE TypedParts
<1>1. RowTyped' /\ RestTyped'
  BY SameTyped DEF Stop, Crash, Restart, LoseJournal
<1>2. CASE Stop
  <2>1. JournalTyped' /\ AgentSound'
    BY <1>2, SameTyped DEF Stop, journalVars
  <2>2. LinkTyped'
    <3>1. up' \in Seq(UpFrames) /\ down' \in Seq(DownFrames)
      BY <1>2, PrefixType, EmptySeq DEF Stop, LoseSocket, LinkTyped
    <3> QED BY <1>2, <3>1 DEF Stop, LinkTyped, hubVars, Preparations
  <2>3. agentCon' \in 0 .. cons' /\ job' \in [Ops -> JobStates]
    BY <1>2 DEF Stop, LoseSocket, LinkTyped, TaskTyped
  <2>4. reader' \in Seq(UpFrames)
    BY <1>2, EmptySeq DEF Stop, LoseSocket
  <2>5. stopping' \in BOOLEAN
    BY <1>2 DEF Stop
  <2> QED BY <1>1, <2>1, <2>2, <2>3, <2>4, <2>5 DEF TaskTyped
<1>3. CASE Crash
  <2>1. /\ JournalTyped' /\ AgentSound'
        /\ job' \in [Ops -> JobStates] /\ stopping' \in BOOLEAN
    BY <1>3, TypedRecover DEF Crash
  <2>2. LinkTyped'
    <3>1. up' \in Seq(UpFrames) /\ down' \in Seq(DownFrames)
      BY <1>3, PrefixType, EmptySeq DEF Crash, LoseSocket, LinkTyped
    <3> QED BY <1>3, <3>1 DEF Crash, LinkTyped, hubVars, Preparations
  <2>3. agentCon' \in 0 .. cons'
    BY <1>3 DEF Crash, LoseSocket, LinkTyped
  <2>4. reader' \in Seq(UpFrames)
    BY <1>3, EmptySeq DEF Crash, LoseSocket
  <2> QED BY <1>1, <2>1, <2>2, <2>3, <2>4 DEF TaskTyped
<1>4. CASE Restart
  <2>1. /\ JournalTyped' /\ AgentSound'
        /\ job' \in [Ops -> JobStates] /\ stopping' \in BOOLEAN
    BY <1>4, TypedRecover DEF Restart
  <2>2. LinkTyped'
    BY <1>4, SameTyped DEF Restart
  <2>3. agentCon' \in 0 .. cons' /\ reader' \in Seq(UpFrames)
    BY <1>4 DEF Restart, netVars, TaskTyped
  <2> QED BY <1>1, <2>1, <2>2, <2>3 DEF TaskTyped
<1>5. CASE LoseJournal
  <2>1. LinkTyped' /\ TaskTyped'
    BY <1>5, SameTyped DEF LoseJournal, netVars
  <2>2. JournalTyped'
    BY <1>5 DEF LoseJournal, JournalTyped, CallStates
  <2>3. AgentSound'
    BY <1>5 DEF LoseJournal, taskVars, AgentSound, JobMatchesCall, FinishedHasResult, CrashRoom,
                Finished, Finishing, Outcomes
  <2> QED BY <1>1, <2>1, <2>2, <2>3
<1> QED BY <1>2, <1>3, <1>4, <1>5

LEMMA TypedPrune ==
    ASSUME Typed, NEW op \in Ops, Prune(op)
    PROVE  Typed'
<1> USE TypedParts
<1>1. RowTyped' /\ LinkTyped' /\ TaskTyped' /\ RestTyped'
  BY SameTyped DEF Prune, netVars
<1>2. JournalTyped'
  BY DEF Prune, JournalTyped, Results
<1>3. AgentSound'
  BY DEF Prune, taskVars, AgentSound, JobMatchesCall, FinishedHasResult, CrashRoom,
         Finished, Finishing, JournalTyped
<1> QED BY <1>1, <1>2, <1>3

LEMMA TypedStep == Typed /\ [Next]_vars => Typed'
<1> SUFFICES ASSUME Typed, [Next]_vars PROVE Typed'
  OBVIOUS
<1>1. CASE \E op \in Ops : Caller(op)
  BY <1>1, TypedCaller
<1>2. CASE \E op \in Ops : Prepare(op)
  BY <1>2, TypedConclude, TypedPreparePackets DEF Prepare
<1>3. CASE \E op \in Ops : Handle(op)
  BY <1>3, TypedHandle
<1>4. CASE \E op \in Ops : SendOutbox(op)
  BY <1>4, TypedSendOutbox
<1>5. CASE \E op \in Ops : Prune(op)
  BY <1>5, TypedPrune
<1>6. CASE Send
  BY <1>6, TypedSend
<1>7. CASE Receive
  BY <1>7, TypedReceive
<1>8. CASE Read
  BY <1>8, TypedRead
<1>9. CASE SendReceipt \/ AgentDrop
  BY <1>9, TypedSendReceipt, TypedAgentDrop
<1>10. CASE Connect
  BY <1>10, TypedConnect
<1>11. CASE HubDetach \/ HubRestart
  BY <1>11, TypedHubLoss
<1>12. CASE Stop \/ Crash \/ Restart \/ LoseJournal
  BY <1>12, TypedFailure
<1>13. CASE UNCHANGED vars
  BY <1>13, TypedParts, SameTyped DEF vars, netVars, agentVars, taskVars, journalVars
<1> QED BY <1>1, <1>2, <1>3, <1>4, <1>5, <1>6, <1>7, <1>8, <1>9, <1>10, <1>11, <1>12, <1>13
        DEF Next

LEMMA TypedAlways == Spec => []Typed
  BY TypedInit, TypedStep, PTL DEF Spec

(* Every row, frame, task and journal record has the shape the code gives  *)
(* it; in particular the crash counter of a replayed read never passes its *)
(* limit, whatever the order of crashes.                                   *)
THEOREM TypeCorrect == Spec => []TypeOK
<1>1. Typed => TypeOK
  BY DEF Typed
<1> QED BY <1>1, TypedAlways, PTL

-----------------------------------------------------------------------------
(* A settled row.                                                          *)

Kept(op) == state[op] \in Settled => state'[op] = state[op] /\ verdict'[op] = verdict[op]

LEMMA CompleteKeeps ==
    ASSUME RowTyped, NEW op \in Ops, NEW v, Complete(op, v)
    PROVE  \A o \in Ops : Kept(o)
  BY DEF Complete, Kept, RowTyped

LEMMA SettledStep ==
    ASSUME Typed, Next
    PROVE  \A o \in Ops : Kept(o)
<1>1. RowTyped
  BY TypedParts
<1>2. ASSUME NEW op \in Ops, Caller(op)
      PROVE  \A o \in Ops : Kept(o)
  <2>1. CASE Admit(op)
    BY <1>1, <2>1 DEF Admit, Kept, Settled, RowTyped
  <2>2. CASE Cancel(op)
    BY <1>1, <2>2, CompleteKeeps DEF Cancel, IsActive, Active, Settled, Kept, RowTyped
  <2>3. CASE UNCHANGED rowVars
    BY <2>3 DEF rowVars, Kept
  <2> QED BY <1>2, <2>1, <2>2, <2>3 DEF Caller, Revoke, Restore, Expire
<1>3. ASSUME NEW op \in Ops, Prepare(op)
      PROVE  \A o \in Ops : Kept(o)
  <2>1. CASE PrepareRefusal(op) \/ PrepareFenced(op)
    BY <1>1, <2>1, CompleteKeeps DEF PrepareRefusal, PrepareFenced
  <2>2. CASE PreparePackets(op)
    BY <2>2 DEF PreparePackets, Kept
  <2> QED BY <1>3, <2>1, <2>2 DEF Prepare
<1>4. CASE Receive
  <2>1. CASE ReceiveProgress
    <3>1. PICK type \in {"accepted", "started"} :
            /\ Receiving(type)
            /\ IF Fenced(Head(up).op) THEN Resolve(Head(up).op, "journal_changed")
               ELSE Confirm(Head(up).op, type = "started") /\ UNCHANGED <<attempted, verdict>>
      BY <2>1 DEF ReceiveProgress
    <3>2. Head(up).op \in Ops
      BY <3>1, ReceivedFrame
    <3>3. CASE Resolve(Head(up).op, "journal_changed")
      BY <1>1, <3>2, <3>3, CompleteKeeps DEF Resolve
    <3>4. CASE Confirm(Head(up).op, type = "started") /\ UNCHANGED verdict
      BY <1>1, <3>2, <3>4 DEF Confirm, IsActive, Active, Settled, Kept, RowTyped
    <3> QED BY <3>1, <3>3, <3>4
  <2>2. CASE ReceiveStatus
    <3> DEFINE op == Head(up).op
    <3>1. op \in Ops
      BY <2>2, ReceivedFrame DEF ReceiveStatus
    <3>2. CASE \E v : Resolve(op, v)
      BY <1>1, <3>1, <3>2, CompleteKeeps DEF Resolve
    <3>3. CASE IsActive(op) /\ (Requeue(op) \/ \E running : Confirm(op, running) /\ UNCHANGED verdict)
      BY <1>1, <3>1, <3>3 DEF Requeue, Confirm, IsActive, Active, Settled, Kept, RowTyped
    <3>4. CASE UNCHANGED <<state, verdict>>
      BY <3>4 DEF Kept
    <3> QED BY <2>2, <3>2, <3>3, <3>4 DEF ReceiveStatus
  <2>3. CASE ReceiveResult
    <3>1. Head(up).op \in Ops
      BY <2>3, ReceivedFrame DEF ReceiveResult
    <3> QED BY <1>1, <2>3, <3>1, CompleteKeeps DEF ReceiveResult
  <2> QED BY <1>4, <2>1, <2>2, <2>3 DEF Receive
<1>5. CASE HubDetach \/ HubRestart
  BY <1>1, <1>5 DEF HubDetach, HubRestart, Disconnected, Kept, Settled, RowTyped
<1>6. CASE UNCHANGED rowVars
  BY <1>6 DEF rowVars, Kept
<1>7. ASSUME NEW op \in Ops, Handle(op) \/ SendOutbox(op) \/ Prune(op)
      PROVE  UNCHANGED rowVars
  BY <1>7, HandleFacts DEF SendOutbox, Prune
<1>8. Send \/ SendReceipt \/ Connect \/ AgentDrop \/ Stop \/ Crash \/ Restart \/ LoseJournal
        => UNCHANGED rowVars
  BY DEF Send, SendPacket, DropPrepared, SendReceipt, Connect, AgentDrop, Stop, Crash,
         Restart, LoseJournal
<1>9. Read => UNCHANGED rowVars
  BY ReadFacts
<1> QED BY <1>2, <1>3, <1>4, <1>5, <1>6, <1>7, <1>8, <1>9 DEF Next

(* complete() is reached from receipts, refusals, cancellations and fences *)
(* in any order; none of them ever replaces a settled result.              *)
THEOREM SettledForever == Spec => SettledStays
<1>1. Typed /\ [Next]_vars =>
        [\A op \in Ops : state[op] \in Settled =>
            state'[op] = state[op] /\ verdict'[op] = verdict[op]]_vars
  BY SettledStep DEF Kept
<1> QED BY <1>1, TypedAlways, PTL DEF Spec, SettledStays

-----------------------------------------------------------------------------
(* Execution.                                                              *)

Core == JournalOrder /\ CallsAreCurrent /\ RunsAreCounted /\ ExecutionBound

coreVars == <<sentJournal, hubCon, hubJournal, prepared, down, agentCon, job, journalId,
              call, crashes, runs>>

LEMMA CoreInit == Init => Core
<1> SUFFICES ASSUME Init PROVE Core
  OBVIOUS
<1>1. DOMAIN down = {} /\ DOMAIN prepared = {}
  BY DEF Init
<1>2. JournalOrder
  BY DEF Init, JournalOrder
<1>3. CallsAreCurrent
  BY <1>1 DEF Init, CallsAreCurrent, CallFlying, CallPrepared
<1>4. RunsAreCounted
  BY DEF Init, RunsAreCounted, Fresh
<1>5. ExecutionBound
  BY DEF Init, ExecutionBound
<1> QED BY <1>2, <1>3, <1>4, <1>5 DEF Core

LEMMA CoreSame ==
    ASSUME Core, UNCHANGED coreVars
    PROVE  Core'
<1>1. JournalOrder'
  BY DEF Core, coreVars, JournalOrder
<1>2. CallsAreCurrent'
  BY DEF Core, coreVars, CallsAreCurrent, CallFlying, CallPrepared
<1>3. RunsAreCounted'
  BY DEF Core, coreVars, RunsAreCounted, Fresh
<1>4. ExecutionBound'
  BY DEF Core, coreVars, ExecutionBound
<1> QED BY <1>1, <1>2, <1>3, <1>4 DEF Core

(* The Agent does nothing: only what is on its way to it may change.       *)
LEMMA CoreTransport ==
    ASSUME Core, UNCHANGED <<sentJournal, job, journalId, call, crashes, runs>>,
           JournalOrder',
           \A op \in Ops : CallFlying(op)' => sentJournal[op] = journalId,
           \A op \in Ops : CallPrepared(op)' /\ agentCon' # 0 /\ hubCon' = agentCon'
                              => sentJournal[op] = journalId
    PROVE  Core'
<1>1. CallsAreCurrent'
  BY DEF Core, CallsAreCurrent
<1>2. RunsAreCounted'
  BY DEF Core, RunsAreCounted, Fresh
<1>3. ExecutionBound'
  BY DEF Core, ExecutionBound
<1> QED BY <1>1, <1>2, <1>3 DEF Core

(* The fence: what is prepared for this connection belongs to its journal. *)
LEMMA CorePrepare ==
    ASSUME Typed, Core, NEW op \in Ops, PreparePackets(op)
    PROVE  Core'
<1> DEFINE last == IF Probing(op) THEN "probe" ELSE "call"
<1> DEFINE item == [op |-> op, con |-> hubCon, packets |-> Fence(op) \o <<last>>]
<1>1. UNCHANGED <<hubCon, hubJournal, down, agentCon, job, journalId, call, crashes, runs>>
  BY DEF PreparePackets, netVars, agentVars, taskVars, journalVars
<1>2. prepared' = Append(prepared, item)
  BY DEF PreparePackets
<1>3. prepared \in Seq(Preparations) /\ RowTyped /\ LinkTyped /\ JournalTyped /\ RestTyped
  BY TypedParts DEF LinkTyped
<1>4. /\ \A o \in Ops : sentJournal[o] # 0 => sentJournal'[o] = sentJournal[o]
      /\ \A o \in Ops : o # op => sentJournal'[o] = sentJournal[o]
      /\ sentJournal'[op] \in {sentJournal[op], hubJournal}
      /\ last = "call" => sentJournal'[op] = hubJournal
  BY <1>3 DEF PreparePackets, Fenced, RowTyped
<1>5. JournalOrder'
  <2>1. \A o \in Ops : sentJournal'[o] <= journalId
    BY <1>4 DEF Core, JournalOrder
  <2> QED BY <1>1, <2>1 DEF Core, JournalOrder
<1>6. journalId # 0
  BY <1>3 DEF JournalTyped
<1>7. ASSUME NEW o \in Ops, agentCon # 0, hubCon = agentCon, CallPrepared(o)'
      PROVE  sentJournal'[o] = journalId
  <2>1. hubJournal = journalId
    BY <1>7 DEF Core, JournalOrder
  <2>2. PICK i \in DOMAIN prepared' :
            /\ prepared'[i].op = o
            /\ prepared'[i].con = hubCon
            /\ \E k \in DOMAIN prepared'[i].packets : prepared'[i].packets[k] = "call"
    BY <1>1, <1>7 DEF CallPrepared
  <2>3. /\ Len(prepared) \in Nat /\ DOMAIN prepared = 1 .. Len(prepared)
        /\ DOMAIN prepared' = 1 .. Len(prepared) + 1
        /\ prepared'[Len(prepared) + 1] = item
        /\ \A j \in 1 .. Len(prepared) : prepared'[j] = prepared[j]
    <3>1. Fence(op) \o <<last>> \in Seq(Packets) \ {<<>>}
      BY FenceType
    <3>2. item \in Preparations
      BY <3>1 DEF PreparePackets, LinkTyped, Preparations, Typed, TypeOK
    <3> HIDE DEF item
    <3> QED BY <1>2, <1>3, <3>2, AppendProperties, LenProperties
  <2>4. CASE i = Len(prepared) + 1
    <3>1. o = op
      BY <2>2, <2>3, <2>4
    <3>2. \E k \in DOMAIN (Fence(op) \o <<last>>) : (Fence(op) \o <<last>>)[k] = "call"
      <4>1. prepared'[i] = item
        BY <2>3, <2>4
      <4>2. prepared'[i].packets = Fence(op) \o <<last>>
        BY <4>1
      <4> HIDE DEF last, item
      <4> QED BY <2>2, <4>2
    <3>3. last = "call"
      BY <3>2, FenceType
    <3> QED BY <1>4, <2>1, <3>1, <3>3
  <2>5. CASE i \in DOMAIN prepared
    <3>1. CallPrepared(o)
      BY <2>2, <2>3, <2>5 DEF CallPrepared
    <3>2. sentJournal[o] = journalId
      BY <1>7, <3>1 DEF Core, CallsAreCurrent
    <3> QED BY <1>4, <1>6, <3>2
  <2> QED BY <2>2, <2>3, <2>4, <2>5
<1>8. CallsAreCurrent'
  <2>1. ASSUME NEW o \in Ops,
               job[o] # "none" \/ call[o] # "missing" \/ CallFlying(o)
        PROVE  sentJournal'[o] = journalId
    <3>1. sentJournal[o] = journalId
      BY <2>1 DEF Core, CallsAreCurrent
    <3> QED BY <1>4, <1>6, <3>1
  <2>2. \A o \in Ops : CallFlying(o)' => CallFlying(o)
    BY <1>1 DEF CallFlying
  <2> QED BY <1>1, <1>7, <2>1, <2>2 DEF CallsAreCurrent
<1>9. RunsAreCounted'
  <2>1. ASSUME NEW o \in Ops
        PROVE  /\ sentJournal'[o] = 0 => runs[o] = 0
               /\ sentJournal'[o] = journalId /\ Fresh(o) => runs[o] <= crashes[o]
               /\ call[o] = "running" => runs[o] <= crashes[o] + 1
    <3>1. sentJournal[o] = 0 => runs[o] = 0 /\ runs[o] <= crashes[o]
      BY <1>3 DEF Core, RunsAreCounted, JournalTyped
    <3>2. sentJournal'[o] = 0 => sentJournal[o] = 0
      BY <1>4
    <3> QED BY <1>4, <3>1, <3>2 DEF Core, RunsAreCounted
  <2> QED BY <1>1, <2>1 DEF RunsAreCounted, Fresh
<1>10. ExecutionBound'
  BY <1>1 DEF Core, ExecutionBound
<1> QED BY <1>5, <1>8, <1>9, <1>10 DEF Core

LEMMA CoreSend ==
    ASSUME Typed, Core, Send
    PROVE  Core'
<1> DEFINE head == Head(prepared)
<1>1. UNCHANGED <<sentJournal, job, journalId, call, crashes, runs, hubCon, hubJournal, agentCon>>
  BY DEF Send, SendPacket, DropPrepared, rowVars, agentVars, taskVars, journalVars
<1>2. prepared # <<>> /\ prepared \in Seq(Preparations) /\ down \in Seq(DownFrames)
  BY TypedParts DEF Send, SendPacket, DropPrepared, LinkTyped
<1>3. /\ head \in Preparations /\ head.packets \in Seq(Packets) /\ head.packets # <<>>
      /\ DOMAIN prepared = 1 .. Len(prepared) /\ Len(prepared) \in Nat /\ 1 \in DOMAIN prepared
      /\ prepared[1] = head
  <2>1. head \in Preparations
    BY <1>2, TailType
  <2>2. head.packets \in Seq(Packets) /\ head.packets # <<>>
    BY <2>1 DEF Preparations
  <2>3. Len(prepared) \in Nat \ {0} /\ DOMAIN prepared = 1 .. Len(prepared)
    BY <1>2, LenProperties, EmptySeq
  <2>4. prepared[1] = head
    BY <1>2
  <2> QED BY <2>1, <2>2, <2>3, <2>4
<1>4. /\ 1 \in DOMAIN head.packets /\ head.packets[1] = Head(head.packets)
      /\ \A k \in DOMAIN Tail(head.packets) :
            k + 1 \in DOMAIN head.packets /\ Tail(head.packets)[k] = head.packets[k + 1]
  BY <1>3, TailType
(* What is prepared shrinks.                                               *)
<1>5. ASSUME NEW o \in Ops, CallPrepared(o)'
      PROVE  CallPrepared(o)
  <2>1. PICK i \in DOMAIN prepared' :
            /\ prepared'[i].op = o
            /\ prepared'[i].con = hubCon
            /\ \E k \in DOMAIN prepared'[i].packets : prepared'[i].packets[k] = "call"
    BY <1>1, <1>5 DEF CallPrepared
  <2>2. CASE prepared' = Tail(prepared)
    <3>1. i + 1 \in DOMAIN prepared /\ prepared'[i] = prepared[i + 1]
      BY <1>2, <2>2, TailType
    <3> QED BY <2>1, <3>1 DEF CallPrepared
  <2>3. CASE prepared' = [prepared EXCEPT ![1].packets = Tail(@)]
    <3>1. i \in DOMAIN prepared
      BY <1>2, <2>3
    <3>2. CASE i = 1
      <4>1. prepared'[1] = [head EXCEPT !.packets = Tail(@)]
        BY <1>3, <2>3
      <4>2. /\ prepared'[1].op = head.op /\ prepared'[1].con = head.con
            /\ prepared'[1].packets = Tail(head.packets)
        BY <1>3, <4>1 DEF Preparations
      <4>3. \E k \in DOMAIN head.packets : head.packets[k] = "call"
        BY <1>4, <2>1, <3>2, <4>2
      <4> QED BY <1>3, <2>1, <3>2, <4>2, <4>3 DEF CallPrepared
    <3>3. CASE i # 1
      <4>1. prepared'[i] = prepared[i]
        BY <1>3, <2>3, <3>1, <3>3
      <4> QED BY <2>1, <3>1, <4>1 DEF CallPrepared
    <3> QED BY <3>2, <3>3
  <2> QED BY <2>2, <2>3 DEF Send, SendPacket, DropPrepared
(* A call that leaves was prepared for this connection.                    *)
<1>6. CASE down' = down
  <2>1. JournalOrder'
    BY <1>1, <1>6 DEF Core, JournalOrder
  <2>2. \A o \in Ops : CallFlying(o)' => CallFlying(o)
    BY <1>6 DEF CallFlying
  <2> QED BY <1>1, <1>5, <2>1, <2>2, CoreTransport DEF Core, CallsAreCurrent
<1>7. CASE SendPacket /\ hubCon = agentCon
  <2> DEFINE frame == [type |-> Head(head.packets), op |-> head.op]
  <2>1. head.con = hubCon
    BY <1>7 DEF SendPacket, PacketCurrent
  <2>2. agentCon # 0
    BY <1>3, <1>7, <2>1, TypedParts DEF Preparations, LinkTyped
  <2>3. down' = Append(down, frame)
    BY <1>7 DEF SendPacket, HubSends
  <2>4. frame \in DownFrames
    BY <1>3, TailType DEF Preparations, DownFrames
  <2>5. /\ Len(down) \in Nat /\ DOMAIN down = 1 .. Len(down)
        /\ DOMAIN down' = 1 .. Len(down) + 1
        /\ down'[Len(down) + 1] = frame
        /\ \A j \in 1 .. Len(down) : down'[j] = down[j]
    <3> HIDE DEF frame
    <3> QED BY <1>2, <2>3, <2>4, AppendProperties, LenProperties
  <2>6. ASSUME NEW o \in Ops, CallFlying(o)'
        PROVE  sentJournal[o] = journalId
    <3>1. PICK i \in DOMAIN down' : down'[i] = [type |-> "call", op |-> o]
      BY <2>6 DEF CallFlying
    <3>2. CASE i \in DOMAIN down
      BY <2>5, <3>1, <3>2 DEF Core, CallsAreCurrent, CallFlying
    <3>3. CASE i = Len(down) + 1
      <4>1. frame = [type |-> "call", op |-> o]
        BY <2>5, <3>1, <3>3
      <4>2. head.op = o /\ Head(head.packets) = "call"
        BY <4>1
      <4>3. CallPrepared(o)
        BY <1>3, <1>4, <2>1, <4>2 DEF CallPrepared
      <4> QED BY <1>7, <2>2, <4>3 DEF Core, CallsAreCurrent
    <3> QED BY <2>5, <3>2, <3>3
  <2>7. JournalOrder'
    BY <1>1, <2>2 DEF Core, JournalOrder
  <2> QED BY <1>1, <1>5, <2>6, <2>7, CoreTransport DEF Core, CallsAreCurrent
<1> QED BY <1>6, <1>7 DEF Send, SendPacket, DropPrepared, HubSends, netVars

LEMMA CoreReceive ==
    ASSUME Typed, Core, Receive
    PROVE  Core'
<1>1. PICK type : Receiving(type)
  BY ReceiveFrame
<1>2. UNCHANGED <<hubCon, hubJournal, prepared, agentCon, job, journalId, call, crashes, runs>>
  BY <1>1 DEF Receiving, hubVars, agentVars, taskVars, journalVars
<1>3. sentJournal' = sentJournal
  BY ReceiveRowStep
<1>4. CASE down' = down
  BY <1>2, <1>3, <1>4, CoreSame DEF coreVars
<1>5. ASSUME NEW op \in Ops, Acknowledge(op), down' # down
      PROVE  Core'
  <2> DEFINE frame == [type |-> "ack", op |-> op]
  <2>1. hubCon = agentCon /\ hubCon # 0 /\ down' = Append(down, frame)
    BY <1>1, <1>5 DEF Acknowledge, HubSends, Receiving
  <2>2. frame \in DownFrames /\ down \in Seq(DownFrames)
    BY TypedParts DEF DownFrames, LinkTyped
  <2>3. /\ DOMAIN down = 1 .. Len(down) /\ Len(down) \in Nat
        /\ DOMAIN down' = 1 .. Len(down) + 1
        /\ down'[Len(down) + 1] = frame
        /\ \A j \in 1 .. Len(down) : down'[j] = down[j]
    <3> HIDE DEF frame
    <3> QED BY <2>1, <2>2, AppendProperties, LenProperties
  <2>4. \A o \in Ops : CallFlying(o)' => CallFlying(o)
    BY <2>3 DEF CallFlying
  <2>5. JournalOrder'
    BY <1>2, <1>3, <2>1 DEF Core, JournalOrder
  <2>6. \A o \in Ops : CallPrepared(o)' => CallPrepared(o)
    BY <1>2 DEF CallPrepared
  <2> QED BY <1>2, <1>3, <2>4, <2>5, <2>6, CoreTransport DEF Core, CallsAreCurrent
<1> QED BY <1>4, <1>5, ReceiveFrame

LEMMA CoreConnection ==
    ASSUME Typed, Core, Connect \/ HubDetach \/ HubRestart \/ AgentDrop \/ Stop
    PROVE  Core'
<1>1. UNCHANGED <<sentJournal, job, journalId, call, crashes, runs>>
  BY DEF Connect, HubDetach, HubRestart, AgentDrop, Stop, rowVars, agentVars, taskVars, journalVars
<1>2. CASE Connect
  <2>1. /\ hubCon' = cons + 1 /\ agentCon' = cons + 1 /\ hubJournal' = journalId
        /\ down' = <<>> /\ prepared' = prepared /\ cons \in Nat
    BY <1>2, TypedParts DEF Connect, LinkTyped
  <2>2. JournalOrder'
    BY <1>1, <2>1, TypedParts DEF Core, JournalOrder, JournalTyped
  <2>3. \A o \in Ops : ~CallFlying(o)'
    BY <2>1 DEF CallFlying
  <2>4. \A i \in DOMAIN prepared : prepared[i] \in Preparations
    BY TypedParts, ElementOfSeq, LenProperties DEF LinkTyped
  <2>5. \A o \in Ops : ~CallPrepared(o)'
    BY <2>1, <2>4 DEF CallPrepared, Preparations
  <2> QED BY <1>1, <2>2, <2>3, <2>5, CoreTransport
<1>3. CASE HubDetach \/ HubRestart
  <2>1. hubCon' = 0 /\ hubJournal' = 0 /\ agentCon' = agentCon /\ down' \in SomePrefix(down)
    BY <1>3 DEF HubDetach, HubRestart, agentVars, taskVars
  <2>2. \A i \in DOMAIN down' : i \in DOMAIN down /\ down'[i] = down[i]
    BY <2>1, TypedParts, PrefixType DEF LinkTyped
  <2>3. JournalOrder'
    <3>1. down = <<>> => down' = <<>>
      BY <2>1 DEF SomePrefix
    <3> QED BY <1>1, <2>1, <3>1, TypedParts DEF Core, JournalOrder, JournalTyped
  <2>4. \A o \in Ops : CallFlying(o)' => CallFlying(o)
    BY <2>2 DEF CallFlying
  <2> QED BY <1>1, <2>1, <2>3, <2>4, CoreTransport DEF Core, CallsAreCurrent
<1>4. CASE AgentDrop \/ Stop
  <2>1. agentCon' = 0 /\ down' = <<>> /\ hubCon' = hubCon /\ hubJournal' = hubJournal
    BY <1>4 DEF AgentDrop, Stop, LoseSocket, hubVars
  <2>2. JournalOrder'
    BY <1>1, <2>1 DEF Core, JournalOrder
  <2>3. \A o \in Ops : ~CallFlying(o)'
    BY <2>1 DEF CallFlying
  <2> QED BY <1>1, <2>1, <2>2, <2>3, CoreTransport
<1> QED BY <1>2, <1>3, <1>4

LEMMA CoreRead ==
    ASSUME Typed, Core, Read
    PROVE  Core'
<1> DEFINE op == Head(down).op
<1>1. /\ agentCon # 0 /\ down # <<>> /\ down' = Tail(down)
      /\ Head(down) \in DownFrames /\ op \in Ops /\ down \in Seq(DownFrames)
      /\ UNCHANGED <<sentJournal, hubCon, hubJournal, prepared, agentCon, journalId, call, crashes, runs>>
  BY ReadFacts, TypedParts DEF rowVars, hubVars, LinkTyped
<1>2. /\ \A i \in DOMAIN Tail(down) : i + 1 \in DOMAIN down /\ Tail(down)[i] = down[i + 1]
      /\ 1 \in DOMAIN down /\ down[1] = Head(down)
  <2>1. Len(down) \in Nat \ {0} /\ DOMAIN down = 1 .. Len(down)
    BY <1>1, LenProperties, EmptySeq
  <2> QED BY <1>1, <2>1, TailType
<1>3. \/ job' = job
      \/ job[op] = "none" /\ Head(down).type = "call" /\ job' = [job EXCEPT ![op] = "new"]
      \/ job[op] = "queued" /\ job' = [job EXCEPT ![op] = "refused"]
  BY ReadJob
<1>4. job \in [Ops -> JobStates]
  BY TypedParts DEF TaskTyped
<1>5. JournalOrder'
  BY <1>1 DEF Core, JournalOrder
<1>6. CallsAreCurrent'
  <2>1. ASSUME NEW o \in Ops, job'[o] # "none"
        PROVE  sentJournal[o] = journalId
    <3>1. CASE job[o] # "none"
      BY <3>1 DEF Core, CallsAreCurrent
    <3>2. CASE job[o] = "none"
      <4>1. o = op /\ Head(down).type = "call"
        BY <1>1, <1>3, <1>4, <2>1, <3>2
      <4>2. Head(down) = [type |-> "call", op |-> o]
        BY <1>1, <4>1 DEF DownFrames
      <4>3. CallFlying(o)
        BY <1>2, <4>2 DEF CallFlying
      <4> QED BY <4>3 DEF Core, CallsAreCurrent
    <3> QED BY <3>1, <3>2
  <2>2. \A o \in Ops : CallFlying(o)' => CallFlying(o)
    BY <1>1, <1>2 DEF CallFlying
  <2>3. \A o \in Ops : CallPrepared(o)' => CallPrepared(o)
    BY <1>1 DEF CallPrepared
  <2> QED BY <1>1, <2>1, <2>2, <2>3 DEF Core, CallsAreCurrent
<1>7. RunsAreCounted'
  <2>1. \A o \in Ops : Fresh(o)' => Fresh(o)
    BY <1>1, <1>3, <1>4 DEF Fresh
  <2> QED BY <1>1, <2>1 DEF Core, RunsAreCounted
<1>8. ExecutionBound'
  BY <1>1 DEF Core, ExecutionBound
<1> QED BY <1>5, <1>6, <1>7, <1>8 DEF Core

LEMMA CoreHandle ==
    ASSUME Typed, Core, NEW op \in Ops, Handle(op)
    PROVE  Core'
<1>1. HandlerStep(op)
  BY HandleSteps
<1>2. UNCHANGED <<sentJournal, hubCon, hubJournal, prepared, down, agentCon, journalId, crashes>>
  BY HandleFacts DEF rowVars, hubVars
<1>3. TaskTyped /\ JournalTyped /\ RestTyped /\ AgentSound
  BY TypedParts
<1>4. job[op] # "none"
  BY <1>1 DEF HandlerStep, Finishing, Outcomes
<1>5. sentJournal[op] = journalId
  BY <1>4 DEF Core, CallsAreCurrent
<1>6. \A o \in Ops : o # op => job'[o] = job[o] /\ call'[o] = call[o] /\ runs'[o] = runs[o]
  BY <1>1, <1>3 DEF HandlerStep, TaskTyped, JournalTyped, RestTyped
<1>7. JournalOrder'
  BY <1>2 DEF Core, JournalOrder
<1>8. CallsAreCurrent'
  <2>1. \A o \in Ops : CallFlying(o)' => CallFlying(o)
    BY <1>2 DEF CallFlying
  <2>2. \A o \in Ops : CallPrepared(o)' => CallPrepared(o)
    BY <1>2 DEF CallPrepared
  <2> QED BY <1>2, <1>5, <1>6, <2>1, <2>2 DEF Core, CallsAreCurrent
<1>9. /\ sentJournal[op] = 0 => runs'[op] = 0
      /\ Fresh(op)' => runs'[op] <= crashes[op]
      /\ call'[op] = "running" => runs'[op] <= crashes[op] + 1
      /\ runs'[op] <= IF op \in Reads THEN MaxInterruptedReads ELSE 1
  <2>1. /\ Fresh(op) => runs[op] <= crashes[op]
        /\ call[op] = "running" => runs[op] <= crashes[op] + 1
        /\ runs[op] <= IF op \in Reads THEN MaxInterruptedReads ELSE 1
    BY <1>5 DEF Core, RunsAreCounted, ExecutionBound
  <2>2. /\ crashes[op] \in Nat /\ runs[op] \in Nat /\ sentJournal[op] # 0
        /\ job[op] \in {"started", "executing"} => call[op] = "running"
        /\ job[op] = "queued" => call[op] = "accepted"
        /\ Finishing(op) => call[op] \in {"accepted", "running"}
        /\ call[op] = "running" => crashes[op] < MaxInterruptedReads
        /\ op \notin Reads => crashes[op] = 0
    BY <1>3, <1>5 DEF JournalTyped, RestTyped, AgentSound, JobMatchesCall, CrashRoom, Finished
  <2>3. CASE /\ job[op] = "started"
             /\ job' = [job EXCEPT ![op] = "executing"]
             /\ runs' = [runs EXCEPT ![op] = @ + 1]
             /\ call' = call
    <3>1. runs'[op] = runs[op] + 1 /\ ~Fresh(op)'
      BY <1>3, <2>2, <2>3 DEF Fresh, TaskTyped, RestTyped
    <3>2. runs[op] <= crashes[op]
      BY <2>1, <2>3 DEF Fresh
    <3> QED BY <2>2, <2>3, <3>1, <3>2
  <2>4. CASE /\ job[op] # "started" \/ job'[op] # "executing"
             /\ runs' = runs
    <3>1. Fresh(op)' => Fresh(op)
      BY <1>1, <1>3, <2>2, <2>4 DEF HandlerStep, Fresh, TaskTyped, JournalTyped, Finishing, Outcomes
    <3>2. call'[op] = "running" => call[op] = "running" \/ Fresh(op)
      BY <1>1, <1>3, <2>2, <2>4 DEF HandlerStep, Fresh, JournalTyped
    <3> QED BY <2>1, <2>2, <2>4, <3>1, <3>2
  <2> QED BY <1>1, <1>3, <2>3, <2>4 DEF HandlerStep, TaskTyped, Finishing, Outcomes
<1>10. RunsAreCounted'
  BY <1>2, <1>6, <1>9 DEF Core, RunsAreCounted, Fresh
<1>11. ExecutionBound'
  BY <1>6, <1>9 DEF Core, ExecutionBound
<1> QED BY <1>7, <1>8, <1>10, <1>11 DEF Core

(* A restart turns each interrupted execution into one more on the counter.*)
LEMMA CoreRecover ==
    ASSUME Typed, Core, Recover, UNCHANGED <<sentJournal, journalId, runs>>
    PROVE  RunsAreCounted' /\ ExecutionBound'
<1>1. ASSUME NEW op \in Ops
      PROVE  /\ sentJournal[op] = 0 => runs[op] = 0
             /\ sentJournal[op] = journalId /\ Fresh(op)' => runs[op] <= crashes'[op]
             /\ call'[op] = "running" => runs[op] <= crashes'[op] + 1
  <2>1. /\ job'[op] = "none" /\ call'[op] = Recovered(op) /\ crashes'[op] = Counted(op)
        /\ Recovered(op) # "running" /\ Recovered(op) # "accepted"
    BY RecoverFacts
  <2>2. call[op] \in CallStates /\ crashes[op] \in Nat /\ runs[op] \in Nat
    BY TypedParts DEF JournalTyped, RestTyped
  <2>3. CASE call[op] = "running" /\ op \in Reads
    BY <2>1, <2>2, <2>3 DEF Core, RunsAreCounted, Counted
  <2>4. CASE call[op] = "running" /\ op \notin Reads
    BY <2>1, <2>4 DEF Core, RunsAreCounted, Recovered, Fresh
  <2>5. CASE call[op] # "running"
    BY <2>1, <2>2, <2>5 DEF Core, RunsAreCounted, Recovered, Counted, Fresh, CallStates
  <2> QED BY <2>3, <2>4, <2>5
<1> QED BY <1>1 DEF RunsAreCounted, ExecutionBound, Core

LEMMA CoreRestart ==
    ASSUME Typed, Core, Crash \/ Restart
    PROVE  Core'
<1>1. Recover /\ UNCHANGED <<sentJournal, journalId, runs, hubCon, hubJournal, prepared>>
  <2>1. Recover
    BY DEF Crash, Restart
  <2>2. UNCHANGED <<sentJournal, journalId, runs, hubCon, hubJournal, prepared>>
    BY DEF Crash, Restart, rowVars, hubVars
  <2> QED BY <2>1, <2>2
<1>2. RunsAreCounted' /\ ExecutionBound'
  BY <1>1, CoreRecover
<1>3. /\ agentCon' # 0 => agentCon' = agentCon
      /\ \A op \in Ops : CallFlying(op)' => CallFlying(op)
      /\ JournalOrder'
  <2>1. CASE Crash
    <3>1. agentCon' = 0 /\ down' = <<>>
      BY <2>1 DEF Crash, LoseSocket
    <3>2. JournalOrder'
      BY <1>1, <3>1 DEF Core, JournalOrder
    <3>3. \A op \in Ops : ~CallFlying(op)'
      BY <3>1 DEF CallFlying
    <3> QED BY <3>1, <3>2, <3>3
  <2>2. CASE Restart
    <3>1. agentCon' = agentCon /\ down' = down
      BY <2>2 DEF Restart, netVars
    <3> QED BY <1>1, <3>1 DEF Core, JournalOrder, CallFlying
  <2> QED BY <2>1, <2>2
<1>4. CallsAreCurrent'
  <2>1. \A op \in Ops : job'[op] = "none" /\ (call'[op] # "missing" => call[op] # "missing")
    <3>1. ASSUME NEW op \in Ops, call[op] = "missing" PROVE call'[op] = "missing"
      BY <1>1, <3>1 DEF Recover, Recovered
    <3> QED BY <1>1, <3>1 DEF Recover
  <2>2. \A op \in Ops : CallPrepared(op)' => CallPrepared(op)
    BY <1>1 DEF CallPrepared
  <2> QED BY <1>1, <1>3, <2>1, <2>2 DEF Core, CallsAreCurrent
<1> QED BY <1>2, <1>3, <1>4 DEF Core

(* A lost journal leaves no way to start anything that was sent to it.     *)
LEMMA CoreLoseJournal ==
    ASSUME Typed, Core, LoseJournal
    PROVE  Core'
<1>1. /\ agentCon = 0 /\ agentCon' = 0 /\ down = <<>> /\ down' = <<>>
      /\ journalId' = journalId + 1 /\ journalId \in Nat
      /\ UNCHANGED <<sentJournal, hubCon, hubJournal, runs, job>>
      /\ \A op \in Ops : job[op] = "none" /\ call'[op] = "missing"
  BY TypedParts DEF LoseJournal, Core, JournalOrder, JournalTyped, rowVars, hubVars, netVars, taskVars
<1>2. \A op \in Ops : sentJournal[op] <= journalId /\ sentJournal[op] \in Nat
  BY TypedParts DEF Core, JournalOrder, RowTyped
<1>3. JournalOrder'
  <2>1. hubJournal \in Nat
    BY TypedParts DEF LinkTyped
  <2> QED BY <1>1, <1>2, <2>1 DEF Core, JournalOrder
<1>4. CallsAreCurrent'
  <2>1. \A op \in Ops : ~CallFlying(op)'
    BY <1>1 DEF CallFlying
  <2> QED BY <1>1, <2>1 DEF CallsAreCurrent
<1>5. RunsAreCounted'
  BY <1>1, <1>2 DEF Core, RunsAreCounted
<1>6. ExecutionBound'
  BY <1>1 DEF Core, ExecutionBound
<1> QED BY <1>3, <1>4, <1>5, <1>6 DEF Core

LEMMA CoreStep == Typed /\ Core /\ [Next]_vars => Core'
<1> SUFFICES ASSUME Typed, Core, [Next]_vars PROVE Core'
  OBVIOUS
<1>1. ASSUME NEW op \in Ops,
             Caller(op) \/ PrepareRefusal(op) \/ PrepareFenced(op) \/ SendOutbox(op) \/ Prune(op)
      PROVE  Core'
  <2>1. UNCHANGED coreVars
    BY <1>1 DEF Caller, Admit, Cancel, Revoke, Restore, Expire, PrepareRefusal, PrepareFenced,
           SendOutbox, Prune, coreVars, rowVars, hubVars, netVars, agentVars, taskVars, journalVars
  <2> QED BY <2>1, CoreSame
<1>2. CASE SendReceipt
  <2>1. UNCHANGED coreVars
    BY <1>2 DEF SendReceipt, coreVars, rowVars, hubVars, journalVars
  <2> QED BY <2>1, CoreSame
<1>3. CASE \E op \in Ops : PreparePackets(op)
  BY <1>3, CorePrepare
<1>4. CASE \E op \in Ops : Handle(op)
  BY <1>4, CoreHandle
<1>5. CASE Send
  BY <1>5, CoreSend
<1>6. CASE Receive
  BY <1>6, CoreReceive
<1>7. CASE Read
  BY <1>7, CoreRead
<1>8. CASE Connect \/ HubDetach \/ HubRestart \/ AgentDrop \/ Stop
  BY <1>8, CoreConnection
<1>9. CASE Crash \/ Restart
  BY <1>9, CoreRestart
<1>10. CASE LoseJournal
  BY <1>10, CoreLoseJournal
<1>11. CASE UNCHANGED vars
  <2>1. UNCHANGED coreVars
    BY <1>11 DEF vars, coreVars, rowVars, hubVars, netVars, agentVars, taskVars, journalVars
  <2> QED BY <2>1, CoreSame
<1> QED BY <1>1, <1>2, <1>3, <1>4, <1>5, <1>6, <1>7, <1>8, <1>9, <1>10, <1>11 DEF Next, Prepare

(* The invariant behind bounded execution: calls only travel to the journal*)
(* they are fenced to, and a journal counts every execution it may repeat. *)
LEMMA CoreAlways == Spec => []Core
  BY TypedInit, TypedAlways, CoreInit, CoreStep, PTL DEF Spec

(* However often the Hub resends, whatever the network loses and whoever   *)
(* restarts: a tool with side effects begins at most once, a replayable one*)
(* at most MAX_INTERRUPTED_READS times.                                    *)
THEOREM BoundedExecution == Spec => []ExecutionBound
<1>1. Core => ExecutionBound
  BY DEF Core
<1> QED BY <1>1, CoreAlways, PTL

-----------------------------------------------------------------------------
(* Acknowledgements.                                                       *)

(* A verdict, once there, is never taken back, and a settled row has one.  *)
Concluded == \A op \in Ops : state[op] \in Settled => verdict[op] # "none"

AckFlying(op) == \E i \in DOMAIN down : down[i] = [type |-> "ack", op |-> op]

AcksFollowRows ==
    \A op \in Ops : acked[op] \/ AckFlying(op) => verdict[op] # "none"

VerdictStays == \A op \in Ops : verdict[op] # "none" => verdict'[op] # "none"

LEMMA NoneIsNoVerdict == "none" \notin Verdicts
  BY DEF Verdicts, Results, Outcomes, HubClaims, NeverSent, Unstarted

LEMMA CompleteConcludes ==
    ASSUME RowTyped, Concluded, NEW op \in Ops, NEW v \in Verdicts, Complete(op, v)
    PROVE  Concluded' /\ VerdictStays /\ verdict'[op] # "none"
  BY NoneIsNoVerdict DEF Complete, Concluded, VerdictStays, RowTyped

LEMMA VerdictSame ==
    ASSUME Concluded, UNCHANGED <<state, verdict>>
    PROVE  Concluded' /\ VerdictStays
  BY DEF Concluded, VerdictStays

LEMMA ConcludedStep ==
    ASSUME Typed, Concluded, Next
    PROVE  Concluded' /\ VerdictStays
<1>1. RowTyped
  BY TypedParts
<1>2. ASSUME NEW op \in Ops, Caller(op)
      PROVE  Concluded' /\ VerdictStays
  <2>1. CASE Complete(op, "withdrawn")
    BY <1>1, <2>1, CompleteConcludes DEF Verdicts, HubClaims, NeverSent
  <2>2. CASE UNCHANGED <<state, verdict>>
    BY <2>2, VerdictSame
  <2>3. CASE \E s \in Active : state' = [state EXCEPT ![op] = s] /\ UNCHANGED verdict
    BY <1>1, <2>3 DEF Concluded, VerdictStays, RowTyped, Active, Settled
  <2> QED BY <1>2, <2>1, <2>2, <2>3
          DEF Caller, Admit, Cancel, Revoke, Restore, Expire, Active, rowVars
<1>3. ASSUME NEW op \in Ops, Prepare(op)
      PROVE  Concluded' /\ VerdictStays
  <2>1. CASE \E v \in Verdicts : Complete(op, v)
    BY <1>1, <2>1, CompleteConcludes
  <2>2. CASE UNCHANGED <<state, verdict>>
    BY <2>2, VerdictSame
  <2> QED BY <1>3, <2>1, <2>2
          DEF Prepare, PrepareRefusal, PrepareFenced, PreparePackets, Verdicts, HubClaims, NeverSent
<1>4. CASE Receive
  <2>1. PICK op \in Ops : RowStep(op)
    BY <1>4, ReceiveRowStep
  <2>2. CASE \E v \in Verdicts : Complete(op, v)
    BY <1>1, <2>2, CompleteConcludes
  <2>3. CASE \E running \in BOOLEAN : Confirm(op, running) /\ UNCHANGED verdict
    BY <1>1, <2>3 DEF Confirm, Concluded, VerdictStays, RowTyped, Settled
  <2>4. CASE Requeue(op)
    BY <1>1, <2>4 DEF Requeue, Concluded, VerdictStays, RowTyped, Settled
  <2>5. CASE UNCHANGED <<state, verdict>>
    BY <2>5, VerdictSame
  <2> QED BY <2>1, <2>2, <2>3, <2>4, <2>5 DEF RowStep
<1>5. CASE HubDetach \/ HubRestart
  BY <1>1, <1>5 DEF HubDetach, HubRestart, Disconnected, Concluded, VerdictStays, Settled, RowTyped
<1>6. CASE UNCHANGED rowVars
  BY <1>6, VerdictSame DEF rowVars
<1>7. ASSUME NEW op \in Ops, Handle(op) \/ SendOutbox(op) \/ Prune(op)
      PROVE  UNCHANGED rowVars
  BY <1>7, HandleFacts DEF SendOutbox, Prune
<1>8. Send \/ SendReceipt \/ Connect \/ AgentDrop \/ Stop \/ Crash \/ Restart \/ LoseJournal
        => UNCHANGED rowVars
  BY DEF Send, SendPacket, DropPrepared, SendReceipt, Connect, AgentDrop, Stop, Crash,
         Restart, LoseJournal
<1>9. Read => UNCHANGED rowVars
  BY ReadFacts
<1> QED BY <1>2, <1>3, <1>4, <1>5, <1>6, <1>7, <1>8, <1>9 DEF Next

(* The Hub acknowledges only what complete() has just concluded.           *)
LEMMA NewAck ==
    ASSUME Typed, Concluded, Receive, NEW op \in Ops, AckFlying(op)'
    PROVE  AckFlying(op) \/ verdict'[op] # "none"
<1>1. CASE down' = down
  BY <1>1 DEF AckFlying
<1>2. CASE ReceiveResult /\ down' # down
  <2> DEFINE acknowledged == Head(up).op
  <2> DEFINE frame == [type |-> "ack", op |-> acknowledged]
  <2>1. acknowledged \in Ops /\ Head(up).result \in Results
    BY <1>2, ReceivedFrame DEF ReceiveResult
  <2>2. verdict'[acknowledged] # "none"
    BY <1>2, <2>1, TypedParts, CompleteConcludes DEF ReceiveResult, Verdicts, HubClaims
  <2>3. down' = Append(down, frame)
    BY <1>2 DEF ReceiveResult, Acknowledge, HubSends
  <2>4. frame \in DownFrames /\ down \in Seq(DownFrames)
    BY <2>1, TypedParts DEF DownFrames, LinkTyped
  <2>5. /\ Len(down) \in Nat /\ DOMAIN down = 1 .. Len(down)
        /\ DOMAIN down' = 1 .. Len(down) + 1
        /\ down'[Len(down) + 1] = frame
        /\ \A j \in 1 .. Len(down) : down'[j] = down[j]
    <3> HIDE DEF frame
    <3> QED BY <2>3, <2>4, AppendProperties, LenProperties
  <2>6. PICK i \in DOMAIN down' : down'[i] = [type |-> "ack", op |-> op]
    BY DEF AckFlying
  <2>7. CASE i \in DOMAIN down
    BY <2>5, <2>6, <2>7 DEF AckFlying
  <2>8. CASE i = Len(down) + 1
    <3>1. frame = [type |-> "ack", op |-> op]
      BY <2>5, <2>6, <2>8
    <3>2. acknowledged = op
      BY <3>1
    <3> QED BY <2>2, <3>2
  <2> QED BY <2>5, <2>7, <2>8
<1> QED BY <1>1, <1>2 DEF Receive, ReceiveProgress, ReceiveStatus

LEMMA AckStep ==
    ASSUME Typed, Core, Concluded, AcksFollowRows, Next
    PROVE  AcksFollowRows'
<1>1. VerdictStays
  BY ConcludedStep
<1>2. down \in Seq(DownFrames) /\ acked \in [Ops -> BOOLEAN]
  BY TypedParts DEF LinkTyped, JournalTyped
<1>3. ASSUME \A op \in Ops : acked'[op] \/ AckFlying(op)' => acked[op] \/ AckFlying(op)
      PROVE  AcksFollowRows'
  BY <1>1, <1>3 DEF AcksFollowRows, VerdictStays
<1>4. CASE UNCHANGED <<down, acked>>
  BY <1>3, <1>4 DEF AckFlying
<1>5. ASSUME NEW op \in Ops, Caller(op) \/ Prepare(op) \/ SendOutbox(op)
      PROVE  UNCHANGED <<down, acked>>
  BY <1>5 DEF Caller, Admit, Cancel, Revoke, Restore, Expire, Prepare, PrepareRefusal,
         PrepareFenced, PreparePackets, SendOutbox, netVars, agentVars, journalVars
<1>6. ASSUME NEW op \in Ops, Handle(op)
      PROVE  AcksFollowRows'
  <2>1. down' = down
    BY <1>6, HandleFacts
  <2>2. \A o \in Ops : acked'[o] => acked[o]
    BY <1>2, <1>6 DEF Handle, StartAccepted, StartFinished, Refuse, Abandon, MarkRunning,
           Withhold, Execute, FinishExecution, Persist, journalVars
  <2> QED BY <1>3, <2>1, <2>2 DEF AckFlying
<1>7. ASSUME NEW op \in Ops, Prune(op)
      PROVE  UNCHANGED <<down, acked>>
  BY <1>7 DEF Prune, netVars
<1>8. CASE Send
  <2>1. acked' = acked
    BY <1>8 DEF Send, SendPacket, DropPrepared, agentVars, journalVars
  <2>2. CASE down' = down
    BY <1>4, <2>1, <2>2
  <2>3. CASE SendPacket /\ down' # down
    <3> DEFINE frame == [type |-> Head(Head(prepared).packets), op |-> Head(prepared).op]
    <3>1. down' = Append(down, frame)
      BY <2>3 DEF SendPacket, HubSends
    <3>2. Head(prepared) \in Preparations
      BY <2>3, TypedParts, TailType DEF SendPacket, LinkTyped
    <3>3. Head(Head(prepared).packets) \in Packets /\ Head(prepared).op \in Ops
      BY <3>2, TailType DEF Preparations
    <3>4. frame \in DownFrames /\ frame.type # "ack"
      BY <3>3 DEF DownFrames, Packets
    <3>5. /\ Len(down) \in Nat /\ DOMAIN down = 1 .. Len(down)
          /\ DOMAIN down' = 1 .. Len(down) + 1
          /\ down'[Len(down) + 1] = frame
          /\ \A j \in 1 .. Len(down) : down'[j] = down[j]
      <4> HIDE DEF frame
      <4> QED BY <1>2, <3>1, <3>4, AppendProperties, LenProperties
    <3>6. \A op \in Ops : AckFlying(op)' => AckFlying(op)
      <4> HIDE DEF frame
      <4> QED BY <3>4, <3>5 DEF AckFlying
    <3> QED BY <1>3, <2>1, <3>6
  <2> QED BY <1>8, <2>2, <2>3 DEF Send, DropPrepared, netVars
<1>9. CASE Receive
  <2>1. acked' = acked
    BY <1>9, ReceiveFrame DEF Receiving, agentVars, journalVars
  <2>2. \A op \in Ops : AckFlying(op)' => AckFlying(op) \/ verdict'[op] # "none"
    BY <1>9, NewAck
  <2> QED BY <1>1, <2>1, <2>2 DEF AcksFollowRows, VerdictStays
<1>10. CASE Read
  <2>1. /\ down # <<>> /\ down' = Tail(down) /\ Head(down) \in DownFrames /\ Head(down).op \in Ops
        /\ verdict' = verdict
    BY <1>10, ReadFacts DEF rowVars
  <2>2. /\ \A i \in DOMAIN down' : i + 1 \in DOMAIN down /\ down'[i] = down[i + 1]
        /\ 1 \in DOMAIN down /\ down[1] = Head(down)
    <3>1. Len(down) \in Nat \ {0} /\ DOMAIN down = 1 .. Len(down)
      BY <1>2, <2>1, LenProperties, EmptySeq
    <3> QED BY <1>2, <2>1, <3>1, TailType
  <2>3. \A op \in Ops : AckFlying(op)' => AckFlying(op)
    BY <2>2 DEF AckFlying
  <2>4. ASSUME NEW op \in Ops, acked'[op], ~acked[op]
        PROVE  AckFlying(op)
    <3>1. Head(down).type = "ack" /\ op = Head(down).op
      BY <1>2, <1>10, <2>1, <2>4 DEF Read, ReadCall, ReadProbe, ReadCancel, ReadCancelPending,
             ReadAck, Reading, Report, CancelCall, journalVars
    <3>2. Head(down) = [type |-> "ack", op |-> op]
      BY <2>1, <3>1 DEF DownFrames
    <3> QED BY <2>2, <3>2 DEF AckFlying
  <2> QED BY <1>3, <2>3, <2>4
<1>11. CASE SendReceipt
  BY <1>4, <1>11 DEF SendReceipt, journalVars
<1>12. CASE Connect \/ AgentDrop \/ Stop
  <2>1. acked' = acked /\ down' = <<>>
    BY <1>12 DEF Connect, AgentDrop, Stop, LoseSocket, journalVars
  <2> QED BY <1>3, <2>1 DEF AckFlying
<1>13. CASE HubDetach \/ HubRestart
  <2>1. acked' = acked /\ down' \in SomePrefix(down)
    BY <1>13 DEF HubDetach, HubRestart, agentVars, journalVars
  <2>2. \A i \in DOMAIN down' : i \in DOMAIN down /\ down'[i] = down[i]
    BY <1>2, <2>1, PrefixType
  <2> QED BY <1>3, <2>1, <2>2 DEF AckFlying
<1>14. CASE Crash \/ Restart
  <2>1. \A op \in Ops : acked'[op] => acked[op]
    BY <1>14 DEF Crash, Restart, Recover
  <2>2. \A op \in Ops : AckFlying(op)' => AckFlying(op)
    <3>1. Crash => \A op \in Ops : ~AckFlying(op)'
      BY DEF Crash, LoseSocket, AckFlying
    <3>2. Restart => down' = down
      BY DEF Restart, netVars
    <3> QED BY <1>14, <3>1, <3>2 DEF AckFlying
  <2> QED BY <1>3, <2>1, <2>2
<1>15. CASE LoseJournal
  <2>1. down' = down /\ \A op \in Ops : ~acked'[op]
    BY <1>15 DEF LoseJournal, netVars
  <2> QED BY <1>3, <2>1 DEF AckFlying
<1> QED BY <1>4, <1>5, <1>6, <1>7, <1>8, <1>9, <1>10, <1>11, <1>12, <1>13, <1>14, <1>15 DEF Next

(* The Agent marks a result as acknowledged, which lets retention discard  *)
(* it, only when the Hub's row already holds a verdict: no crash, resend   *)
(* or reordering of the two sides makes an outcome vanish from both.       *)
THEOREM NothingForgotten == Spec => []AckedIsStored
<1> DEFINE Inv == Concluded /\ AcksFollowRows
<1>1. Init => Inv
  <2>1. Init => DOMAIN down = {}
    BY DEF Init
  <2> QED BY <2>1 DEF Init, Concluded, AcksFollowRows, AckFlying, Settled
<1>2. Typed /\ Core /\ Inv /\ [Next]_vars => Inv'
  <2>1. CASE Next
    BY <2>1, ConcludedStep, AckStep
  <2>2. CASE UNCHANGED vars
    BY <2>2 DEF vars, rowVars, netVars, agentVars, journalVars, Concluded, AcksFollowRows, AckFlying
  <2> QED BY <2>1, <2>2
<1>3. Inv => AckedIsStored
  BY DEF AcksFollowRows, AckedIsStored
<1> QED BY <1>1, <1>2, <1>3, TypedAlways, CoreAlways, PTL DEF Spec

----------------------------------------------------------------------------
(* The verdict of a row and the journal.                                    *)

(* The frames of a channel.                                                *)
Frames(s) == {s[i] : i \in DOMAIN s}

(* A row in an open state has no verdict.                                  *)
OpenIsBlank == \A op \in Ops : state[op] \in {"none"} \cup Active => verdict[op] = "none"

(* Nothing is anywhere of an operation that was not admitted.              *)
Named(s) == \A f \in Frames(s) : state[f.op] # "none"
NothingUnknown ==
    /\ \A op \in Ops : state[op] = "none" => sentJournal[op] = 0
    /\ Named(prepared) /\ Named(down) /\ Named(reader) /\ Named(up)

(* What an outcome claims of the execution and of the caller's request.    *)
Claimed(op, v) ==
    /\ v \in {"ok", "killed"} => runs[op] > 0
    /\ v = "killed" => cancelReq[op]
    /\ v # "forgotten"

(* An outcome that says that a tool with side effects did not begin.       *)
StoppedFirst(op, v) == v \in {"refused", "late"} /\ op \notin Reads => runs[op] = 0

(* The journal's record says v, or said it until retention replaced it.    *)
Says(op, v) == Finished(op) /\ result[op] \in {v, "forgotten"}

(* A cancellation on its way to the Agent was asked for by a caller.       *)
CancelsAsked ==
    /\ \A f \in Frames(down) : f.type = "cancel" => cancelReq[f.op]
    /\ \A p \in Frames(prepared) :
          \A k \in DOMAIN p.packets : p.packets[k] = "cancel" => cancelReq[p.op]

(* What the Agent is about to record, and what it recorded, is justified.  *)
ClaimsOf(op) ==
    /\ job[op] = "executing" => runs[op] > 0
    /\ job[op] \in {"started", "executing"} /\ op \in cancelled => cancelReq[op]
    /\ Finishing(op) => Claimed(op, job[op]) /\ StoppedFirst(op, job[op])
    /\ Finished(op) =>
          /\ result[op] = "forgotten" \/ Claimed(op, result[op])
          /\ StoppedFirst(op, result[op])

AgentClaims == \A op \in Ops : ClaimsOf(op)

(* A result under way is justified, and is not a tombstone.                *)
ReceiptsAreClaims ==
    \A f \in Frames(reader) \cup Frames(up) :
        f.type = "result" => Claimed(f.op, f.result)

(* A result under way is what the journal it was read from says, as long   *)
(* as the Agent has that journal and the Hub's connection is to it.        *)
JournalVoice ==
    /\ agentCon = 0 => reader = <<>>
    /\ \A f \in Frames(reader) :
          f.type = "result" => Says(f.op, f.result) /\ StoppedFirst(f.op, f.result)
    /\ \A f \in Frames(up) : f.type = "result" =>
          /\ hubJournal = journalId => Says(f.op, f.result)
          /\ sentJournal[f.op] \in {0, hubJournal} => StoppedFirst(f.op, f.result)

(* The frames that make the Agent look an operation up; none follows an    *)
(* acknowledgement of it on a connection.                                  *)
Asking == {"call", "probe"}
AckLast ==
    \A i, j \in DOMAIN down :
        i < j /\ down[i].type = "ack" /\ down[j].op = down[i].op => down[j].type \notin Asking

(* Of a record that was acknowledged nothing is being asked any more.      *)
AckedQuiet ==
    \A op \in Ops : acked[op] /\ Finished(op) =>
        /\ job[op] # "new"
        /\ \A f \in Frames(down) : f.op = op => f.type \notin Asking

(* Retention replaces only what was acknowledged.                          *)
ForgottenAcked == \A op \in Ops : result[op] = "forgotten" => acked[op] /\ Finished(op)

-----------------------------------------------------------------------------
(* Facts about the frames in a channel.                                    *)

LEMMA FramesOfTail ==
    ASSUME NEW S, NEW s \in Seq(S), s # <<>>
    PROVE  Frames(Tail(s)) \subseteq Frames(s) /\ Head(s) \in Frames(s)
<1>1. \A i \in DOMAIN Tail(s) : i + 1 \in DOMAIN s /\ Tail(s)[i] = s[i + 1]
  BY TailType
<1>2. 1 \in DOMAIN s /\ s[1] = Head(s)
  BY LenProperties, EmptySeq
<1> QED BY <1>1, <1>2 DEF Frames

LEMMA AppendIndices ==
    ASSUME NEW S, NEW s \in Seq(S), NEW e \in S
    PROVE  /\ Len(s) \in Nat /\ DOMAIN s = 1 .. Len(s)
           /\ DOMAIN Append(s, e) = 1 .. Len(s) + 1
           /\ Append(s, e)[Len(s) + 1] = e
           /\ \A i \in 1 .. Len(s) : Append(s, e)[i] = s[i]
  BY AppendProperties, LenProperties

LEMMA FramesOfAppend ==
    ASSUME NEW S, NEW s \in Seq(S), NEW e \in S
    PROVE  \A f \in Frames(Append(s, e)) : f \in Frames(s) \/ f = e
<1>1. ASSUME NEW i \in DOMAIN Append(s, e)
      PROVE  Append(s, e)[i] \in Frames(s) \/ Append(s, e)[i] = e
  BY <1>1, AppendIndices DEF Frames
<1> QED BY <1>1 DEF Frames

LEMMA FramesOfPrefix ==
    ASSUME NEW S, NEW s \in Seq(S), NEW t \in SomePrefix(s)
    PROVE  Frames(t) \subseteq Frames(s)
  BY PrefixType DEF Frames

LEMMA FramesOfNothing == Frames(<<>>) = {}
  BY DEF Frames

LEMMA FramesTyped ==
    ASSUME Typed
    PROVE  /\ Frames(down) \subseteq DownFrames
           /\ Frames(up) \subseteq UpFrames
           /\ Frames(reader) \subseteq UpFrames
           /\ Frames(prepared) \subseteq Preparations
<1> USE TypedParts DEF Frames
<1>1. Frames(down) \subseteq DownFrames /\ Frames(up) \subseteq UpFrames
  BY ElementOfSeq DEF LinkTyped
<1>2. Frames(reader) \subseteq UpFrames
  BY ElementOfSeq DEF TaskTyped
<1>3. Frames(prepared) \subseteq Preparations
  BY ElementOfSeq DEF LinkTyped
<1> QED BY <1>1, <1>2, <1>3

LEMMA FramesTypedNext ==
    ASSUME Typed'
    PROVE  /\ Frames(down') \subseteq DownFrames
           /\ Frames(up') \subseteq UpFrames
           /\ Frames(reader') \subseteq UpFrames
           /\ \A p \in Frames(prepared') : p.op \in Ops
<1> USE TypedParts DEF Frames
<1>1. Frames(down') \subseteq DownFrames /\ Frames(up') \subseteq UpFrames
  BY ElementOfSeq DEF LinkTyped
<1>2. Frames(reader') \subseteq UpFrames
  BY ElementOfSeq DEF TaskTyped
<1>3. \A p \in Frames(prepared') : p.op \in Ops
  <2>1. prepared' \in Seq(Preparations')
    BY DEF LinkTyped
  <2>2. \A i \in DOMAIN prepared' : prepared'[i] \in Preparations'
    BY <2>1, ElementOfSeq, LenProperties
  <2> QED BY <2>2 DEF Preparations
<1> QED BY <1>1, <1>2, <1>3

-----------------------------------------------------------------------------
(* What one step can put into a channel.                                   *)

(* The Agent reports what its journal holds, or what it just recorded.     *)
NewReceipt(f) ==
    \E op \in Ops :
        /\ f.op = op
        /\ job[op] # "none" \/ Finished(op)
        /\ f.type = "result" =>
              \/ Persist(op) /\ f.result = job[op]
              \/ StartFinished(op) /\ f.result = result[op]
              \/ SendOutbox(op) /\ f.result = result[op]

LEMMA SentByAgent ==
    ASSUME Typed, NEW frame \in UpFrames, AgentSends(frame), NEW f \in Frames(up')
    PROVE  f \in Frames(up) \/ f = frame
<1>1. up \in Seq(UpFrames)
  BY TypedParts DEF LinkTyped
<1> QED BY <1>1, FramesOfAppend DEF AgentSends

LEMMA UpGrows ==
    ASSUME Typed, Next, NEW f \in Frames(up')
    PROVE  f \in Frames(up) \/ f \in Frames(reader) \/ NewReceipt(f)
<1>1. up \in Seq(UpFrames) /\ reader \in Seq(UpFrames)
  BY TypedParts DEF LinkTyped, TaskTyped
<1>2. CASE up' = up
  BY <1>2
<1>3. CASE up' = <<>>
  BY <1>3, FramesOfNothing
<1>4. CASE up' \in SomePrefix(up)
  BY <1>1, <1>4, FramesOfPrefix
<1>5. CASE Receive
  <2>1. up # <<>> /\ up' = Tail(up)
    BY <1>5, ReceiveFrame DEF Receiving
  <2> QED BY <1>1, <2>1, FramesOfTail
<1>6. CASE SendReceipt
  <2>1. reader # <<>> /\ AgentSends(Head(reader))
    BY <1>6 DEF SendReceipt
  <2>2. Head(reader) \in UpFrames /\ Head(reader) \in Frames(reader)
    BY <1>1, <2>1, TailType, FramesOfTail
  <2> QED BY <2>1, <2>2, SentByAgent
<1>7. ASSUME NEW op \in Ops, SendOutbox(op) \/ StartFinished(op)
      PROVE  f \in Frames(up) \/ NewReceipt(f)
  <2>1. AgentSends(Receipt(op)) /\ Finished(op)
    BY <1>7 DEF SendOutbox, StartFinished
  <2>2. f \in Frames(up) \/ f = Receipt(op)
    BY <2>1, ReceiptType, SentByAgent
  <2>3. Receipt(op) = [type |-> "result", op |-> op, result |-> result[op]]
    BY <2>1 DEF Receipt
  <2>4. CASE f = Receipt(op)
    <3>1. f.op = op /\ f.type = "result" /\ f.result = result[op]
      BY <2>3, <2>4
    <3> QED BY <1>7, <2>1, <3>1 DEF NewReceipt
  <2> QED BY <2>2, <2>4
<1>8. ASSUME NEW op \in Ops, StartAccepted(op) \/ MarkRunning(op)
      PROVE  f \in Frames(up) \/ NewReceipt(f)
  <2>1. PICK type \in {"accepted", "started"} : AgentSends([type |-> type, op |-> op])
    BY <1>8 DEF StartAccepted, MarkRunning
  <2> DEFINE frame == [type |-> type, op |-> op]
  <2>2. frame \in UpFrames
    BY DEF UpFrames
  <2>3. f \in Frames(up) \/ f = frame
    BY <2>1, <2>2, SentByAgent
  <2>4. CASE f = frame
    <3>1. f.op = op /\ f.type # "result"
      BY <2>4
    <3>2. job[op] # "none"
      BY <1>8 DEF StartAccepted, MarkRunning
    <3> HIDE DEF frame
    <3> QED BY <3>1, <3>2 DEF NewReceipt
  <2> QED BY <2>3, <2>4
<1>9. ASSUME NEW op \in Ops, Persist(op)
      PROVE  f \in Frames(up) \/ NewReceipt(f)
  <2> DEFINE frame == [type |-> "result", op |-> op, result |-> job[op]]
  <2>1. job[op] \in Outcomes /\ AgentSends(frame)
    BY <1>9 DEF Persist, Finishing
  <2>2. frame \in UpFrames
    BY <2>1 DEF UpFrames, Results
  <2>3. f \in Frames(up) \/ f = frame
    BY <2>1, <2>2, SentByAgent
  <2>4. CASE f = frame
    <3>1. f.op = op /\ f.result = job[op] /\ job[op] # "none"
      BY <2>1, <2>4 DEF Outcomes
    <3> HIDE DEF frame
    <3> QED BY <1>9, <3>1 DEF NewReceipt
  <2> QED BY <2>3, <2>4
<1>10. ASSUME NEW op \in Ops, Handle(op)
       PROVE  f \in Frames(up) \/ NewReceipt(f)
  <2>1. CASE Refuse(op) \/ Abandon(op) \/ Withhold(op) \/ Execute(op) \/ FinishExecution(op)
    <3>1. up' = up
      BY <2>1 DEF Refuse, Abandon, Withhold, Execute, FinishExecution
    <3> QED BY <3>1
  <2> QED BY <1>7, <1>8, <1>9, <1>10, <2>1 DEF Handle
<1>11. ASSUME NEW op \in Ops, Caller(op) \/ Prepare(op) \/ Prune(op)
       PROVE  up' = up
  BY <1>11 DEF Caller, Admit, Cancel, Revoke, Restore, Expire, Prepare, PrepareRefusal,
         PrepareFenced, PreparePackets, Prune, netVars
<1>12. CASE Send \/ Restart \/ LoseJournal
  <2>1. up' = up
    BY <1>12 DEF Send, SendPacket, DropPrepared, Restart, LoseJournal, netVars
  <2> QED BY <2>1
<1>13. CASE Read
  BY <1>13, <1>2, ReadFacts
<1>14. CASE Connect \/ HubDetach \/ HubRestart
  BY <1>3, <1>14 DEF Connect, HubDetach, HubRestart
<1>15. CASE AgentDrop \/ Stop \/ Crash
  BY <1>4, <1>15 DEF AgentDrop, Stop, Crash, LoseSocket
<1> QED BY <1>2, <1>5, <1>6, <1>7, <1>10, <1>11, <1>12, <1>13, <1>14, <1>15 DEF Next

(* The reader reports what it was asked about.                             *)
LEMMA ReaderGrows ==
    ASSUME Typed, Next, NEW f \in Frames(reader')
    PROVE  \/ f \in Frames(reader)
           \/ /\ Read /\ Head(down).type \in Asking
              /\ HandlerBegan(Head(down).op)
              /\ f = Receipt(Head(down).op)
<1>1. CASE reader' = reader
  BY <1>1
<1>2. CASE reader' = <<>>
  BY <1>2, FramesOfNothing
<1>3. CASE Read
  <2>1. CASE Report(Head(down).op) /\ Head(down).type \in Asking
    <3> DEFINE receipt == Receipt(Head(down).op)
    <3>1. reader' = <<receipt>> /\ HandlerBegan(Head(down).op)
      BY <2>1 DEF Report
    <3>2. f = receipt
      <4> HIDE DEF receipt
      <4> QED BY <3>1 DEF Frames
    <3> QED BY <1>3, <2>1, <3>1, <3>2
  <2> QED BY <1>1, <1>3, <2>1
          DEF Read, ReadCall, ReadProbe, ReadCancel, ReadCancelPending, ReadAck, Reading, Asking
<1>4. ASSUME NEW op \in Ops,
             Caller(op) \/ Prepare(op) \/ Handle(op) \/ SendOutbox(op) \/ Prune(op)
      PROVE  reader' = reader
  BY <1>4, HandleFacts
     DEF Caller, Admit, Cancel, Revoke, Restore, Expire, Prepare, PrepareRefusal,
         PrepareFenced, PreparePackets, Prune, SendOutbox, agentVars, taskVars
<1>5. CASE Send \/ Restart \/ LoseJournal \/ Connect \/ HubDetach \/ HubRestart
  <2>1. reader' = reader
    BY <1>5 DEF Send, SendPacket, DropPrepared, Restart, LoseJournal, Connect, HubDetach,
           HubRestart, agentVars, taskVars
  <2> QED BY <2>1
<1>6. CASE Receive
  <2>1. reader' = reader
    BY <1>6, ReceiveFrame DEF Receiving, agentVars, taskVars
  <2> QED BY <2>1
<1>7. CASE AgentDrop \/ Stop \/ Crash \/ SendReceipt
  BY <1>2, <1>7 DEF AgentDrop, Stop, Crash, LoseSocket, SendReceipt
<1> QED BY <1>1, <1>3, <1>4, <1>5, <1>6, <1>7 DEF Next

(* The Hub sends packets of open rows, and acknowledges results.           *)
NewPacket(f) ==
    /\ SendPacket
    /\ IsActive(f.op)
    /\ f.type # "ack"
    /\ \E p \in Frames(prepared) :
          p.op = f.op /\ \E k \in DOMAIN p.packets : p.packets[k] = f.type

NewAcknowledgement(f) ==
    ReceiveResult /\ Head(up).op = f.op /\ f.type = "ack"

LEMMA DownGrows ==
    ASSUME Typed, Next, NEW f \in Frames(down')
    PROVE  f \in Frames(down) \/ NewPacket(f) \/ NewAcknowledgement(f)
<1>1. down \in Seq(DownFrames) /\ prepared \in Seq(Preparations)
  BY TypedParts DEF LinkTyped
<1>2. CASE down' = down
  BY <1>2
<1>3. CASE down' = <<>>
  BY <1>3, FramesOfNothing
<1>4. CASE down' \in SomePrefix(down)
  BY <1>1, <1>4, FramesOfPrefix
<1>5. CASE Read
  BY <1>1, <1>5, ReadFacts, FramesOfTail
<1>6. CASE SendPacket /\ down' # down
  <2> DEFINE head == Head(prepared)
             frame == [type |-> Head(head.packets), op |-> head.op]
  <2>1. head \in Frames(prepared) /\ head \in Preparations
    BY <1>1, <1>6, FramesOfTail, TailType DEF SendPacket
  <2>2. /\ head.packets \in Seq(Packets) /\ head.packets # <<>> /\ head.op \in Ops
        /\ Head(head.packets) \in Packets
        /\ 1 \in DOMAIN head.packets /\ head.packets[1] = Head(head.packets)
    <3>1. head.packets \in Seq(Packets) /\ head.packets # <<>> /\ head.op \in Ops
      BY <2>1 DEF Preparations
    <3> HIDE DEF head
    <3> QED BY <3>1, TailType, LenProperties, EmptySeq
  <2>3. down' = Append(down, frame) /\ IsActive(head.op)
    BY <1>6 DEF SendPacket, HubSends, PacketCurrent
  <2>4. frame \in DownFrames /\ frame.op = head.op /\ frame.type = Head(head.packets)
    BY <2>2 DEF DownFrames
  <2>5. f \in Frames(down) \/ f = frame
    <3> HIDE DEF frame
    <3> QED BY <1>1, <2>3, <2>4, FramesOfAppend
  <2>6. CASE f = frame
    <3>1. f.type # "ack"
      BY <2>2, <2>4, <2>6 DEF Packets
    <3> HIDE DEF frame, head
    <3> QED BY <1>6, <2>1, <2>2, <2>3, <2>4, <2>6, <3>1 DEF NewPacket
  <2> QED BY <2>5, <2>6
<1>7. CASE ReceiveResult /\ down' # down
  <2> DEFINE frame == [type |-> "ack", op |-> Head(up).op]
  <2>1. Head(up).op \in Ops
    BY <1>7, ReceivedFrame DEF ReceiveResult
  <2>2. down' = Append(down, frame)
    BY <1>7 DEF ReceiveResult, Acknowledge, HubSends
  <2>3. frame \in DownFrames /\ frame.op = Head(up).op /\ frame.type = "ack"
    BY <2>1 DEF DownFrames
  <2>4. f \in Frames(down) \/ f = frame
    <3> HIDE DEF frame
    <3> QED BY <1>1, <2>2, <2>3, FramesOfAppend
  <2> QED BY <1>7, <2>3, <2>4 DEF NewAcknowledgement
<1>8. ASSUME NEW op \in Ops,
             Caller(op) \/ Prepare(op) \/ Handle(op) \/ SendOutbox(op) \/ Prune(op)
      PROVE  down' = down
  BY <1>8, HandleFacts
     DEF Caller, Admit, Cancel, Revoke, Restore, Expire, Prepare, PrepareRefusal,
         PrepareFenced, PreparePackets, Prune, SendOutbox, netVars
<1>9. CASE DropPrepared \/ Restart \/ LoseJournal \/ SendReceipt \/ ReceiveProgress \/ ReceiveStatus
  <2>1. down' = down
    BY <1>9 DEF DropPrepared, Restart, LoseJournal, SendReceipt, ReceiveProgress,
           ReceiveStatus, netVars
  <2> QED BY <2>1
<1>10. CASE HubDetach \/ HubRestart
  BY <1>4, <1>10 DEF HubDetach, HubRestart
<1>11. CASE Connect \/ AgentDrop \/ Stop \/ Crash
  BY <1>3, <1>11 DEF Connect, AgentDrop, Stop, Crash, LoseSocket
<1> QED BY <1>2, <1>5, <1>6, <1>7, <1>8, <1>9, <1>10, <1>11 DEF Next, Send, Receive

(* Preparations shrink packet by packet; a new one is of an open row.      *)
NewPreparation(p) ==
    /\ IsActive(p.op)
    /\ \A k \in DOMAIN p.packets : p.packets[k] = "cancel" => cancelReq[p.op]

PartOf(p, q) ==
    /\ p.op = q.op
    /\ \A k \in DOMAIN p.packets : \E l \in DOMAIN q.packets : p.packets[k] = q.packets[l]

LEMMA PreparedGrows ==
    ASSUME Typed, Next, NEW p \in Frames(prepared')
    PROVE  (\E q \in Frames(prepared) : PartOf(p, q)) \/ NewPreparation(p)
<1>1. prepared \in Seq(Preparations)
  BY TypedParts DEF LinkTyped
<1>2. CASE p \in Frames(prepared)
  <2>1. PartOf(p, p)
    BY DEF PartOf
  <2> QED BY <1>2, <2>1
<1>3. CASE prepared' = prepared
  BY <1>2, <1>3
<1>4. ASSUME prepared # <<>>, prepared' = Tail(prepared)
      PROVE  p \in Frames(prepared)
  BY <1>1, <1>4, FramesOfTail
<1>5. ASSUME SendPacket, prepared' = [prepared EXCEPT ![1].packets = Tail(@)]
      PROVE  \E q \in Frames(prepared) : PartOf(p, q)
  <2> DEFINE head == Head(prepared)
  <2>1. /\ head \in Frames(prepared) /\ head \in Preparations
        /\ 1 \in DOMAIN prepared /\ prepared[1] = head
        /\ DOMAIN prepared' = DOMAIN prepared
    BY <1>1, <1>5, FramesOfTail, TailType, LenProperties, EmptySeq DEF SendPacket
  <2>2. head.packets \in Seq(Packets) /\ head.packets # <<>>
    BY <2>1 DEF Preparations
  <2>3. PICK i \in DOMAIN prepared : p = prepared'[i]
    BY <2>1 DEF Frames
  <2>4. CASE i = 1
    <3>1. prepared'[1] = [head EXCEPT !.packets = Tail(@)]
      BY <1>5, <2>1
    <3>2. p.op = head.op /\ p.packets = Tail(head.packets)
      BY <2>1, <2>3, <2>4, <3>1 DEF Preparations
    <3>3. \A k \in DOMAIN Tail(head.packets) :
             k + 1 \in DOMAIN head.packets /\ Tail(head.packets)[k] = head.packets[k + 1]
      <4> HIDE DEF head
      <4> QED BY <2>2, TailType
    <3>4. PartOf(p, head)
      <4> HIDE DEF head
      <4> QED BY <3>2, <3>3 DEF PartOf
    <3> QED BY <2>1, <3>4
  <2>5. CASE i # 1
    <3>1. p = prepared[i]
      BY <1>5, <2>1, <2>3, <2>5
    <3>2. p \in Frames(prepared) /\ PartOf(p, p)
      BY <2>3, <3>1 DEF Frames, PartOf
    <3> QED BY <3>2
  <2> QED BY <2>4, <2>5
<1>6. ASSUME NEW op \in Ops, PreparePackets(op)
      PROVE  p \in Frames(prepared) \/ NewPreparation(p)
  <2> DEFINE last == IF Probing(op) THEN "probe" ELSE "call"
             item == [op |-> op, con |-> hubCon, packets |-> Fence(op) \o <<last>>]
  <2>1. item.packets \in Seq(Packets) \ {<<>>}
    BY FenceType
  <2>2. item \in Preparations /\ item.op = op
    BY <1>6, <2>1, TypedParts DEF PreparePackets, LinkTyped, Preparations
  <2>3. ASSUME NEW k \in DOMAIN item.packets, item.packets[k] = "cancel"
        PROVE  cancelReq[op]
    BY <2>3 DEF Fence
  <2>4. prepared' = Append(prepared, item) /\ IsActive(op)
    BY <1>6 DEF PreparePackets, MayPrepare
  <2>5. p \in Frames(prepared) \/ p = item
    <3> HIDE DEF item
    <3> QED BY <1>1, <2>2, <2>4, FramesOfAppend
  <2> HIDE DEF item
  <2> QED BY <2>2, <2>3, <2>4, <2>5 DEF NewPreparation
<1>7. CASE Send
  BY <1>2, <1>4, <1>5, <1>7 DEF Send, SendPacket, DropPrepared
<1>8. CASE HubRestart
  <2>1. prepared' = <<>>
    BY <1>8 DEF HubRestart
  <2> QED BY <2>1, FramesOfNothing
<1>9. ASSUME NEW op \in Ops,
             Caller(op) \/ PrepareRefusal(op) \/ PrepareFenced(op) \/ Handle(op)
                \/ SendOutbox(op) \/ Prune(op)
      PROVE  prepared' = prepared
  BY <1>9, HandleFacts
     DEF Caller, Admit, Cancel, Revoke, Restore, Expire, PrepareRefusal,
         PrepareFenced, Prune, SendOutbox, hubVars
<1>10. CASE Receive \/ Read
  <2>1. prepared' = prepared
    BY <1>10, ReceiveFrame, ReadFacts DEF Receiving, hubVars
  <2> QED BY <1>3, <2>1
<1>11. CASE SendReceipt \/ Connect \/ HubDetach \/ AgentDrop \/ Stop \/ Crash
               \/ Restart \/ LoseJournal
  <2>1. prepared' = prepared
    BY <1>11 DEF SendReceipt, Connect, HubDetach, AgentDrop, Stop, Crash, Restart,
           LoseJournal, hubVars
  <2> QED BY <1>3, <2>1
<1> QED BY <1>2, <1>3, <1>6, <1>7, <1>8, <1>9, <1>10, <1>11 DEF Next, Prepare

(* What never goes back: an admitted row, a request to cancel, a count of  *)
(* executions, and the journal a row was sent to.                          *)
RowGrows(op) ==
    /\ state[op] # "none" => state'[op] # "none"
    /\ cancelReq[op] => cancelReq'[op]
    /\ sentJournal'[op] = sentJournal[op]
          \/ (sentJournal[op] = 0 /\ IsActive(op) /\ sentJournal'[op] = hubJournal)
    /\ runs'[op] = runs[op] \/ (Execute(op) /\ runs'[op] = runs[op] + 1)

LEMMA RunsGrow ==
    ASSUME Typed, Next, NEW op \in Ops
    PROVE  runs'[op] = runs[op] \/ (Execute(op) /\ runs'[op] = runs[op] + 1)
<1>1. runs \in [Ops -> Nat]
  BY TypedParts DEF RestTyped
<1>2. CASE runs' = runs
  BY <1>2
<1>3. ASSUME NEW o \in Ops, Handle(o)
      PROVE  runs'[op] = runs[op] \/ (Execute(op) /\ runs'[op] = runs[op] + 1)
  <2>1. CASE Execute(o)
    BY <1>1, <2>1 DEF Execute
  <2>2. CASE runs' = runs
    BY <2>2
  <2> QED BY <1>3, <2>1, <2>2
          DEF Handle, StartAccepted, StartFinished, Refuse, Abandon, MarkRunning, Withhold,
              FinishExecution, Persist
<1>4. ASSUME NEW o \in Ops, Caller(o) \/ Prepare(o) \/ SendOutbox(o) \/ Prune(o)
      PROVE  runs' = runs
  BY <1>4 DEF Caller, Admit, Cancel, Revoke, Restore, Expire, Prepare, PrepareRefusal,
         PrepareFenced, PreparePackets, SendOutbox, Prune, agentVars
<1>5. CASE Send \/ Connect \/ HubDetach \/ HubRestart \/ AgentDrop \/ Stop \/ Crash
              \/ Restart \/ LoseJournal \/ SendReceipt
  BY <1>2, <1>5 DEF Send, SendPacket, DropPrepared, Connect, HubDetach, HubRestart, AgentDrop,
         Stop, Crash, Restart, LoseJournal, SendReceipt, agentVars
<1>6. CASE Receive \/ Read
  BY <1>2, <1>6, ReceiveFrame, ReadFacts DEF Receiving, agentVars
<1> QED BY <1>2, <1>3, <1>4, <1>5, <1>6 DEF Next

LEMMA CompleteAdmitted ==
    ASSUME RowTyped, NEW op \in Ops, NEW v, Complete(op, v), NEW o \in Ops, state[o] # "none"
    PROVE  state'[o] # "none"
  BY DEF Complete, RowTyped, StateOf

LEMMA RowsGrow ==
    ASSUME Typed, Next, NEW op \in Ops
    PROVE  RowGrows(op)
<1> USE TypedParts
<1>1. ASSUME state[op] # "none"
      PROVE  state'[op] # "none"
  <2>1. ASSUME NEW o \in Ops, Caller(o)
        PROVE  state'[op] # "none"
    BY <1>1, <2>1, CompleteAdmitted
       DEF Caller, Admit, Cancel, Revoke, Restore, Expire, rowVars, RowTyped
  <2>2. ASSUME NEW o \in Ops, Prepare(o)
        PROVE  state'[op] # "none"
    BY <1>1, <2>2, CompleteAdmitted DEF Prepare, PrepareRefusal, PrepareFenced, PreparePackets
  <2>3. CASE Receive
    <3>1. PICK o \in Ops : RowStep(o)
      BY <2>3, ReceiveRowStep
    <3> QED BY <1>1, <3>1, CompleteAdmitted DEF RowStep, Confirm, Requeue, RowTyped
  <2>4. CASE HubDetach \/ HubRestart
    BY <1>1, <2>4 DEF HubDetach, HubRestart, Disconnected
  <2>5. ASSUME NEW o \in Ops, Handle(o) \/ SendOutbox(o) \/ Prune(o)
        PROVE  state' = state
    BY <2>5, HandleFacts DEF SendOutbox, Prune, rowVars
  <2>6. CASE Send \/ Read \/ SendReceipt \/ Connect \/ AgentDrop \/ Stop \/ Crash \/ Restart
                \/ LoseJournal
    BY <1>1, <2>6, ReadFacts DEF Send, SendPacket, DropPrepared, SendReceipt, Connect, AgentDrop,
           Stop, Crash, Restart, LoseJournal, rowVars
  <2> QED BY <1>1, <2>1, <2>2, <2>3, <2>4, <2>5, <2>6 DEF Next
<1>2. /\ cancelReq[op] => cancelReq'[op]
      /\ sentJournal'[op] = sentJournal[op]
            \/ (sentJournal[op] = 0 /\ IsActive(op) /\ sentJournal'[op] = hubJournal)
  <2>1. CASE UNCHANGED <<cancelReq, sentJournal>>
    BY <2>1
  <2>2. ASSUME NEW o \in Ops, Caller(o)
        PROVE  /\ cancelReq[op] => cancelReq'[op]
               /\ sentJournal' = sentJournal
    BY <2>2 DEF Caller, Admit, Cancel, Revoke, Restore, Expire, rowVars, RowTyped
  <2>3. ASSUME NEW o \in Ops, PreparePackets(o)
        PROVE  /\ cancelReq' = cancelReq
               /\ sentJournal'[op] = sentJournal[op]
                     \/ (sentJournal[op] = 0 /\ IsActive(op) /\ sentJournal'[op] = hubJournal)
    BY <2>3 DEF PreparePackets, MayPrepare, RowTyped
  <2>4. ASSUME NEW o \in Ops,
               PrepareRefusal(o) \/ PrepareFenced(o) \/ Handle(o) \/ SendOutbox(o) \/ Prune(o)
        PROVE  UNCHANGED <<cancelReq, sentJournal>>
    BY <2>4, HandleFacts DEF PrepareRefusal, PrepareFenced, SendOutbox, Prune, rowVars
  <2>5. CASE Receive
    BY <2>1, <2>5, ReceiveRowStep
  <2>6. CASE Send \/ Read \/ SendReceipt \/ Connect \/ HubDetach \/ HubRestart \/ AgentDrop
                \/ Stop \/ Crash \/ Restart \/ LoseJournal
    BY <2>1, <2>6, ReadFacts DEF Send, SendPacket, DropPrepared, SendReceipt, Connect, HubDetach,
           HubRestart, AgentDrop, Stop, Crash, Restart, LoseJournal, rowVars
  <2> QED BY <2>2, <2>3, <2>4, <2>5, <2>6 DEF Next, Prepare
<1> QED BY <1>1, <1>2, RunsGrow DEF RowGrows

(* A row without a verdict is open, and an open row is without a verdict.  *)
LEMMA OpenStep ==
    ASSUME Typed, OpenIsBlank, Next
    PROVE  OpenIsBlank'
<1> USE TypedParts
<1>1. ASSUME NEW op \in Ops, NEW v \in Verdicts, Complete(op, v)
      PROVE  OpenIsBlank'
  <2>1. StateOf(v) \in Settled \cup {"needs_review"}
    BY DEF StateOf, Settled
  <2> QED BY <1>1, <2>1 DEF Complete, OpenIsBlank, RowTyped, Settled, Active
<1>2. CASE UNCHANGED <<state, verdict>>
  BY <1>2 DEF OpenIsBlank
<1>3. ASSUME NEW op \in Ops, NEW s \in Active, state[op] \in {"none"} \cup Active,
             state' = [state EXCEPT ![op] = s], UNCHANGED verdict
      PROVE  OpenIsBlank'
  BY <1>3 DEF OpenIsBlank, RowTyped
<1>4. ASSUME NEW op \in Ops, Caller(op)
      PROVE  OpenIsBlank'
  BY <1>1, <1>2, <1>3, <1>4 DEF Caller, Admit, Cancel, Revoke, Restore, Expire, rowVars,
         IsActive, Active, Verdicts, HubClaims, NeverSent
<1>5. ASSUME NEW op \in Ops, Prepare(op)
      PROVE  OpenIsBlank'
  BY <1>1, <1>2, <1>5 DEF Prepare, PrepareRefusal, PrepareFenced, PreparePackets,
         Verdicts, HubClaims, NeverSent
<1>6. CASE ReceiveProgress
  <2>1. PICK type \in {"accepted", "started"} :
          /\ Receiving(type)
          /\ IF Fenced(Head(up).op) THEN Resolve(Head(up).op, "journal_changed")
             ELSE Confirm(Head(up).op, type = "started") /\ UNCHANGED <<attempted, verdict>>
    BY <1>6 DEF ReceiveProgress
  <2>2. Head(up).op \in Ops
    BY <2>1, ReceivedFrame
  <2> QED BY <1>1, <1>2, <1>3, <2>1, <2>2
          DEF Resolve, Confirm, IsActive, Active, Verdicts, HubClaims
<1>7. CASE ReceiveStatus
  <2>1. Head(up).op \in Ops
    BY <1>7, ReceivedFrame DEF ReceiveStatus
  <2> QED BY <1>1, <1>2, <1>3, <1>7, <2>1
          DEF ReceiveStatus, Resolve, Confirm, Requeue, IsActive, Active, Verdicts, HubClaims, Unstarted
<1>8. CASE ReceiveResult
  <2>1. Head(up).op \in Ops /\ Head(up).result \in Results
    BY <1>8, ReceivedFrame DEF ReceiveResult
  <2> QED BY <1>1, <1>8, <2>1 DEF ReceiveResult, Verdicts, HubClaims
<1>9. CASE HubDetach \/ HubRestart
  BY <1>9 DEF HubDetach, HubRestart, Disconnected, OpenIsBlank, Active, RowTyped
<1>10. ASSUME NEW op \in Ops, Handle(op) \/ SendOutbox(op) \/ Prune(op)
       PROVE  UNCHANGED <<state, verdict>>
  BY <1>10, HandleFacts DEF SendOutbox, Prune, rowVars
<1>11. CASE Send \/ Read \/ SendReceipt \/ Connect \/ AgentDrop \/ Stop \/ Crash \/ Restart
              \/ LoseJournal
  BY <1>2, <1>11, ReadFacts DEF Send, SendPacket, DropPrepared, SendReceipt, Connect, AgentDrop,
         Stop, Crash, Restart, LoseJournal, rowVars
<1> QED BY <1>2, <1>4, <1>5, <1>6, <1>7, <1>8, <1>9, <1>10, <1>11 DEF Next, Receive

LEMMA ReceivedIsFlying ==
    ASSUME Typed, NEW type, Receiving(type)
    PROVE  Head(up) \in Frames(up)
  BY FramesOfTail, TypedParts DEF Receiving, LinkTyped

LEMMA ReadIsFlying ==
    ASSUME Typed, Read
    PROVE  Head(down) \in Frames(down)
  BY FramesOfTail, ReadFacts, TypedParts DEF LinkTyped

LEMMA UnknownStep ==
    ASSUME Typed, Core, NothingUnknown, Next
    PROVE  NothingUnknown'
<1>1. \A op \in Ops : state[op] # "none" => state'[op] # "none"
  BY RowsGrow DEF RowGrows
<1>2. \A op \in Ops : job[op] # "none" \/ Finished(op) => state[op] # "none"
  BY TypedParts DEF Core, CallsAreCurrent, NothingUnknown, Finished, JournalTyped
<1>3. \A op \in Ops : IsActive(op) => state[op] # "none"
  BY DEF IsActive, Active
<1>4. \A op \in Ops : state'[op] = "none" => sentJournal'[op] = 0
  BY <1>1, <1>3, RowsGrow DEF RowGrows, NothingUnknown
<1>5. Typed'
  BY TypedStep
<1>6. Named(prepared)'
  <2>1. ASSUME NEW p \in Frames(prepared')
        PROVE  state'[p.op] # "none"
    <3>1. p.op \in Ops
      BY <1>5, FramesTypedNext
    <3> QED BY <1>1, <1>3, <3>1, PreparedGrows
            DEF NothingUnknown, Named, PartOf, NewPreparation
  <2> QED BY <2>1 DEF Named
<1>7. Named(down)'
  <2>1. ASSUME NEW f \in Frames(down')
        PROVE  state'[f.op] # "none"
    <3>1. f.op \in Ops
      BY <1>5, FramesTypedNext DEF DownFrames
    <3>2. CASE NewAcknowledgement(f)
      BY <1>1, <3>1, <3>2, ReceivedIsFlying
         DEF NewAcknowledgement, ReceiveResult, NothingUnknown, Named
    <3> QED BY <1>1, <1>3, <3>1, <3>2, DownGrows DEF NothingUnknown, Named, NewPacket
  <2> QED BY <2>1 DEF Named
<1>8. Named(reader)'
  <2>1. ASSUME NEW f \in Frames(reader')
        PROVE  state'[f.op] # "none"
    <3>1. f.op \in Ops
      BY <1>5, FramesTypedNext DEF UpFrames
    <3>2. ASSUME Read, f = Receipt(Head(down).op)
          PROVE  f.op = Head(down).op /\ Head(down) \in Frames(down)
      BY <3>2, ReadIsFlying DEF Receipt
    <3> QED BY <1>1, <3>1, <3>2, ReaderGrows DEF NothingUnknown, Named
  <2> QED BY <2>1 DEF Named
<1>9. Named(up)'
  <2>1. ASSUME NEW f \in Frames(up')
        PROVE  state'[f.op] # "none"
    <3>1. f.op \in Ops
      BY <1>5, FramesTypedNext DEF UpFrames
    <3> QED BY <1>1, <1>2, <3>1, UpGrows DEF NothingUnknown, Named, NewReceipt
  <2> QED BY <2>1 DEF Named
<1> QED BY <1>4, <1>6, <1>7, <1>8, <1>9 DEF NothingUnknown

-----------------------------------------------------------------------------
(* What the Agent's outcomes claim.                                        *)

(* Work of a tool with side effects that has not begun in this journal has *)
(* not begun anywhere.                                                     *)
LEMMA Unbegun ==
    ASSUME Typed, Core, NEW op \in Ops, job[op] \in {"queued", "started"}
    PROVE  op \notin Reads => runs[op] = 0
<1>1. sentJournal[op] = journalId
  BY DEF Core, CallsAreCurrent
<1>2. Fresh(op)
  BY DEF Typed, JobMatchesCall, Fresh
<1>3. runs[op] <= crashes[op] /\ runs[op] \in Nat
  BY <1>1, <1>2, TypedParts DEF Core, RunsAreCounted, RestTyped
<1> QED BY <1>3 DEF Typed, CrashRoom

LEMMA ClaimsPersist ==
    ASSUME Typed, Next, NEW op \in Ops, ClaimsOf(op), runs'[op] = runs[op],
           job'[op] = job[op] \/ job'[op] \in {"none", "new"},
           call'[op] = call[op] \/ call'[op] \notin {"done", "interrupted"},
           result'[op] = result[op] \/ result'[op] = "forgotten",
           cancelled' \subseteq cancelled
    PROVE  ClaimsOf(op)'
<1>1. cancelReq[op] => cancelReq'[op]
  BY RowsGrow DEF RowGrows
<1> QED BY <1>1 DEF ClaimsOf, Claimed, StoppedFirst, Finishing, Outcomes, Finished

LEMMA ClaimsHandle ==
    ASSUME Typed, Core, AgentClaims, NEW op \in Ops, Handle(op), Next
    PROVE  ClaimsOf(op)'
<1>1. /\ job \in [Ops -> JobStates] /\ call \in [Ops -> CallStates]
      /\ result \in [Ops -> Results \cup {"none"}] /\ runs \in [Ops -> Nat]
  BY TypedParts DEF TaskTyped, JournalTyped, RestTyped
<1>2. cancelReq' = cancelReq /\ cancelled' = cancelled
  BY HandleFacts DEF rowVars
<1>3. ClaimsOf(op)
  BY DEF AgentClaims
<1>4. CASE StartAccepted(op)
  BY <1>1, <1>4 DEF StartAccepted, SetJob, ClaimsOf, Finishing, Outcomes, Finished
<1>5. CASE StartFinished(op) \/ Abandon(op)
  BY <1>1, <1>2, <1>3, <1>5, ClaimsPersist DEF StartFinished, Abandon, SetJob, journalVars
<1>6. CASE MarkRunning(op)
  BY <1>1, <1>2, <1>6 DEF MarkRunning, SetJob, ClaimsOf, Finishing, Outcomes, Finished
<1>7. CASE Refuse(op) \/ Withhold(op)
  <2>1. op \notin Reads => runs[op] = 0
    BY <1>7, Unbegun DEF Refuse, Withhold
  <2>2. PICK o \in {"refused", "late", "error"} : job'[op] = o
    BY <1>1, <1>7 DEF Refuse, Withhold, SetJob
  <2>3. UNCHANGED <<call, result, runs>>
    BY <1>7 DEF Refuse, Withhold, journalVars
  <2> QED BY <1>2, <1>3, <2>1, <2>2, <2>3
          DEF ClaimsOf, Claimed, StoppedFirst, Finishing, Outcomes, Finished
<1>8. CASE Execute(op)
  <2>1. job[op] = "started" /\ job'[op] = "executing" /\ runs'[op] = runs[op] + 1
    BY <1>1, <1>8 DEF Execute, SetJob
  <2>2. call'[op] = "running" /\ op \notin cancelled
    BY <1>8, <2>1 DEF Execute, Typed, JobMatchesCall, journalVars
  <2> QED BY <1>1, <1>2, <2>1, <2>2 DEF ClaimsOf, Finishing, Outcomes, Finished
<1>9. CASE FinishExecution(op)
  <2>1. PICK o \in {"ok", "error", "killed", "interrupted"} :
           o = "killed" => op \in cancelled
    BY <1>9 DEF FinishExecution
  <2>2. job[op] = "executing" /\ job'[op] \in {"ok", "error", "killed", "interrupted"}
    BY <1>1, <1>9 DEF FinishExecution, SetJob
  <2>3. job'[op] = "killed" => op \in cancelled
    BY <1>1, <1>9 DEF FinishExecution, SetJob
  <2>4. UNCHANGED <<call, result, runs>>
    BY <1>9 DEF FinishExecution, journalVars
  <2> QED BY <1>2, <1>3, <2>2, <2>3, <2>4
          DEF ClaimsOf, Claimed, StoppedFirst, Finishing, Outcomes, Finished
<1>10. CASE Persist(op)
  <2>1. /\ Finishing(op) /\ job'[op] = "none" /\ result'[op] = job[op] /\ runs' = runs
    BY <1>1, <1>10 DEF Persist, SetJob
  <2> QED BY <1>2, <1>3, <2>1
          DEF ClaimsOf, Claimed, StoppedFirst, Finishing, Outcomes, Finished
<1> QED BY <1>4, <1>5, <1>6, <1>7, <1>8, <1>9, <1>10 DEF Handle

LEMMA ClaimsCancelCall ==
    ASSUME Typed, Core, AgentClaims, NEW op \in Ops, CancelCall(op),
           UNCHANGED <<cancelReq, runs>>,
           job[op] \in {"started", "executing"} => cancelReq[op]
    PROVE  AgentClaims'
<1>1. job \in [Ops -> JobStates]
  BY TypedParts DEF TaskTyped
<1>2. /\ cancelled' = cancelled \cup {op} /\ UNCHANGED <<call, result>>
      /\ job' = job \/ (job[op] = "queued" /\ job' = [job EXCEPT ![op] = "refused"])
  BY DEF CancelCall
<1>3. ASSUME NEW o \in Ops, o # op
      PROVE  ClaimsOf(o)'
  <2>1. job'[o] = job[o] /\ ClaimsOf(o)
    BY <1>1, <1>2, <1>3 DEF AgentClaims
  <2> QED BY <1>2, <1>3, <2>1 DEF ClaimsOf, Claimed, StoppedFirst, Finishing, Finished
<1>4. ClaimsOf(op)'
  <2>1. ClaimsOf(op)
    BY DEF AgentClaims
  <2>2. CASE job' = job
    BY <1>2, <2>1, <2>2 DEF ClaimsOf, Claimed, StoppedFirst, Finishing, Finished
  <2>3. CASE job[op] = "queued" /\ job' = [job EXCEPT ![op] = "refused"]
    <3>1. job'[op] = "refused" /\ (op \notin Reads => runs[op] = 0)
      BY <1>1, <2>3, Unbegun
    <3> QED BY <1>2, <2>1, <3>1 DEF ClaimsOf, Claimed, StoppedFirst, Finishing, Finished
  <2> QED BY <1>2, <2>2, <2>3
<1> QED BY <1>3, <1>4 DEF AgentClaims

LEMMA ClaimsRead ==
    ASSUME Typed, Core, AgentClaims, CancelsAsked, Read, Next
    PROVE  AgentClaims'
<1> DEFINE op == Head(down).op
<1>1. /\ op \in Ops /\ Head(down) \in Frames(down)
      /\ UNCHANGED <<runs, call, result, cancelReq>>
  BY ReadFacts, ReadIsFlying DEF rowVars
<1>2. job \in [Ops -> JobStates]
  BY TypedParts DEF TaskTyped
<1>3. ASSUME CancelCall(op), job[op] \in {"started", "executing"} => cancelReq[op]
      PROVE  AgentClaims'
  <2> HIDE DEF op
  <2> QED BY <1>1, <1>3, ClaimsCancelCall
<1>5. ASSUME cancelled' = cancelled,
             \A o \in Ops : job'[o] = job[o] \/ job'[o] = "new"
      PROVE  AgentClaims'
  BY <1>1, <1>5, ClaimsPersist DEF AgentClaims
<1>6. CASE ReadCancel
  <2>1. Head(down).type = "cancel" /\ CancelCall(op)
    BY <1>6 DEF ReadCancel, Reading
  <2> QED BY <1>1, <1>3, <2>1 DEF CancelsAsked
<1>7. CASE ReadCancelPending
  <2>1. CASE UNCHANGED <<job, journalVars>>
    BY <1>5, <2>1 DEF journalVars
  <2>2. CASE CancelCall(op) /\ call[op] \in {"accepted", "missing", "retryable"}
    <3>1. job[op] \notin {"started", "executing"}
      BY <1>1, <2>2 DEF Typed, JobMatchesCall
    <3> QED BY <1>3, <2>2, <3>1
  <2> QED BY <1>7, <2>1, <2>2 DEF ReadCancelPending
<1>8. CASE ReadCall \/ ReadProbe \/ ReadAck
  <2>1. cancelled' = cancelled
    BY <1>8 DEF ReadCall, ReadProbe, ReadAck, Report, journalVars
  <2>2. \A o \in Ops : job'[o] = job[o] \/ job'[o] = "new"
    BY <1>2, <1>8 DEF ReadCall, ReadProbe, ReadAck, Report
  <2> QED BY <1>5, <2>1, <2>2
<1> QED BY <1>6, <1>7, <1>8 DEF Read

LEMMA AgentUntouched ==
    ASSUME Typed, Next
    PROVE  \/ UNCHANGED <<job, journalVars, runs>>
           \/ \E op \in Ops : Handle(op) \/ Prune(op)
           \/ Read \/ LoseJournal
           \/ (Crash \/ Restart)
<1>1. ASSUME NEW op \in Ops, Caller(op) \/ Prepare(op) \/ SendOutbox(op)
      PROVE  UNCHANGED <<job, journalVars, runs>>
  BY <1>1 DEF Caller, Admit, Cancel, Revoke, Restore, Expire, Prepare, PrepareRefusal,
         PrepareFenced, PreparePackets, SendOutbox, agentVars, taskVars
<1>2. CASE Send \/ SendReceipt \/ Connect \/ HubDetach \/ HubRestart \/ AgentDrop \/ Stop
  BY <1>2 DEF Send, SendPacket, DropPrepared, SendReceipt, Connect, HubDetach, HubRestart,
         AgentDrop, Stop, agentVars, taskVars
<1>3. CASE Receive
  BY <1>3, ReceiveFrame DEF Receiving, agentVars, taskVars
<1> QED BY <1>1, <1>2, <1>3 DEF Next

LEMMA ClaimsStep ==
    ASSUME Typed, Core, AgentClaims, CancelsAsked, Next
    PROVE  AgentClaims'
<1>1. \A op \in Ops : ClaimsOf(op)
  BY DEF AgentClaims
<1>2. CASE UNCHANGED <<job, journalVars, runs>>
  BY <1>1, <1>2, ClaimsPersist DEF AgentClaims, journalVars
<1>3. ASSUME NEW op \in Ops, Handle(op)
      PROVE  AgentClaims'
  <2>1. HandlerStep(op) /\ cancelled' = cancelled
    BY <1>3, HandleSteps, HandleFacts
  <2>2. ASSUME NEW o \in Ops, o # op
        PROVE  ClaimsOf(o)'
    <3>1. /\ job'[o] = job[o] /\ call'[o] = call[o]
          /\ result'[o] = result[o] /\ runs'[o] = runs[o]
      BY <2>1, <2>2, TypedParts DEF HandlerStep, TaskTyped, JournalTyped, RestTyped
    <3> QED BY <1>1, <2>1, <3>1, ClaimsPersist
  <2> QED BY <1>3, <2>2, ClaimsHandle DEF AgentClaims
<1>4. ASSUME NEW op \in Ops, Prune(op)
      PROVE  AgentClaims'
  <2>1. /\ UNCHANGED <<job, call, runs>> /\ cancelled' \subseteq cancelled
        /\ \A o \in Ops : result'[o] = result[o] \/ result'[o] = "forgotten"
    BY <1>4, TypedParts DEF Prune, taskVars, JournalTyped
  <2> QED BY <1>1, <2>1, ClaimsPersist DEF AgentClaims
<1>5. CASE Crash \/ Restart
  <2>1. Recover /\ UNCHANGED <<cancelReq, runs>>
    BY <1>5 DEF Crash, Restart, rowVars
  <2>2. ASSUME NEW op \in Ops
        PROVE  ClaimsOf(op)'
    <3>1. job'[op] = "none" /\ call'[op] = Recovered(op)
      BY <2>1, RecoverFacts
    <3>2. call[op] \in CallStates
      BY TypedParts DEF JournalTyped
    <3>3. CASE call[op] = "running" /\ Recovered(op) = "interrupted"
      <4>1. result'[op] \in {"restart_limit", "interrupted"}
        BY <2>1, <3>3 DEF Recover
      <4> QED BY <3>1, <4>1 DEF ClaimsOf, Claimed, StoppedFirst, Finishing, Outcomes
    <3>4. CASE ~(call[op] = "running" /\ Recovered(op) = "interrupted")
      <4>1. result'[op] = result[op]
        BY <2>1, <3>4 DEF Recover
      <4>2. Recovered(op) \in {"done", "interrupted"} => Finished(op)
        BY <3>2, <3>4 DEF Recovered, Finished, CallStates
      <4> QED BY <1>1, <2>1, <3>1, <4>1, <4>2
              DEF ClaimsOf, Claimed, StoppedFirst, Finishing, Outcomes, Finished
    <3> QED BY <3>3, <3>4
  <2> QED BY <2>2 DEF AgentClaims
<1>6. CASE LoseJournal
  BY <1>6 DEF LoseJournal, AgentClaims, ClaimsOf, Finishing, Outcomes, Finished, taskVars
<1>7. CASE Read
  BY <1>7, ClaimsRead
<1> QED BY <1>2, <1>3, <1>4, <1>5, <1>6, <1>7, AgentUntouched

(* Only a caller's request makes the Hub send a cancellation.              *)
LEMMA CancelsStep ==
    ASSUME Typed, CancelsAsked, Next
    PROVE  CancelsAsked'
<1>1. \A op \in Ops : cancelReq[op] => cancelReq'[op]
  BY RowsGrow DEF RowGrows
<1>2. Typed'
  BY TypedStep
<1>3. ASSUME NEW f \in Frames(down'), f.type = "cancel"
      PROVE  cancelReq'[f.op]
  <2>1. f.op \in Ops
    BY <1>2, FramesTypedNext DEF DownFrames
  <2>2. f \in Frames(down) \/ NewPacket(f)
    BY <1>3, DownGrows DEF NewAcknowledgement
  <2> QED BY <1>1, <1>3, <2>1, <2>2 DEF CancelsAsked, NewPacket
<1>4. ASSUME NEW p \in Frames(prepared'), NEW k \in DOMAIN p.packets, p.packets[k] = "cancel"
      PROVE  cancelReq'[p.op]
  <2>1. p.op \in Ops
    BY <1>2, FramesTypedNext
  <2> QED BY <1>1, <1>4, <2>1, PreparedGrows DEF CancelsAsked, PartOf, NewPreparation
<1> QED BY <1>3, <1>4 DEF CancelsAsked

-----------------------------------------------------------------------------
(* A result that was forgotten is never reported.                          *)

(* The three that are proved together.                                     *)
Acks == AckLast /\ AckedQuiet /\ ForgottenAcked

LEMMA AckLastStep ==
    ASSUME Typed, AckLast, OpenIsBlank, AcksFollowRows, Next
    PROVE  AckLast'
<1>1. down \in Seq(DownFrames)
  BY TypedParts DEF LinkTyped
<1>2. CASE down' = down
  BY <1>2 DEF AckLast
<1>3. CASE down' = <<>>
  BY <1>3 DEF AckLast
<1>4. CASE down' \in SomePrefix(down)
  BY <1>1, <1>4, PrefixType DEF AckLast
<1>5. CASE Read
  <2>1. /\ DOMAIN down' \subseteq Nat /\ DOMAIN down \subseteq Nat
        /\ \A i \in DOMAIN down' : i + 1 \in DOMAIN down /\ down'[i] = down[i + 1]
    <3>1. down # <<>> /\ down' = Tail(down) /\ Tail(down) \in Seq(DownFrames)
      BY <1>1, <1>5, ReadFacts, TailType
    <3>2. \A i \in DOMAIN Tail(down) : i + 1 \in DOMAIN down /\ Tail(down)[i] = down[i + 1]
      BY <1>1, <3>1, TailType
    <3>3. DOMAIN down \subseteq Nat /\ DOMAIN Tail(down) \subseteq Nat
      BY <1>1, <3>1, LenProperties
    <3> QED BY <3>1, <3>2, <3>3
  <2>2. \A i, j \in DOMAIN down' : i < j => i + 1 < j + 1
    BY <2>1
  <2> QED BY <2>1, <2>2 DEF AckLast
<1>6. ASSUME NEW frame \in DownFrames, down' = Append(down, frame),
             frame.type \in Asking => ~AckFlying(frame.op)
      PROVE  AckLast'
  <2>1. /\ Len(down) \in Nat /\ DOMAIN down = 1 .. Len(down)
        /\ DOMAIN down' = 1 .. Len(down) + 1
        /\ down'[Len(down) + 1] = frame
        /\ \A i \in 1 .. Len(down) : down'[i] = down[i]
    BY <1>1, <1>6, AppendIndices
  <2>2. ASSUME NEW i \in DOMAIN down', NEW j \in DOMAIN down', i < j,
               down'[i].type = "ack", down'[j].op = down'[i].op, down'[j].type \in Asking
        PROVE  FALSE
    <3>1. i \in DOMAIN down /\ down'[i] = down[i]
      BY <2>1, <2>2
    <3>2. CASE j \in DOMAIN down
      BY <2>1, <2>2, <3>1, <3>2 DEF AckLast
    <3>3. CASE j = Len(down) + 1
      <4>1. down[i] \in DownFrames
        BY <1>1, <3>1, ElementOfSeq, <2>1
      <4>2. down[i] = [type |-> "ack", op |-> frame.op]
        BY <2>1, <2>2, <3>1, <3>3, <4>1 DEF DownFrames
      <4> QED BY <1>6, <2>1, <2>2, <3>1, <3>3, <4>2 DEF AckFlying
    <3> QED BY <2>1, <3>2, <3>3
  <2> QED BY <2>2 DEF AckLast
<1>7. CASE SendPacket /\ down' # down
  <2> DEFINE head == Head(prepared)
             frame == [type |-> Head(head.packets), op |-> head.op]
  <2>1. head \in Preparations
    BY <1>7, TypedParts, TailType DEF SendPacket, LinkTyped
  <2>2. head.op \in Ops /\ Head(head.packets) \in Packets
    <3>1. head.packets \in Seq(Packets) /\ head.packets # <<>> /\ head.op \in Ops
      BY <2>1 DEF Preparations
    <3> HIDE DEF head
    <3> QED BY <3>1, TailType
  <2>3. frame \in DownFrames /\ frame.op = head.op
    BY <2>2 DEF DownFrames
  <2>4. down' = Append(down, frame) /\ IsActive(head.op)
    BY <1>7 DEF SendPacket, HubSends, PacketCurrent
  <2>5. ~AckFlying(head.op)
    BY <2>2, <2>4 DEF OpenIsBlank, AcksFollowRows, IsActive
  <2> HIDE DEF frame, head
  <2> QED BY <1>6, <2>3, <2>4, <2>5
<1>8. CASE ReceiveResult /\ down' # down
  <2> DEFINE frame == [type |-> "ack", op |-> Head(up).op]
  <2>1. Head(up).op \in Ops
    BY <1>8, ReceivedFrame DEF ReceiveResult
  <2>2. down' = Append(down, frame)
    BY <1>8 DEF ReceiveResult, Acknowledge, HubSends
  <2>3. frame \in DownFrames /\ frame.type \notin Asking
    BY <2>1 DEF DownFrames, Asking
  <2> HIDE DEF frame
  <2> QED BY <1>6, <2>2, <2>3
<1>9. ASSUME NEW op \in Ops,
             Caller(op) \/ Prepare(op) \/ Handle(op) \/ SendOutbox(op) \/ Prune(op)
      PROVE  down' = down
  BY <1>9, HandleFacts
     DEF Caller, Admit, Cancel, Revoke, Restore, Expire, Prepare, PrepareRefusal,
         PrepareFenced, PreparePackets, Prune, SendOutbox, netVars
<1>10. CASE DropPrepared \/ Restart \/ LoseJournal \/ SendReceipt \/ ReceiveProgress \/ ReceiveStatus
  BY <1>2, <1>10 DEF DropPrepared, Restart, LoseJournal, SendReceipt, ReceiveProgress,
         ReceiveStatus, netVars
<1>11. CASE HubDetach \/ HubRestart
  BY <1>4, <1>11 DEF HubDetach, HubRestart
<1>12. CASE Connect \/ AgentDrop \/ Stop \/ Crash
  BY <1>3, <1>12 DEF Connect, AgentDrop, Stop, Crash, LoseSocket
<1> QED BY <1>2, <1>5, <1>7, <1>8, <1>9, <1>10, <1>11, <1>12 DEF Next, Send, Receive

(* A handler clears the mark of its own record only.                       *)
LEMMA HandleAcked ==
    ASSUME Typed, NEW op \in Ops, Handle(op)
    PROVE  /\ \A o \in Ops \ {op} : acked'[o] = acked[o]
           /\ acked' = acked \/ ~acked'[op]
           /\ result'[op] = result[op] => acked' = acked \/ ~Finished(op)
  BY TypedParts DEF Handle, StartAccepted, StartFinished, Refuse, Abandon, MarkRunning, Withhold,
         Execute, FinishExecution, Persist, journalVars, JournalTyped, AgentSound, JobMatchesCall,
         Finished

LEMMA AckedQuietStep ==
    ASSUME Typed, AckLast, AckedQuiet, OpenIsBlank, AcksFollowRows, Next
    PROVE  AckedQuiet'
<1>1. \A op \in Ops : acked[op] => ~IsActive(op)
  BY DEF OpenIsBlank, AcksFollowRows, IsActive
<1>2. ASSUME NEW op \in Ops, acked[op], Finished(op), NEW f \in Frames(down'), f.op = op
      PROVE  f.type \notin Asking
  BY <1>1, <1>2, DownGrows DEF AckedQuiet, NewPacket, NewAcknowledgement, Asking
<1>3. ASSUME \A op \in Ops : acked'[op] /\ Finished(op)' =>
                acked[op] /\ Finished(op) /\ (job'[op] = job[op] \/ job'[op] # "new")
      PROVE  AckedQuiet'
  BY <1>2, <1>3 DEF AckedQuiet
<1>4. CASE UNCHANGED <<job, journalVars, runs>>
  BY <1>3, <1>4 DEF Finished, journalVars
<1>5. ASSUME NEW op \in Ops, Handle(op)
      PROVE  AckedQuiet'
  <2>1. HandlerStep(op)
    BY <1>5, HandleSteps
  <2>2. ASSUME NEW o \in Ops, o # op, acked'[o], Finished(o)'
        PROVE  acked[o] /\ Finished(o) /\ job'[o] = job[o]
    BY <1>5, <2>1, <2>2, HandleAcked, TypedParts
       DEF HandlerStep, Finished, TaskTyped, JournalTyped
  <2>3. ASSUME acked'[op], Finished(op)'
        PROVE  acked[op] /\ Finished(op) /\ job'[op] # "new"
    <3>1. acked' = acked
      BY <1>5, <2>3, HandleAcked
    <3>2. job'[op] # "new"
      BY <2>1, TypedParts DEF HandlerStep, TaskTyped, Outcomes
    <3>3. CASE Persist(op)
      BY <2>3, <3>3, TypedParts DEF Persist, JournalTyped
    <3>4. CASE ~Persist(op)
      BY <1>5, <2>3, <3>1, <3>2, <3>4, TypedParts
         DEF Handle, StartAccepted, StartFinished, Refuse, Abandon, MarkRunning, Withhold,
             Execute, FinishExecution, journalVars, Finished, JournalTyped
    <3> QED BY <3>3, <3>4
  <2> QED BY <1>3, <2>2, <2>3
<1>6. ASSUME NEW op \in Ops, Prune(op)
      PROVE  AckedQuiet'
  BY <1>3, <1>6 DEF Prune, Finished, taskVars
<1>7. CASE Crash \/ Restart
  <2>1. Recover
    BY <1>7 DEF Crash, Restart
  <2>2. ASSUME NEW op \in Ops, acked'[op], Finished(op)'
        PROVE  acked[op] /\ Finished(op) /\ job'[op] # "new"
    <3>1. job'[op] = "none" /\ call'[op] = Recovered(op) /\ call[op] \in CallStates
      BY <2>1, RecoverFacts, TypedParts DEF JournalTyped
    <3>2. acked[op] /\ ~(call[op] = "running" /\ Recovered(op) = "interrupted")
      BY <2>1, <2>2 DEF Recover
    <3> QED BY <2>2, <3>1, <3>2 DEF Recovered, Finished, CallStates
  <2> QED BY <1>3, <2>2
<1>8. CASE LoseJournal
  BY <1>8 DEF LoseJournal, AckedQuiet, Finished
<1>9. CASE Read
  <2> DEFINE head == Head(down)
  <2>1. /\ head \in DownFrames /\ head.op \in Ops /\ head \in Frames(down)
        /\ down # <<>> /\ down' = Tail(down) /\ UNCHANGED call
    BY <1>9, ReadFacts, ReadIsFlying
  <2>2. ASSUME NEW op \in Ops, job'[op] = "new", job[op] # "new"
        PROVE  op = head.op /\ head.type = "call"
    BY <1>9, <2>1, <2>2, ReadJob, TypedParts DEF TaskTyped
  <2>3. CASE acked' = acked
    <3>1. ASSUME NEW op \in Ops, acked[op], Finished(op)
          PROVE  job'[op] # "new"
      BY <2>1, <2>2, <3>1 DEF AckedQuiet, Asking
    <3> QED BY <1>3, <2>1, <2>3, <3>1 DEF Finished
  <2>4. CASE ReadAck
    <3>1. /\ head.type = "ack" /\ HandlerBegan(head.op) /\ job' = job
          /\ \A op \in Ops \ {head.op} : acked'[op] = acked[op]
      BY <2>4, TypedParts DEF ReadAck, Reading, JournalTyped
    <3>2. ASSUME NEW f \in Frames(down'), f.op = head.op
          PROVE  f.type \notin Asking
      <4>1. PICK i \in DOMAIN Tail(down) : f = Tail(down)[i]
        BY <2>1, <3>2 DEF Frames
      <4>2. i + 1 \in DOMAIN down /\ f = down[i + 1] /\ 1 \in DOMAIN down /\ down[1] = head /\ 1 < i + 1
        <5>1. down \in Seq(DownFrames)
          BY TypedParts DEF LinkTyped
        <5>2. i + 1 \in DOMAIN down /\ f = down[i + 1]
          BY <2>1, <4>1, <5>1, TailType
        <5>3. i \in Nat \ {0}
          BY <2>1, <5>1, TailType, LenProperties
        <5> QED BY <2>1, <5>1, <5>2, <5>3, LenProperties, EmptySeq
      <4> QED BY <3>1, <3>2, <4>2 DEF AckLast
    <3>3. ASSUME NEW op \in Ops, op # head.op, acked'[op], Finished(op)'
          PROVE  job'[op] # "new" /\ \A f \in Frames(down') : f.op = op => f.type \notin Asking
      BY <1>2, <2>1, <3>1, <3>3 DEF AckedQuiet, Finished
    <3> QED BY <3>1, <3>2, <3>3 DEF AckedQuiet, HandlerBegan
  <2> QED BY <1>9, <2>3, <2>4
          DEF Read, ReadCall, ReadProbe, ReadCancel, ReadCancelPending, Report, CancelCall, journalVars
<1> QED BY <1>4, <1>5, <1>6, <1>7, <1>8, <1>9, AgentUntouched

LEMMA ForgottenStep ==
    ASSUME Typed, ForgottenAcked, Next
    PROVE  ForgottenAcked'
<1>1. CASE UNCHANGED <<job, journalVars, runs>>
  BY <1>1 DEF ForgottenAcked, Finished, journalVars
<1>2. ASSUME NEW op \in Ops, Handle(op)
      PROVE  ForgottenAcked'
  <2>1. HandlerStep(op)
    BY <1>2, HandleSteps
  <2>2. ASSUME NEW o \in Ops, o # op, result'[o] = "forgotten"
        PROVE  acked'[o] /\ Finished(o)'
    BY <1>2, <2>1, <2>2, HandleAcked, TypedParts
       DEF HandlerStep, ForgottenAcked, Finished, JournalTyped
  <2>3. ASSUME result'[op] = "forgotten"
        PROVE  acked'[op] /\ Finished(op)'
    <3>1. result'[op] = result[op]
      BY <2>1, <2>3, TypedParts DEF HandlerStep, Finishing, Outcomes, JournalTyped
    <3>2. acked[op] /\ Finished(op)
      BY <2>3, <3>1 DEF ForgottenAcked
    <3>3. acked'[op]
      BY <1>2, <3>1, <3>2, HandleAcked
    <3>4. call' = call
      BY <2>1, <3>2, TypedParts DEF HandlerStep, Finished, AgentSound, JobMatchesCall
    <3> QED BY <3>2, <3>3, <3>4 DEF Finished
  <2> QED BY <2>2, <2>3 DEF ForgottenAcked
<1>3. ASSUME NEW op \in Ops, Prune(op)
      PROVE  ForgottenAcked'
  BY <1>3, TypedParts DEF Prune, ForgottenAcked, Finished, JournalTyped
<1>4. CASE Crash \/ Restart
  <2>1. Recover
    BY <1>4 DEF Crash, Restart
  <2>2. ASSUME NEW op \in Ops, result'[op] = "forgotten"
        PROVE  acked'[op] /\ Finished(op)'
    <3>1. ~(call[op] = "running" /\ Recovered(op) = "interrupted") /\ result[op] = "forgotten"
      BY <2>1, <2>2 DEF Recover
    <3>2. acked[op] /\ Finished(op)
      BY <3>1 DEF ForgottenAcked
    <3> QED BY <2>1, <3>1, <3>2 DEF Recover, Recovered, Finished
  <2> QED BY <2>2 DEF ForgottenAcked
<1>5. CASE LoseJournal
  BY <1>5 DEF LoseJournal, ForgottenAcked
<1>6. CASE Read
  <2>1. UNCHANGED <<call, result>>
    BY <1>6, ReadFacts
  <2>2. \A op \in Ops : acked[op] => acked'[op]
    BY <1>6, TypedParts DEF Read, ReadCall, ReadProbe, ReadCancel, ReadCancelPending, ReadAck,
           Report, CancelCall, journalVars, JournalTyped
  <2> QED BY <2>1, <2>2 DEF ForgottenAcked, Finished
<1> QED BY <1>1, <1>2, <1>3, <1>4, <1>5, <1>6, AgentUntouched

(* What is reported now was not forgotten, and is what the journal holds.  *)
LEMMA HeldResult ==
    ASSUME Typed, AgentClaims, Acks, NEW op \in Ops, Finished(op),
           \/ job[op] = "new"
           \/ ~acked[op]
           \/ \E f \in Frames(down) : f.op = op /\ f.type \in Asking
    PROVE  Claimed(op, result[op]) /\ StoppedFirst(op, result[op]) /\ Says(op, result[op])
<1>1. ~acked[op]
  BY DEF Acks, AckedQuiet
<1>2. result[op] # "forgotten"
  BY <1>1 DEF Acks, ForgottenAcked
<1> QED BY <1>2 DEF AgentClaims, ClaimsOf, Says

LEMMA SaysPersists ==
    ASSUME Typed, Next, ~LoseJournal, NEW op \in Ops, NEW v, Says(op, v)
    PROVE  Says(op, v)'
<1>1. CASE UNCHANGED <<job, journalVars, runs>>
  BY <1>1 DEF Says, Finished, journalVars
<1>2. ASSUME NEW o \in Ops, Handle(o)
      PROVE  Says(op, v)'
  <2>1. HandlerStep(o)
    BY <1>2, HandleSteps
  <2> QED BY <2>1, TypedParts DEF HandlerStep, Says, Finished, AgentSound, JobMatchesCall,
             JournalTyped
<1>3. ASSUME NEW o \in Ops, Prune(o)
      PROVE  Says(op, v)'
  BY <1>3, TypedParts DEF Prune, Says, Finished, JournalTyped
<1>4. CASE Crash \/ Restart
  <2>1. Recover
    BY <1>4 DEF Crash, Restart
  <2>2. call'[op] = call[op] /\ result'[op] = result[op]
    BY <2>1 DEF Recover, Recovered, Says, Finished
  <2> QED BY <2>2 DEF Says, Finished
<1>5. CASE Read
  BY <1>5, ReadFacts DEF Says, Finished
<1> QED BY <1>1, <1>2, <1>3, <1>4, <1>5, AgentUntouched

LEMMA StoppedPersists ==
    ASSUME Typed, Next, NEW op \in Ops, NEW v, Says(op, v), StoppedFirst(op, v)
    PROVE  StoppedFirst(op, v)'
<1>1. ~Execute(op)
  BY DEF Execute, Says, Finished, Typed, JobMatchesCall
<1> QED BY <1>1, RunsGrow DEF StoppedFirst

LEMMA ClaimedPersists ==
    ASSUME Typed, Next, NEW op \in Ops, NEW v, Claimed(op, v)
    PROVE  Claimed(op, v)'
<1>1. runs[op] \in Nat
  BY TypedParts DEF RestTyped
<1> QED BY <1>1, RowsGrow DEF Claimed, RowGrows

LEMMA NewReceiptSound ==
    ASSUME Typed, Core, AgentClaims, Acks, Next, NEW f, NewReceipt(f), f.type = "result"
    PROVE  f.op \in Ops /\ Claimed(f.op, f.result)
              /\ StoppedFirst(f.op, f.result)' /\ Says(f.op, f.result)'
<1>1. PICK op \in Ops :
        /\ f.op = op
        /\ \/ Persist(op) /\ f.result = job[op]
           \/ StartFinished(op) /\ f.result = result[op]
           \/ SendOutbox(op) /\ f.result = result[op]
  BY DEF NewReceipt
<1>2. CASE Persist(op) /\ f.result = job[op]
  <2>1. Finishing(op) /\ call'[op] = "done" /\ result'[op] = job[op] /\ runs' = runs
    BY <1>2, TypedParts DEF Persist, JournalTyped
  <2>2. Claimed(op, job[op]) /\ StoppedFirst(op, job[op])
    BY <2>1 DEF AgentClaims, ClaimsOf
  <2> QED BY <1>1, <1>2, <2>1, <2>2 DEF Says, Finished, StoppedFirst
<1>3. CASE StartFinished(op) /\ f.result = result[op]
  <2>1. job[op] = "new" /\ Finished(op) /\ UNCHANGED <<call, result, runs>>
    BY <1>3 DEF StartFinished, journalVars
  <2> QED BY <1>1, <1>3, <2>1, HeldResult DEF Says, Finished, StoppedFirst
<1>4. CASE SendOutbox(op) /\ f.result = result[op]
  <2>1. ~acked[op] /\ Finished(op) /\ UNCHANGED <<call, result, runs>>
    BY <1>4 DEF SendOutbox, agentVars, journalVars
  <2> QED BY <1>1, <1>4, <2>1, HeldResult DEF Says, Finished, StoppedFirst
<1> QED BY <1>1, <1>2, <1>3, <1>4

LEMMA NewReportSound ==
    ASSUME Typed, AgentClaims, Acks, Read, Head(down).type \in Asking, NEW f,
           f = Receipt(Head(down).op), f.type = "result"
    PROVE  f.op \in Ops /\ Claimed(f.op, f.result)
              /\ StoppedFirst(f.op, f.result)' /\ Says(f.op, f.result)'
<1> DEFINE op == Head(down).op
<1>1. op \in Ops /\ Head(down) \in Frames(down) /\ UNCHANGED <<call, result, runs>>
  BY ReadFacts, ReadIsFlying
<1>2. Finished(op) /\ f.op = op /\ f.result = result[op]
  BY DEF Receipt
<1>3. Claimed(op, result[op]) /\ StoppedFirst(op, result[op]) /\ Says(op, result[op])
  BY <1>1, <1>2, HeldResult
<1> QED BY <1>1, <1>2, <1>3 DEF Says, Finished, StoppedFirst

LEMMA ReceiptsStep ==
    ASSUME Typed, Core, AgentClaims, Acks, ReceiptsAreClaims, Next
    PROVE  ReceiptsAreClaims'
<1>1. Typed'
  BY TypedStep
<1>2. ASSUME NEW f \in Frames(reader) \cup Frames(up), f.type = "result"
      PROVE  Claimed(f.op, f.result)'
  <2>1. f.op \in Ops /\ Claimed(f.op, f.result)
    BY <1>2, FramesTyped DEF UpFrames, ReceiptsAreClaims
  <2> QED BY <2>1, ClaimedPersists
<1>3. ASSUME NEW f \in Frames(reader'), f.type = "result"
      PROVE  Claimed(f.op, f.result)'
  BY <1>2, <1>3, ReaderGrows, NewReportSound, ClaimedPersists
<1>4. ASSUME NEW f \in Frames(up'), f.type = "result"
      PROVE  Claimed(f.op, f.result)'
  BY <1>2, <1>4, UpGrows, NewReceiptSound, ClaimedPersists
<1> QED BY <1>3, <1>4 DEF ReceiptsAreClaims

(* The socket and the journal.                                             *)
LEMMA ConnectionSteps ==
    ASSUME Typed, Next
    PROVE  /\ (hubJournal' = hubJournal \/ up' = <<>>)
           /\ (journalId' = journalId \/ LoseJournal)
           /\ (agentCon' = agentCon \/ agentCon' # 0 \/ reader' = <<>>)
<1>1. CASE UNCHANGED <<hubJournal, journalId, agentCon>>
  BY <1>1
<1>2. ASSUME NEW op \in Ops,
             Caller(op) \/ Prepare(op) \/ Handle(op) \/ SendOutbox(op) \/ Prune(op)
      PROVE  UNCHANGED <<hubJournal, journalId, agentCon>>
  BY <1>2, HandleFacts
     DEF Caller, Admit, Cancel, Revoke, Restore, Expire, Prepare, PrepareRefusal, PrepareFenced,
         PreparePackets, Prune, SendOutbox, hubVars, agentVars, taskVars, journalVars
<1>3. CASE Send \/ SendReceipt \/ Restart
  BY <1>3 DEF Send, SendPacket, DropPrepared, SendReceipt, Restart, hubVars, agentVars, taskVars,
         journalVars
<1>4. CASE Receive \/ Read
  BY <1>4, ReceiveFrame, ReadFacts DEF Receiving, hubVars, agentVars, taskVars, journalVars
<1>5. CASE Connect \/ HubDetach \/ HubRestart
  <2>1. up' = <<>> /\ journalId' = journalId
    BY <1>5 DEF Connect, HubDetach, HubRestart, agentVars, journalVars
  <2>2. agentCon' = agentCon \/ agentCon' # 0
    BY <1>5, TypedParts DEF Connect, HubDetach, HubRestart, agentVars, taskVars, LinkTyped
  <2> QED BY <2>1, <2>2
<1>6. CASE AgentDrop \/ Stop \/ Crash
  BY <1>6 DEF AgentDrop, Stop, Crash, LoseSocket, hubVars, journalVars
<1>7. CASE LoseJournal
  BY <1>7 DEF LoseJournal, hubVars, taskVars
<1> QED BY <1>2, <1>3, <1>4, <1>5, <1>6, <1>7 DEF Next

LEMMA VoiceStep ==
    ASSUME Typed, Core, AgentClaims, Acks, JournalVoice, Next
    PROVE  JournalVoice'
<1>1. /\ journalId \in Nat \ {0} /\ hubJournal <= journalId
      /\ hubJournal \in Nat
  BY TypedParts DEF JournalTyped, LinkTyped, Core, JournalOrder
<1>2. agentCon' = 0 => reader' = <<>>
  <2>1. CASE agentCon' # agentCon
    BY <2>1, ConnectionSteps
  <2>2. CASE agentCon' = 0 /\ agentCon = 0
    <3>1. reader = <<>>
      BY <2>2 DEF JournalVoice
    <3>2. ~Read
      BY <2>2, ReadFacts
    <3>3. Frames(reader') = {}
      BY <3>1, <3>2, ReaderGrows, FramesOfNothing
    <3>4. reader' \in Seq(UpFrames)
      BY TypedStep, TypedParts DEF TaskTyped
    <3>5. DOMAIN reader' = {}
      BY <3>3 DEF Frames
    <3> QED BY <3>4, <3>5, LenProperties, EmptySeq
  <2> QED BY <2>1, <2>2
<1>3. ASSUME NEW f \in Frames(reader), f.type = "result", Frames(reader') # {}
      PROVE  Says(f.op, f.result)' /\ StoppedFirst(f.op, f.result)'
  <2>1. f.op \in Ops /\ Says(f.op, f.result) /\ StoppedFirst(f.op, f.result)
    BY <1>3, FramesTyped DEF UpFrames, JournalVoice
  <2>2. ~LoseJournal
    BY <1>3, FramesOfNothing DEF LoseJournal, JournalVoice
  <2> QED BY <2>1, <2>2, SaysPersists, StoppedPersists
<1>4. ASSUME NEW f \in Frames(reader'), f.type = "result"
      PROVE  Says(f.op, f.result)' /\ StoppedFirst(f.op, f.result)'
  BY <1>3, <1>4, ReaderGrows, NewReportSound
<1>5. ASSUME NEW f \in Frames(up'), f.type = "result"
      PROVE  /\ hubJournal' = journalId' => Says(f.op, f.result)'
             /\ sentJournal'[f.op] \in {0, hubJournal'} => StoppedFirst(f.op, f.result)'
  <2>1. hubJournal' = hubJournal
    BY <1>5, ConnectionSteps, FramesOfNothing
  <2>2. CASE f \in Frames(up)
    <3>1. f.op \in Ops
      BY <2>2, FramesTyped DEF UpFrames
    <3>2. ASSUME hubJournal' = journalId'
          PROVE  Says(f.op, f.result)'
      <4>1. ~LoseJournal
        BY <1>1, <2>1, <3>2 DEF LoseJournal
      <4>2. Says(f.op, f.result)
        BY <1>5, <2>1, <2>2, <3>2, <4>1, ConnectionSteps DEF JournalVoice
      <4> QED BY <3>1, <4>1, <4>2, SaysPersists
    <3>3. ASSUME sentJournal'[f.op] \in {0, hubJournal'}
          PROVE  StoppedFirst(f.op, f.result)'
      <4>1. sentJournal[f.op] \in {0, hubJournal}
        BY <2>1, <3>1, <3>3, RowsGrow DEF RowGrows
      <4>2. StoppedFirst(f.op, f.result)
        BY <1>5, <2>2, <4>1 DEF JournalVoice
      <4>3. ~Execute(f.op)
        <5>1. SUFFICES ASSUME Execute(f.op) PROVE FALSE
          OBVIOUS
        <5>2. job[f.op] = "started" /\ ~Finished(f.op)
          BY <3>1, <5>1 DEF Execute, Typed, JobMatchesCall, Finished
        <5>3. sentJournal[f.op] = journalId
          BY <3>1, <5>2 DEF Core, CallsAreCurrent
        <5> QED BY <1>1, <1>5, <2>2, <4>1, <5>2, <5>3 DEF JournalVoice, Says
      <4> QED BY <3>1, <4>2, <4>3, RunsGrow DEF StoppedFirst
    <3> QED BY <3>2, <3>3
  <2>3. CASE f \in Frames(reader) /\ f \notin Frames(up)
    <3>1. f.op \in Ops /\ Says(f.op, f.result) /\ StoppedFirst(f.op, f.result)
      BY <1>5, <2>3, FramesTyped DEF UpFrames, JournalVoice
    <3>2. ~LoseJournal
      BY <1>5, <2>3, FramesOfNothing DEF LoseJournal, JournalVoice
    <3> QED BY <3>1, <3>2, SaysPersists, StoppedPersists
  <2>4. CASE NewReceipt(f)
    BY <1>5, <2>4, NewReceiptSound
  <2> QED BY <1>5, <2>2, <2>3, <2>4, UpGrows
<1> QED BY <1>2, <1>4, <1>5 DEF JournalVoice

-----------------------------------------------------------------------------
(* What a step concludes.                                                  *)

(* A verdict is written, on an admitted row that was not settled.          *)
Settles(op, v) ==
    /\ state[op] \notin {"none"} \cup Settled
    /\ state' = [state EXCEPT ![op] = StateOf(v)]
    /\ verdict' = [verdict EXCEPT ![op] = v]

(* No row changes its state.                                               *)
RowsKept ==
    /\ UNCHANGED verdict
    /\ \A op \in Ops : PhaseOf(state'[op]) = PhaseOf(state[op])

LEMMA CompleteCases ==
    ASSUME NEW op \in Ops, NEW v, Complete(op, v), state[op] # "none"
    PROVE  Settles(op, v) \/ RowsKept
  BY DEF Complete, Settles, RowsKept

LEMMA Phases ==
    /\ PhaseOf("none") = "none" /\ PhaseOf("needs_review") = "review"
    /\ \A s \in Active : PhaseOf(s) = "open"
    /\ \A s \in Settled : PhaseOf(s) = "settled"
<1>1. PhaseOf("none") = "none" /\ PhaseOf("needs_review") = "review"
  BY DEF PhaseOf, Active, Settled
<1>2. \A s \in Active : PhaseOf(s) = "open"
  BY DEF PhaseOf, Active, Settled
<1>3. \A s \in Settled : PhaseOf(s) = "settled"
  BY DEF PhaseOf, Active, Settled
<1> QED BY <1>1, <1>2, <1>3

LEMMA ActiveKept ==
    ASSUME RowTyped, NEW op \in Ops, NEW s \in Active, IsActive(op),
           state' = [state EXCEPT ![op] = s], UNCHANGED verdict
    PROVE  RowsKept
  BY Phases DEF RowsKept, RowTyped, IsActive

LEMMA RowCases ==
    ASSUME Typed, NothingUnknown, Next
    PROVE  \/ \E op \in Ops : Admit(op) \/ Cancel(op)
           \/ RowsKept /\ UNCHANGED cancelReq
           \/ \E op \in Ops, v \in HubClaims :
                /\ Settles(op, v)
                /\ v \in {"withdrawn", "unstarted_cancelled"} => cancelReq[op]
                /\ UNCHANGED <<cancelReq, runs>>
           \/ /\ ReceiveResult
              /\ Settles(Head(up).op, Head(up).result) /\ ~Fenced(Head(up).op)
              /\ UNCHANGED <<cancelReq, runs>>
<1> DEFINE HubCase == \E op \in Ops, v \in HubClaims :
                        /\ Settles(op, v)
                        /\ v \in {"withdrawn", "unstarted_cancelled"} => cancelReq[op]
                        /\ UNCHANGED <<cancelReq, runs>>
<1>1. CASE UNCHANGED rowVars
  BY <1>1 DEF rowVars, RowsKept
<1>2. ASSUME NEW op \in Ops, NEW v \in HubClaims, Complete(op, v), state[op] # "none",
             v \in {"withdrawn", "unstarted_cancelled"} => cancelReq[op],
             UNCHANGED <<cancelReq, runs>>
      PROVE  HubCase \/ (RowsKept /\ UNCHANGED cancelReq)
  BY <1>2, CompleteCases
<1>3. ASSUME NEW op \in Ops, Revoke(op) \/ Restore(op) \/ Expire(op) \/ PreparePackets(op)
      PROVE  RowsKept /\ UNCHANGED cancelReq
  BY <1>3 DEF Revoke, Restore, Expire, PreparePackets, rowVars, RowsKept
<1>4. ASSUME NEW op \in Ops, PrepareRefusal(op)
      PROVE  HubCase \/ (RowsKept /\ UNCHANGED cancelReq)
  <2>1. PICK v \in {"withdrawn", "rejected"} :
          Complete(op, v) /\ (v = "withdrawn" => cancelReq[op])
    BY <1>4 DEF PrepareRefusal
  <2>2. state[op] # "none" /\ UNCHANGED <<cancelReq, runs>>
    BY <1>4 DEF PrepareRefusal, MayPrepare, IsActive, Active, agentVars
  <2>3. v \in HubClaims
    BY DEF HubClaims, NeverSent
  <2> QED BY <1>2, <2>1, <2>2, <2>3
<1>5. ASSUME NEW op \in Ops, PrepareFenced(op)
      PROVE  HubCase \/ (RowsKept /\ UNCHANGED cancelReq)
  <2>1. Complete(op, "journal_changed") /\ state[op] # "none" /\ UNCHANGED <<cancelReq, runs>>
    BY <1>5 DEF PrepareFenced, MayPrepare, IsActive, Active, agentVars
  <2> QED BY <1>2, <2>1 DEF HubClaims
<1>6. ASSUME NEW type, Receiving(type)
      PROVE  Head(up).op \in Ops /\ state[Head(up).op] # "none" /\ UNCHANGED runs
  BY <1>6, ReceivedFrame, ReceivedIsFlying DEF NothingUnknown, Named, Receiving, agentVars
<1>7. CASE ReceiveProgress
  <2>1. PICK type \in {"accepted", "started"} :
          /\ Receiving(type)
          /\ IF Fenced(Head(up).op) THEN Resolve(Head(up).op, "journal_changed")
             ELSE Confirm(Head(up).op, type = "started") /\ UNCHANGED <<attempted, verdict>>
          /\ UNCHANGED cancelReq
    BY <1>7 DEF ReceiveProgress
  <2>2. CASE Resolve(Head(up).op, "journal_changed")
    BY <1>2, <1>6, <2>1, <2>2 DEF Resolve, HubClaims
  <2>3. CASE Confirm(Head(up).op, type = "started") /\ UNCHANGED verdict
    BY <1>6, <2>1, <2>3, ActiveKept, TypedParts DEF Confirm, RowsKept, Active
  <2> QED BY <2>1, <2>2, <2>3
<1>8. CASE ReceiveStatus
  <2> DEFINE op == Head(up).op
  <2>1. op \in Ops /\ state[op] # "none" /\ UNCHANGED <<cancelReq, runs>>
    BY <1>6, <1>8 DEF ReceiveStatus
  <2>2. CASE \E v \in {"journal_changed", "unstarted_expired", "unstarted_cancelled"} :
                Resolve(op, v) /\ (v = "unstarted_cancelled" => cancelReq[op])
    BY <1>2, <2>1, <2>2 DEF Resolve, HubClaims, Unstarted
  <2>3. CASE IsActive(op) /\ (Requeue(op) \/ \E running : Confirm(op, running) /\ UNCHANGED verdict)
    BY <2>1, <2>3, ActiveKept, TypedParts DEF Requeue, Confirm, Active
  <2>4. CASE UNCHANGED <<state, verdict>>
    BY <2>1, <2>4 DEF RowsKept
  <2> QED BY <1>8, <2>2, <2>3, <2>4 DEF ReceiveStatus
<1>9. CASE ReceiveResult
  <2> DEFINE op == Head(up).op
  <2>1. op \in Ops /\ state[op] # "none" /\ UNCHANGED <<cancelReq, runs>>
    BY <1>6, <1>9 DEF ReceiveResult
  <2>2. CASE Fenced(op)
    BY <1>2, <1>9, <2>1, <2>2 DEF ReceiveResult, HubClaims
  <2>3. CASE ~Fenced(op)
    BY <1>9, <2>1, <2>3, CompleteCases DEF ReceiveResult
  <2> QED BY <2>2, <2>3
<1>10. CASE HubDetach \/ HubRestart
  <2>1. \A op \in Ops : Disconnected(op) = state[op] \/ (state[op] \in Active /\ Disconnected(op) \in Active)
    BY DEF Disconnected, Active
  <2> QED BY <1>10, <2>1, Phases DEF HubDetach, HubRestart, RowsKept
<1>11. ASSUME NEW op \in Ops, Handle(op) \/ SendOutbox(op) \/ Prune(op)
       PROVE  UNCHANGED rowVars
  BY <1>11, HandleFacts DEF SendOutbox, Prune
<1>12. CASE Send \/ Read \/ SendReceipt \/ Connect \/ AgentDrop \/ Stop \/ Crash \/ Restart
              \/ LoseJournal
  BY <1>1, <1>12, ReadFacts DEF Send, SendPacket, DropPrepared, SendReceipt, Connect, AgentDrop,
         Stop, Crash, Restart, LoseJournal
<1> QED BY <1>1, <1>3, <1>4, <1>5, <1>7, <1>8, <1>9, <1>10, <1>11, <1>12
        DEF Next, Caller, Prepare, Receive

LEMMA CancelCases ==
    ASSUME Typed, NEW op \in Ops, Cancel(op)
    PROVE  /\ cancelReq' = [cancelReq EXCEPT ![op] = TRUE] /\ UNCHANGED runs /\ IsActive(op)
           /\ RowsKept \/ Settles(op, "withdrawn")
<1>1. IsActive(op) /\ state[op] # "none"
  BY DEF Cancel, IsActive, Active
<1>2. CASE attempted[op]
  BY <1>1, <1>2, ActiveKept, TypedParts DEF Cancel, Active, agentVars
<1>3. CASE ~attempted[op]
  BY <1>1, <1>3, CompleteCases DEF Cancel, agentVars
<1> QED BY <1>2, <1>3

-----------------------------------------------------------------------------
(* Verdicts.                                                               *)

(* The invariant of the reports: a frame in flight, a handler's outcome and *)
(* the journal's record of an operation never contradict each other.        *)
Reported ==
    /\ OpenIsBlank /\ NothingUnknown /\ CancelsAsked /\ AgentClaims
    /\ ReceiptsAreClaims /\ JournalVoice /\ Acks

LEMMA OutcomesAreApart == Outcomes \cap HubClaims = {} /\ "none" \notin Outcomes
  BY DEF Outcomes, HubClaims, NeverSent, Unstarted

LEMMA VerdictStep ==
    ASSUME Typed, Core, Reported, VerdictFromJournal, Next
    PROVE  VerdictFromJournal'
<1>1. SUFFICES ASSUME NEW op \in Ops, NEW v \in Outcomes, verdict'[op] = v,
                      sentJournal'[op] = journalId'
               PROVE  Says(op, v)'
  BY DEF VerdictFromJournal, Says
<1> USE TypedParts
<1>2. /\ journalId \in Nat \ {0} /\ hubJournal \in Nat /\ hubJournal <= journalId
      /\ sentJournal[op] \in Nat /\ sentJournal[op] <= journalId
  BY DEF JournalTyped, LinkTyped, RowTyped, Core, JournalOrder
<1>3. CASE verdict'[op] = verdict[op]
  <2>1. ~IsActive(op)
    BY <1>1, <1>3, OutcomesAreApart DEF Reported, OpenIsBlank, IsActive
  <2>2. sentJournal'[op] = sentJournal[op]
    BY <2>1, RowsGrow DEF RowGrows
  <2>3. ~LoseJournal
    BY <1>1, <1>2, <2>2 DEF LoseJournal
  <2>4. Says(op, v)
    BY <1>1, <1>3, <2>2, <2>3, ConnectionSteps DEF VerdictFromJournal, Says
  <2> QED BY <2>3, <2>4, SaysPersists
<1>4. CASE verdict'[op] # verdict[op]
  <2>1. verdict'[op] \notin HubClaims
    BY <1>1, OutcomesAreApart
  <2>2. ~\E o \in Ops : Admit(o) \/ Cancel(o)
    BY <1>4, <2>1, CancelCases DEF Admit, RowsKept, Settles, HubClaims, NeverSent, RowTyped
  <2>3. /\ ReceiveResult /\ ~Fenced(op)
        /\ op = Head(up).op /\ verdict'[op] = Head(up).result
    BY <1>4, <2>1, <2>2, RowCases DEF Reported, RowsKept, Settles, RowTyped
  <2>4. /\ Receiving("result") /\ UNCHANGED <<journalId, call, result, sentJournal>>
    BY <2>3 DEF ReceiveResult, Receiving, agentVars, journalVars
  <2>5. hubJournal = journalId
    BY <1>1, <1>2, <2>3, <2>4 DEF Fenced
  <2>6. Head(up) \in Frames(up) /\ Head(up).type = "result"
    BY <2>4, ReceivedIsFlying DEF Receiving
  <2>7. Says(op, Head(up).result) /\ v = Head(up).result
    BY <1>1, <2>3, <2>5, <2>6 DEF Reported, JournalVoice
  <2> QED BY <2>3, <2>4, <2>7 DEF Says, Finished
<1> QED BY <1>3, <1>4

LEMMA ReportedStep ==
    ASSUME Typed, Core, Concluded, AcksFollowRows, Reported, Next
    PROVE  Reported'
<1>1. OpenIsBlank' /\ NothingUnknown' /\ CancelsAsked' /\ AgentClaims'
  BY OpenStep, UnknownStep, CancelsStep, ClaimsStep DEF Reported
<1>2. ReceiptsAreClaims' /\ JournalVoice'
  BY ReceiptsStep, VoiceStep DEF Reported
<1>3. Acks'
  BY AckLastStep, AckedQuietStep, ForgottenStep DEF Reported, Acks
<1> QED BY <1>1, <1>2, <1>3 DEF Reported

LEMMA ReportedInit == Init => Reported
<1> SUFFICES ASSUME Init PROVE Reported
  OBVIOUS
<1>1. /\ Frames(prepared) = {} /\ Frames(down) = {} /\ Frames(reader) = {} /\ Frames(up) = {}
      /\ DOMAIN down = {}
  BY DEF Init, Frames
<1>2. OpenIsBlank /\ NothingUnknown /\ CancelsAsked
  BY <1>1 DEF Init, OpenIsBlank, NothingUnknown, Named, CancelsAsked
<1>3. AgentClaims
  BY DEF Init, AgentClaims, ClaimsOf, Finishing, Finished, Outcomes
<1>4. ReceiptsAreClaims /\ JournalVoice
  BY <1>1 DEF Init, ReceiptsAreClaims, JournalVoice
<1>5. Acks
  BY <1>1 DEF Init, Acks, AckLast, AckedQuiet, ForgottenAcked, Finished
<1> QED BY <1>2, <1>3, <1>4, <1>5 DEF Reported

LEMMA ConclusionsAlways == Spec => [](Concluded /\ AcksFollowRows)
<1> DEFINE Inv == Concluded /\ AcksFollowRows
<1>1. Init => Inv
  <2>1. Init => DOMAIN down = {}
    BY DEF Init
  <2> QED BY <2>1 DEF Init, Concluded, AcksFollowRows, AckFlying, Settled
<1>2. Typed /\ Core /\ Inv /\ [Next]_vars => Inv'
  <2>1. CASE Next
    BY <2>1, ConcludedStep, AckStep
  <2>2. CASE UNCHANGED vars
    BY <2>2 DEF vars, rowVars, netVars, agentVars, journalVars, Concluded, AcksFollowRows, AckFlying
  <2> QED BY <2>1, <2>2
<1> QED BY <1>1, <1>2, TypedAlways, CoreAlways, PTL DEF Spec

LEMMA ReportedSame ==
    ASSUME UNCHANGED vars
    PROVE  /\ Reported => Reported'
           /\ VerdictFromJournal => VerdictFromJournal'
<1>1. /\ UNCHANGED <<rowVars, hubVars, netVars, taskVars, journalVars, runs>>
      /\ UNCHANGED <<state, sentJournal, verdict, cancelReq, hubJournal, prepared, down, up, agentCon,
                     job, reader, journalId, call, result, acked, cancelled>>
  BY DEF vars, rowVars, hubVars, netVars, agentVars, taskVars, journalVars
<1>2. Reported => Reported'
  BY <1>1 DEF Reported, OpenIsBlank, NothingUnknown, Named, CancelsAsked, AgentClaims, ClaimsOf,
         Finishing, Finished, Claimed, StoppedFirst, ReceiptsAreClaims, JournalVoice, Says, Acks,
         AckLast, AckedQuiet, ForgottenAcked, Frames
<1>3. VerdictFromJournal => VerdictFromJournal'
  BY <1>1 DEF VerdictFromJournal, Finished
<1> QED BY <1>2, <1>3

LEMMA ReportedAlways == Spec => []Reported
<1>1. Typed /\ Core /\ Concluded /\ AcksFollowRows /\ Reported /\ [Next]_vars => Reported'
  BY ReportedStep, ReportedSame
<1> QED BY <1>1, ReportedInit, TypedAlways, CoreAlways, ConclusionsAlways, PTL DEF Spec

(* The outcome the Hub shows is the one in the journal of the Agent the    *)
(* operation was sent to, as long as that journal exists: no late, resent  *)
(* or reordered receipt of another attempt replaces it.                    *)
THEOREM VerdictIsTheJournals == Spec => []VerdictFromJournal
<1>1. Init => VerdictFromJournal
  BY OutcomesAreApart DEF Init, VerdictFromJournal
<1>2. Typed /\ Core /\ Reported /\ VerdictFromJournal /\ [Next]_vars => VerdictFromJournal'
  BY VerdictStep, ReportedSame
<1> QED BY <1>1, <1>2, TypedAlways, CoreAlways, ReportedAlways, PTL DEF Spec

(* RESULT_EXPIRED, the tombstone that retention leaves, never reaches the  *)
(* Hub in place of an outcome: it is not in any receipt under way.         *)
NeverForgotten == \A f \in Frames(reader) \cup Frames(up) : f.type = "result" => f.result # "forgotten"

THEOREM TombstonesStayHome == Spec => []NeverForgotten
<1>1. Reported => NeverForgotten
  BY DEF Reported, ReceiptsAreClaims, Claimed, NeverForgotten
<1> QED BY <1>1, ReportedAlways, PTL

-----------------------------------------------------------------------------
(* The ledger.                                                             *)

LEMMA StateOfPhases ==
    ASSUME NEW v \in Verdicts
    PROVE  PhaseOf(StateOf(v)) =
             IF v \in {"interrupted", "journal_changed"} THEN "review" ELSE "settled"
<1>1. CASE v \in {"interrupted", "journal_changed"}
  <2>1. StateOf(v) = "needs_review"
    BY <1>1 DEF StateOf
  <2> QED BY <1>1, <2>1, Phases
<1>2. CASE v \notin {"interrupted", "journal_changed"}
  <2>1. StateOf(v) \in Settled
    BY <1>2 DEF StateOf, Settled
  <2> QED BY <1>2, <2>1, Phases
<1> QED BY <1>1, <1>2

LEMMA LedgerConclude ==
    ASSUME Typed, NEW op \in Ops, NEW v \in Verdicts \ {"forgotten"}, Settles(op, v),
           UNCHANGED runs,
           cancelReq' \in {cancelReq, [cancelReq EXCEPT ![op] = TRUE]},
           v \in {"ok", "killed"} => runs[op] > 0,
           v \in {"refused", "late"} /\ op \notin Reads => runs[op] = 0,
           v \in {"killed", "withdrawn", "unstarted_cancelled"} => cancelReq'[op]
    PROVE  Ledger!Next
<1> USE TypedParts DEF RowTyped
<1>1. PhaseOf(state[op]) \in {"open", "review"}
  BY Phases DEF Settles, States
<1>2. \A o \in Ops : PhaseOf(state'[o]) = IF o = op THEN PhaseOf(StateOf(v)) ELSE PhaseOf(state[o])
  BY DEF Settles
<1>3. Ledger!Justified(op, v)
  BY DEF Ledger!Justified
<1>4. Ledger!Conclude(op, v)
  BY <1>1, <1>2, <1>3, StateOfPhases DEF Ledger!Conclude, Settles
<1> QED BY <1>4 DEF Ledger!Next

LEMMA LedgerRun ==
    ASSUME Typed, Core, Reported, NEW op \in Ops, Execute(op), RowsKept, UNCHANGED cancelReq
    PROVE  Ledger!Next
<1> USE TypedParts DEF RowTyped
<1>1. job[op] = "started" /\ runs' = [runs EXCEPT ![op] = @ + 1]
  BY DEF Execute
<1>2. sentJournal[op] = journalId /\ journalId # 0
  BY <1>1 DEF Core, CallsAreCurrent, JournalTyped
<1>3. PhaseOf(state[op]) # "none"
  BY <1>2, Phases DEF Reported, NothingUnknown, States
<1>4. runs[op] <= crashes[op]
  BY <1>1, <1>2 DEF Core, RunsAreCounted, Fresh
<1>5. /\ crashes[op] < MaxInterruptedReads /\ (op \notin Reads => crashes[op] = 0)
      /\ crashes[op] \in Nat /\ runs[op] \in Nat
  BY <1>1 DEF AgentSound, CrashRoom, JobMatchesCall, Finished, JournalTyped, RestTyped
<1>6. runs[op] < Ledger!MaxRunsOf(op)
  <2>1. CASE op \in Reads
    <3>1. Ledger!MaxRunsOf(op) = MaxInterruptedReads
      BY <2>1 DEF Ledger!MaxRunsOf
    <3> QED BY <3>1, <1>4, <1>5, OpsAssumption
  <2>2. CASE op \notin Reads
    <3>1. Ledger!MaxRunsOf(op) = 1
      BY <2>2 DEF Ledger!MaxRunsOf
    <3> QED BY <3>1, <2>2, <1>4, <1>5
  <2> QED BY <2>1, <2>2
<1>7. Ledger!Run(op)
  BY <1>1, <1>3, <1>6 DEF Ledger!Run, RowsKept
<1> QED BY <1>7 DEF Ledger!Next

LEMMA LedgerStep ==
    ASSUME Typed, Core, Reported, Next
    PROVE  [Ledger!Next]_(Ledger!ledger)
<1> USE TypedParts DEF RowTyped
<1>1. ASSUME NEW op \in Ops, Admit(op)
      PROVE  Ledger!Next
  <2>1. state[op] = "none" /\ state' = [state EXCEPT ![op] = "queued"] /\ UNCHANGED <<verdict, cancelReq, runs>>
    BY <1>1 DEF Admit, agentVars
  <2>2. Ledger!Submit(op)
    BY <2>1, Phases DEF Ledger!Submit, Active
  <2> QED BY <2>2 DEF Ledger!Next
<1>2. ASSUME NEW op \in Ops, Cancel(op)
      PROVE  Ledger!Next
  <2>1. cancelReq' = [cancelReq EXCEPT ![op] = TRUE] /\ UNCHANGED runs /\ IsActive(op)
    BY <1>2, CancelCases
  <2>2. CASE RowsKept
    <3>1. Ledger!Ask(op)
      BY <2>1, <2>2, Phases DEF Ledger!Ask, RowsKept, IsActive
    <3> QED BY <3>1 DEF Ledger!Next
  <2>3. CASE Settles(op, "withdrawn")
    <3>1. "withdrawn" \in Verdicts \ {"forgotten"} /\ cancelReq'[op]
      BY <2>1 DEF Verdicts, HubClaims, NeverSent
    <3> QED BY <2>1, <2>3, <3>1, LedgerConclude
  <2> QED BY <1>2, <2>2, <2>3, CancelCases
<1>3. ASSUME RowsKept, UNCHANGED cancelReq
      PROVE  Ledger!Next \/ UNCHANGED Ledger!ledger
  <2>1. CASE \E op \in Ops : Execute(op)
    BY <1>3, <2>1, LedgerRun
  <2>2. CASE ~\E op \in Ops : Execute(op)
    <3>1. runs' = runs
      <4>1. \A op \in Ops : runs'[op] = runs[op]
        BY <2>2, RunsGrow
      <4>2. runs' \in [Ops -> Nat] /\ runs \in [Ops -> Nat]
        BY TypedStep DEF RestTyped
      <4> QED BY <4>1, <4>2
    <3> QED BY <1>3, <3>1 DEF Ledger!ledger, RowsKept
  <2> QED BY <2>1, <2>2
<1>4. ASSUME NEW op \in Ops, NEW v \in HubClaims, Settles(op, v),
             v \in {"withdrawn", "unstarted_cancelled"} => cancelReq[op],
             UNCHANGED <<cancelReq, runs>>
      PROVE  Ledger!Next
  <2>1. /\ v \in Verdicts \ {"forgotten"}
        /\ v \notin {"ok", "killed", "refused", "late"}
    BY DEF Verdicts, HubClaims, NeverSent, Unstarted
  <2> QED BY <1>4, <2>1, LedgerConclude
<1>5. ASSUME ReceiveResult, Settles(Head(up).op, Head(up).result), ~Fenced(Head(up).op),
             UNCHANGED <<cancelReq, runs>>
      PROVE  Ledger!Next
  <2> DEFINE op == Head(up).op
             v == Head(up).result
  <2>1. op \in Ops /\ v \in Results /\ Head(up) \in Frames(up) /\ Head(up).type = "result"
    BY <1>5, ReceivedFrame, ReceivedIsFlying DEF ReceiveResult, Receiving
  <2>2. Claimed(op, v)
    BY <2>1 DEF Reported, ReceiptsAreClaims
  <2>3. StoppedFirst(op, v)
    BY <1>5, <2>1 DEF Reported, JournalVoice, Fenced
  <2>4. v \in Verdicts \ {"forgotten"} /\ v \notin {"withdrawn", "unstarted_cancelled"}
    BY <2>1, <2>2 DEF Claimed, Verdicts, Results, Outcomes
  <2> HIDE DEF op, v
  <2> QED BY <1>5, <2>1, <2>2, <2>3, <2>4, LedgerConclude DEF Claimed, StoppedFirst, op, v
<1> QED BY <1>1, <1>2, <1>3, <1>4, <1>5, RowCases DEF Reported

(* With every frame, retry, crash and restart hidden, delivery is the      *)
(* ledger: each row is concluded by claims its execution justifies, and no *)
(* operation begins more often than the ledger allows.                     *)
THEOREM LedgerImplemented == Spec => ImplementsLedger
<1>1. Init => Ledger!Init
  <2>1. Init => \A op \in Ops : PhaseOf(state[op]) = "none"
    BY Phases DEF Init
  <2> QED BY <2>1 DEF Init, Ledger!Init
<1>2. Typed /\ Core /\ Reported /\ [Next]_vars => [Ledger!Next]_(Ledger!ledger)
  <2>1. CASE Next
    BY <2>1, LedgerStep
  <2>2. CASE UNCHANGED vars
    BY <2>2 DEF vars, rowVars, agentVars, Ledger!ledger
  <2> QED BY <2>1, <2>2
<1> QED BY <1>1, <1>2, TypedAlways, CoreAlways, ReportedAlways, PTL
        DEF Spec, ImplementsLedger, Ledger!Spec
=============================================================================
