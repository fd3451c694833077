------------------------------- MODULE SyncFlow -------------------------------
(***************************************************************************)
(* How the Agent copies its transcripts to the Hub: the flow control of    *)
(* src/agent/native_sync_flow.py, the loop around it (sync and snapshot in *)
(* src/agent/native_cli.py) and the lane on which the Hub stores a packet  *)
(* and answers it (src/hub/native_cli.py).                                 *)
(*                                                                         *)
(* A transcript is Size chunks, and what a packet may hold is enough for   *)
(* every session.  Between its decisions the loop awaits: an answer may    *)
(* come after the window was looked at and before the packet leaves, or    *)
(* after the packet left and before it is noted.  Times are the ticks that *)
(* are left.  Metadata changes only by being offered again.                *)
(***************************************************************************)
EXTENDS Naturals, FiniteSets, Sequences, SequencesExt

CONSTANTS
    Sids,        \* sessions
    Size,        \* chunks of each transcript
    Window,      \* WINDOW, 2 packets
    Timeout,     \* INFLIGHT_TIMEOUT, in ticks
    BackoffMax,  \* NO_PROGRESS_MAX; the first backoff is 1 tick
    PauseMax,    \* PAUSE_MAX; the first pause is 1 tick
    Depth,       \* SYNC_LANE_DEPTH
    Packets,     \* bound: sequence numbers of packets that wait
    Answers,     \* bound: answers that wait
    Faults,      \* bound: failures and changes of mind of the world
    Nil

Pauses == [failures : Nat \ {0}, until : Nat]
Chunks == UNION {[S -> 1..Size] : S \in SUBSET Sids}
Turns  == [pc : {"send", "note"}, rows : SUBSET Sids, seq : Nat, chunks : Chunks]

ASSUME FlowAssumption ==
    /\ Size \in Nat /\ Window \in Nat /\ Timeout \in Nat
    /\ BackoffMax \in Nat \ {0} /\ PauseMax \in Nat \ {0} /\ Depth \in Nat \ {0}
    /\ Nil \notin Pauses /\ Nil \notin Turns

VARIABLES
    offsets, inflight, backoff, paused,  \* the Agent's memory
    offered,     \* sent_metadata: rows the Hub has been shown as they are
    task,        \* the packet between two awaits of the loop, or Nil
    saved,       \* the pauses on disk
    up,          \* packets on the socket or on the Hub's lane
    acks,        \* answers under way
    echo,        \* whether this Hub echoes sequence numbers
    hub,         \* what the Hub does with a session: "takes", "full", "refuses"
    stored,      \* chunks the Hub has
    faults,
    sends        \* history: sends of each chunk on this connection since time passed,
                 \* or since the Hub took a refusal of the session back

agent == <<offsets, inflight, backoff, paused, offered, task, saved>>
world == <<echo, hub, stored, faults>>
flowVars == <<agent, up, acks, world, sends>>

Unsent == [c \in 1..Size |-> 0]
NoBackoff == [until |-> 0, delay |-> 0]
Capped(cap, n) == IF cap < n THEN cap ELSE n
Less(n) == IF n = 0 THEN 0 ELSE n - 1

FlowInit ==
    /\ offsets = [s \in Sids |-> 0]
    /\ inflight = <<>>
    /\ backoff = [s \in Sids |-> NoBackoff]
    /\ paused = [s \in Sids |-> Nil]
    /\ offered = {}
    /\ task = Nil
    /\ saved = paused
    /\ up = <<>> /\ acks = <<>>
    /\ echo \in BOOLEAN
    /\ hub \in [Sids -> {"takes", "full", "refuses"}]
    /\ stored = [s \in Sids |-> 0]
    /\ faults = 0
    /\ sends = [s \in Sids |-> Unsent]

----------------------------------------------------------------------------
(* _no_progress and _pause.                                                *)
NoProgress(b, S) ==
    [s \in Sids |->
        IF s \in S
        THEN LET d == IF b[s].delay = 0 THEN 1 ELSE Capped(BackoffMax, 2 * b[s].delay)
             IN  [until |-> d, delay |-> d]
        ELSE b[s]]

PauseTicks(failures) ==
    LET twice[n \in 0..failures - 1] == IF n = 0 THEN 1 ELSE 2 * twice[n - 1]
    IN  Capped(PauseMax, twice[failures - 1])

Pause(p) ==
    LET n == IF p = Nil THEN 1 ELSE Capped(PauseMax, p.failures + 1)
    IN  [failures |-> n, until |-> PauseTicks(n)]

(* One packet p of an answer a: what a says was stored is progress.        *)
ClearedAnyway(a, b, p) ==   \* mutant of Cleared: an offset is taken for progress
    LET done == DOMAIN p.chunks \cap DOMAIN a.offsets
    IN  NoProgress([s \in Sids |-> IF s \in done THEN NoBackoff ELSE b[s]],
                   DOMAIN p.chunks \ (done \cup a.rejected))

Cleared(a, b, p) ==
    LET done == {s \in DOMAIN p.chunks : s \in DOMAIN a.offsets /\ a.offsets[s] >= p.chunks[s]}
    IN  NoProgress([s \in Sids |-> IF s \in done THEN NoBackoff ELSE b[s]],
                   DOMAIN p.chunks \ (done \cup a.rejected))

(* The packets at the positions in I: what is left of q without the others, *)
(* and the backoffs b when a answers them one after another.                *)
Kept(q, I) ==
    LET k[n \in 0..Len(q)] ==
            IF n = 0 THEN <<>> ELSE IF n \in I THEN Append(k[n - 1], q[n]) ELSE k[n - 1]
    IN  k[Len(q)]

Answered(a, b, q, I) ==
    LET k[n \in 0..Len(q)] ==
            IF n = 0 THEN b ELSE IF n \in I THEN Cleared(a, k[n - 1], q[n]) ELSE k[n - 1]
    IN  k[Len(q)]

(* expire: the packets that waited too long are given up, as if an answer   *)
(* had said nothing of them.                                                *)
Silence == [offsets |-> <<>>, rejected |-> {}]
Live    == {i \in DOMAIN inflight : inflight[i].left > 0}
Expired == Answered(Silence, backoff, inflight, DOMAIN inflight \ Live)

WindowOpen == Cardinality({i \in Live : DOMAIN inflight[i].chunks # {}}) < Window

Skipped == {s \in Sids : paused[s] # Nil \/ Expired[s].until > 0}

(* One turn of the loop, up to the send: window_open, due_probes, skip,    *)
(* snapshot.                                                               *)
Look ==
    /\ task = Nil
    /\ LET due    == {s \in Sids : paused[s] # Nil /\ paused[s].until = 0}
           cut    == IF WindowOpen THEN {s \in Sids \ Skipped : offsets[s] < Size} ELSE {}
           rows   == cut \cup (Sids \ (offered \ due))
           probed == [s \in Sids |-> IF s \in due
                                     THEN [paused[s] EXCEPT !.until = PauseTicks(paused[s].failures)]
                                     ELSE paused[s]]
       IN  /\ inflight' = Kept(inflight, Live)
           /\ backoff' = Expired
           /\ paused' = probed
           /\ offered' = offered \ due
           /\ IF rows = {}
              THEN task' = Nil /\ saved' = probed
              ELSE /\ task' = [pc |-> "send", rows |-> rows, seq |-> 0,
                               chunks |-> [s \in cut |-> offsets[s] + 1]]
                   /\ UNCHANGED saved
    /\ UNCHANGED <<offsets, up, acks, world, sends>>

Numbers(ps) == UNION {ToSet(ps[i].seqs) : i \in DOMAIN ps}
InUse == {inflight[i].seq : i \in DOMAIN inflight} \cup Numbers(up) \cup Numbers(acks)
Fresh == CHOOSE n \in 1..(Cardinality(InUse) + 1) : n \notin InUse

OnLane == FoldLeft(LAMBDA n, p : n + Len(p.seqs), 0, up)

(* submit: a full lane merges its newest packet with this one.             *)
Coalesce(old, new) ==
    [rows |-> old.rows \cup new.rows, chunks |-> new.chunks, seqs |-> old.seqs \o new.seqs]

SubmitPacket(p) ==
    up' = IF echo /\ Len(up) >= Depth
          THEN Append(Front(up), Coalesce(Last(up), p))
          ELSE Append(up, p)

Send ==
    /\ task # Nil /\ task.pc = "send"
    /\ OnLane < Packets
    /\ SubmitPacket([rows |-> task.rows, chunks |-> task.chunks, seqs |-> <<Fresh>>])
    /\ task' = [task EXCEPT !.pc = "note", !.seq = Fresh]
    /\ sends' = [s \in Sids |-> IF s \in DOMAIN task.chunks
                               THEN [sends[s] EXCEPT ![task.chunks[s]] = @ + 1]
                               ELSE sends[s]]
    /\ UNCHANGED <<offsets, inflight, backoff, paused, offered, saved, acks, world>>

(* sent, and the end of the turn.                                          *)
Sent ==
    /\ task # Nil /\ task.pc = "note"
    /\ inflight' = Append(inflight, [seq |-> task.seq, left |-> Timeout, chunks |-> task.chunks])
    /\ offered' = offered \cup task.rows
    /\ saved' = paused
    /\ task' = Nil
    /\ UNCHANGED <<offsets, backoff, paused, up, acks, world, sends>>

----------------------------------------------------------------------------
(* The Hub stores the head of its lane, and answers.  An old Hub neither   *)
(* echoes sequence numbers nor names what it refuses.                      *)
Answer(seqs, accepted, rejected) ==
    Append(acks, [seqs     |-> IF echo THEN seqs ELSE <<>>,
                  offsets  |-> accepted,
                  rejected |-> IF echo THEN rejected ELSE {}])

Store ==
    /\ up # <<>> /\ Len(acks) < Answers
    /\ LET p    == Head(up)
           rejected == {s \in p.rows : hub[s] = "refuses"}
           takes(s) == hub[s] = "takes" /\ s \in DOMAIN p.chunks /\ p.chunks[s] = stored[s] + 1
           now  == [s \in Sids |-> IF s \in p.rows /\ takes(s) THEN stored[s] + 1 ELSE stored[s]]
       IN  /\ stored' = now
           /\ acks' = Answer(p.seqs, [s \in p.rows \ rejected |-> now[s]], rejected)
    /\ up' = Tail(up)
    /\ UNCHANGED <<agent, echo, hub, faults, sends>>

(* A cache write fails: nothing is stored; an old Hub says nothing.        *)
StoreFails ==
    /\ up # <<>> /\ Len(acks) < Answers /\ faults < Faults
    /\ acks' = IF echo THEN Answer(Head(up).seqs, <<>>, {}) ELSE acks
    /\ up' = Tail(up)
    /\ faults' = faults + 1
    /\ UNCHANGED <<agent, echo, hub, stored, sends>>

(* on_ack.  An answer of an old Hub is for the oldest packet there is.     *)
PauseAfterRefusal(a, s) ==   \* mutant of PauseAfter: a probe that is accepted ends no pause
    IF s \in a.rejected THEN Pause(paused[s]) ELSE paused[s]

PauseAfter(a, s) ==
    CASE s \in a.rejected -> Pause(paused[s])
      [] s \in DOMAIN a.offsets \ a.rejected -> Nil
      [] OTHER -> paused[s]

OnAck ==
    /\ acks # <<>>
    /\ LET a      == Head(acks)
           meant  == {i \in DOMAIN inflight :
                        IF echo THEN inflight[i].seq \in ToSet(a.seqs) ELSE i = 1}
           rested == [s \in Sids |-> IF s \in a.rejected THEN NoBackoff ELSE backoff[s]]
       IN  /\ offsets' = [s \in Sids |-> IF s \in DOMAIN a.offsets THEN a.offsets[s] ELSE offsets[s]]
           /\ inflight' = Kept(inflight, DOMAIN inflight \ meant)
           /\ paused' = [s \in Sids |-> PauseAfter(a, s)]
           /\ backoff' = Answered(a, rested, inflight, meant)
           /\ sends' = [s \in Sids |-> IF paused[s] # Nil /\ paused'[s] = Nil
                                      THEN Unsent ELSE sends[s]]
    /\ acks' = Tail(acks)
    /\ UNCHANGED <<offered, task, saved, up, world>>

----------------------------------------------------------------------------
(* A new connection forgets what the old one had under way; its sends are  *)
(* counted from nothing.                                                   *)
Disconnected ==
    /\ offsets' = [s \in Sids |-> 0]
    /\ inflight' = <<>> /\ offered' = {} /\ task' = Nil
    /\ up' = <<>> /\ acks' = <<>>
    /\ sends' = [s \in Sids |-> Unsent]
    /\ faults < Faults /\ faults' = faults + 1

Reconnect ==
    /\ Disconnected
    /\ UNCHANGED <<backoff, paused, saved, echo, hub, stored>>

Restart ==
    /\ Disconnected
    /\ backoff' = [s \in Sids |-> NoBackoff]
    /\ paused' = saved
    /\ UNCHANGED <<saved, echo, hub, stored>>

ChangesMind(s) ==
    /\ faults < Faults /\ faults' = faults + 1
    /\ \E what \in {"takes", "full", "refuses"} \ {hub[s]} : hub' = [hub EXCEPT ![s] = what]
    /\ UNCHANGED <<agent, up, acks, echo, stored, sends>>

Later(pause) == [s \in Sids |-> IF pause[s] = Nil THEN Nil
                                ELSE [pause[s] EXCEPT !.until = Less(@)]]

Passes ==
    /\ inflight' = [i \in DOMAIN inflight |-> [inflight[i] EXCEPT !.left = Less(@)]]
    /\ backoff' = [s \in Sids |-> [backoff[s] EXCEPT !.until = Less(@)]]
    /\ paused' = Later(paused) /\ saved' = Later(saved)
    /\ <<inflight', backoff', paused'>> # <<inflight, backoff, paused>>
    /\ sends' = [s \in Sids |-> Unsent]
    /\ UNCHANGED <<offsets, offered, task, up, acks, echo, hub, stored>>

(* A Hub that is slower than the timeouts counts as a failure.             *)
Tick == Passes /\ up = <<>> /\ acks = <<>> /\ UNCHANGED faults

SlowTick == Passes /\ (up # <<>> \/ acks # <<>>) /\ faults < Faults /\ faults' = faults + 1

Loop == Look \/ Send \/ Sent

FlowNext ==
    \/ Loop \/ Store \/ StoreFails \/ OnAck \/ Reconnect \/ Restart \/ Tick \/ SlowTick
    \/ \E s \in Sids : ChangesMind(s)

FlowSpec == FlowInit /\ [][FlowNext]_flowVars

(* The loop turns, the Hub works off its lane, the reader reads, and time  *)
(* passes.                                                                 *)
FlowFairness ==
    /\ WF_flowVars(Loop) /\ WF_flowVars(Store) /\ WF_flowVars(OnAck) /\ WF_flowVars(Tick)

FlowFairSpec == FlowSpec /\ FlowFairness

----------------------------------------------------------------------------
(* No hot loop: whatever answers are lost, late or matched to the wrong    *)
(* packet, a chunk that makes no progress is not sent more often on one    *)
(* connection than the window is wide before time has passed               *)
(* (native_sync_flow.py:10-16).                                            *)
NoHotLoop == \A s \in Sids, c \in 1..Size : sends[s][c] <= Window

(* A session that the Hub takes in the end is stored to its last chunk,    *)
(* however often it was refused, put off or cut off before                 *)
(* (native_sync_flow.py:18-24, 142-146, 214-217).                          *)
EverySynced == \A s \in Sids : <>[](hub[s] = "takes") => <>(stored[s] = Size)

=============================================================================
