------------------------------ MODULE DotOutbox ------------------------------
(***************************************************************************)
(* The durable outbox of a dot's messages and updates (class DotOutbox in  *)
(* src/shared/dot_outbox.py): a body is kept until the authoritative       *)
(* receipt of its commit has been read.                                    *)
(*                                                                         *)
(* Several host processes may deliver from one database.  A claim leases   *)
(* the lane; a process that stalls longer than its lease goes on from      *)
(* where it stood when a successor has claimed the lane.  Each claim draws *)
(* a fresh owner and fence; the process that holds it stands for the pair, *)
(* and it keeps nothing from one claim to the next.                        *)
(*                                                                         *)
(* Deadlines are kept as the ticks that are left.                          *)
(***************************************************************************)
EXTENDS Naturals, FiniteSets

CONSTANTS
    Entries,     \* idempotency keys of one lane
    Hosts,       \* processes that deliver
    Budget,      \* the 6 sends of an entry
    Lease,       \* timeout_seconds + 15, in ticks
    Backoff,     \* the delays of 5, 30 and more seconds, in ticks
    Retention,   \* retention_seconds, in ticks
    None

States   == {"pending", "checking_receipt", "sending", "committed", "attention"}
Places   == {"lookup", "mark", "send", "confirm", "end"}
EntryRec == [state : States, attempts : Nat, wait : Nat, left : Nat, owner : Hosts \cup {None}]
ClaimRec == [entry : Entries, attempts : Nat, pc : Places]

ASSUME OutboxAssumption ==
    /\ IsFiniteSet(Hosts)
    /\ {Budget, Lease, Backoff, Retention} \subseteq Nat
    /\ None \notin EntryRec \cup ClaimRec \cup Hosts

VARIABLES
    entry,       \* dot_outbox_entries: [state, attempts, wait, left, owner], or None
    lane,        \* dot_outbox_lanes: [owner, left]
    claim,       \* what each process is doing: [entry, attempts, pc], or None
    wire,        \* requests sent and not yet handled
    remote,      \* what the Hub has under the key: "absent", "same" or "other"
    sent         \* history: sends begun since the entry was made

outboxVars == <<entry, lane, claim, wire, remote, sent>>

Terminal == {"committed", "attention"}

OutboxInit ==
    /\ entry = [e \in Entries |-> None]
    /\ lane = [owner |-> None, left |-> 0]
    /\ claim = [h \in Hosts |-> None]
    /\ wire = {}
    /\ remote = [e \in Entries |-> "absent"]
    /\ sent = [e \in Entries |-> 0]

World == <<wire, remote>>

----------------------------------------------------------------------------
(* enqueue; the same key again changes nothing.                            *)
Enqueue(e) ==
    /\ entry[e] = None
    /\ entry' = [entry EXCEPT ![e] = [state |-> "pending", attempts |-> 0, wait |-> 0,
                                      left |-> Retention, owner |-> None]]
    /\ sent' = [sent EXCEPT ![e] = 0]
    /\ UNCHANGED <<lane, claim, World>>

Deliverable(e) == entry[e] # None /\ entry[e].state \notin Terminal /\ entry[e].wait = 0

GiveUpPending(e) ==   \* mutant of GiveUp: an entry that was claimed before never expires
    /\ Deliverable(e) /\ entry[e].left = 0 /\ entry[e].state = "pending"
    /\ entry' = [entry EXCEPT ![e].state = "attention"]
    /\ UNCHANGED <<lane, claim, World, sent>>

(* _claim: an entry past its retention is left to the user.                *)
GiveUp(e) ==
    /\ Deliverable(e) /\ entry[e].left = 0
    /\ entry' = [entry EXCEPT ![e].state = "attention"]
    /\ UNCHANGED <<lane, claim, World, sent>>

Claim(h, e) ==
    /\ claim[h] = None /\ Deliverable(e) /\ entry[e].left > 0
    /\ lane.left = 0
    /\ lane' = [owner |-> h, left |-> Lease]
    /\ entry' = [entry EXCEPT ![e].state = "checking_receipt", ![e].owner = h]
    /\ claim' = [claim EXCEPT ![h] = [entry |-> e, attempts |-> entry[e].attempts,
                                      pc |-> "lookup"]]
    /\ UNCHANGED <<World, sent>>

Doing(h, pc) == claim[h] # None /\ claim[h].pc = pc
Goes(h, pc)  == claim' = [claim EXCEPT ![h].pc = pc]
Mine(h)      == entry[claim[h].entry] # None /\ entry[claim[h].entry].owner = h

(* _state: only under a lease of the lane that is this claim's and current.*)
Current(h) == lane.owner = h /\ lane.left > 0

Becomes(h, state, wait) ==
    IF Mine(h)
    THEN entry' = [entry EXCEPT ![claim[h].entry].state = state, ![claim[h].entry].wait = wait]
    ELSE UNCHANGED entry

State(h, state, wait) ==
    /\ Current(h)
    /\ Becomes(h, state, wait)
    /\ Goes(h, "end")

(* _error_state: an expired lease may still record what happened, unless a *)
(* successor holds the lane.                                               *)
ErrorStateAnyway(h, state, wait) ==   \* mutant of ErrorState: by the entry alone
    /\ entry[claim[h].entry] # None
    /\ entry' = [entry EXCEPT ![claim[h].entry].state = state, ![claim[h].entry].wait = wait]

ErrorState(h, state, wait) ==
    IF lane.owner = h THEN Becomes(h, state, wait) ELSE UNCHANGED entry

----------------------------------------------------------------------------
(* deliver, one await at a time.  lookup may also answer that it does not  *)
(* know.                                                                   *)
FoundCommitted(h) ==
    /\ Doing(h, "lookup") \/ Doing(h, "confirm")
    /\ remote[claim[h].entry] = "same"
    /\ State(h, "committed", 0)
    /\ UNCHANGED <<lane, World, sent>>

FoundOther(h) ==
    /\ Doing(h, "lookup") /\ remote[claim[h].entry] = "other"
    /\ State(h, "attention", 0)
    /\ UNCHANGED <<lane, World, sent>>

FoundUnclear(h) ==
    /\ \/ Doing(h, "lookup")
       \/ Doing(h, "confirm") /\ remote[claim[h].entry] # "same"
    /\ State(h, "checking_receipt", Backoff)
    /\ UNCHANGED <<lane, World, sent>>

FoundAbsent(h) ==
    /\ Doing(h, "lookup") /\ remote[claim[h].entry] = "absent"
    /\ IF claim[h].attempts >= Budget
       THEN State(h, "attention", 0)
       ELSE Goes(h, "mark") /\ UNCHANGED entry
    /\ UNCHANGED <<lane, World, sent>>

MarkSendingStale(h) ==   \* mutant of MarkSending: does not look at the lease again
    /\ Doing(h, "mark")
    /\ IF Mine(h)
       THEN entry' = [entry EXCEPT ![claim[h].entry].state = "sending",
                                   ![claim[h].entry].attempts = @ + 1]
       ELSE UNCHANGED entry
    /\ Goes(h, "send")
    /\ UNCHANGED <<lane, World, sent>>

MarkSending(h) ==
    /\ Doing(h, "mark") /\ Current(h)
    /\ IF Mine(h)
       THEN entry' = [entry EXCEPT ![claim[h].entry].state = "sending",
                                   ![claim[h].entry].attempts = @ + 1]
       ELSE UNCHANGED entry
    /\ Goes(h, "send")
    /\ UNCHANGED <<lane, World, sent>>

(* The request leaves; whether it arrives is not known here.               *)
Send(h) ==
    /\ Doing(h, "send")
    /\ wire' = wire \cup {claim[h].entry}
    /\ sent' = [sent EXCEPT ![claim[h].entry] = @ + 1]
    /\ Goes(h, "confirm")
    /\ UNCHANGED <<entry, lane, remote>>

(* A timeout, a lost connection, a cancellation, or a transient error.     *)
Uncertain(h) ==
    /\ claim[h] # None /\ claim[h].pc # "end"
    /\ ErrorState(h, "checking_receipt", Backoff)
    /\ Goes(h, "end")
    /\ UNCHANGED <<lane, World, sent>>

(* A refusal that is final, or a fence that is lost.                       *)
Denied(h) ==
    /\ claim[h] # None /\ claim[h].pc # "end"
    /\ ErrorState(h, "attention", Backoff)
    /\ Goes(h, "end")
    /\ UNCHANGED <<lane, World, sent>>

FenceLost(h) ==
    /\ claim[h] # None /\ claim[h].pc \in {"lookup", "mark", "confirm"} /\ ~Current(h)
    /\ ErrorState(h, "attention", Backoff)
    /\ Goes(h, "end")
    /\ UNCHANGED <<lane, World, sent>>

(* finally: gives the lane back, if it still has it.                       *)
End(h) ==
    /\ Doing(h, "end")
    /\ lane' = IF lane.owner = h THEN [lane EXCEPT !.left = 0] ELSE lane
    /\ claim' = [claim EXCEPT ![h] = None]
    /\ UNCHANGED <<entry, World, sent>>

Dies(h) ==
    /\ claim[h] # None
    /\ claim' = [claim EXCEPT ![h] = None]
    /\ UNCHANGED <<entry, lane, World, sent>>

(* purge_committed: only what was confirmed.                               *)
Purge(e) ==
    /\ entry[e] # None /\ entry[e].state = "committed"
    /\ entry' = [entry EXCEPT ![e] = None]
    /\ UNCHANGED <<lane, claim, World, sent>>

----------------------------------------------------------------------------
(* The other side commits a key once; someone else may have used the key.  *)
Arrives(e) ==
    /\ e \in wire
    /\ wire' = wire \ {e}
    /\ remote' = [remote EXCEPT ![e] = IF @ = "absent" THEN "same" ELSE @]
    /\ UNCHANGED <<entry, lane, claim, sent>>

Lost(e) ==
    /\ e \in wire
    /\ wire' = wire \ {e}
    /\ UNCHANGED <<entry, lane, claim, remote, sent>>

Taken(e) ==
    /\ remote[e] = "absent"
    /\ remote' = [remote EXCEPT ![e] = "other"]
    /\ UNCHANGED <<entry, lane, claim, wire, sent>>

Less(n) == IF n = 0 THEN 0 ELSE n - 1

TimePasses ==
    /\ entry' = [e \in Entries |->
                    IF entry[e] = None THEN None
                    ELSE [entry[e] EXCEPT !.wait = Less(@), !.left = Less(@)]]
    /\ lane' = [lane EXCEPT !.left = Less(@)]
    /\ <<entry', lane'>> # <<entry, lane>>
    /\ UNCHANGED <<claim, World, sent>>

Asked(e) == GiveUp(e) \/ \E h \in Hosts : Claim(h, e)

Proceeds(h) ==
    \/ FoundCommitted(h) \/ FoundOther(h) \/ FoundUnclear(h) \/ FoundAbsent(h)
    \/ MarkSending(h) \/ Send(h) \/ Uncertain(h) \/ Denied(h) \/ FenceLost(h) \/ End(h)

OutboxNext ==
    \/ \E e \in Entries :
        Enqueue(e) \/ Asked(e) \/ Purge(e) \/ Arrives(e) \/ Lost(e) \/ Taken(e)
    \/ \E h \in Hosts : Proceeds(h) \/ Dies(h)
    \/ TimePasses

OutboxSpec == OutboxInit /\ [][OutboxNext]_outboxVars

(* Time passes; a process that delivers gets on, if only by its timeout;   *)
(* and the host asks again for every entry that is not settled.            *)
OutboxFairness ==
    /\ WF_outboxVars(TimePasses)
    /\ \A h \in Hosts : WF_outboxVars(Proceeds(h))
    /\ \A e \in Entries : WF_outboxVars(Asked(e))

----------------------------------------------------------------------------
OutboxTypeOK ==
    /\ entry \in [Entries -> EntryRec \cup {None}]
    /\ lane \in [owner : Hosts \cup {None}, left : Nat]
    /\ claim \in [Hosts -> ClaimRec \cup {None}]
    /\ wire \subseteq Entries
    /\ remote \in [Entries -> {"absent", "same", "other"}]
    /\ sent \in [Entries -> Nat]

(* The outbox forgets nothing: an entry counts as committed only when this *)
(* very body is committed on the other side, a late writer never takes     *)
(* that back, and only a committed body is ever removed                    *)
(* (dot_outbox.py:176-195, 223-244, 271-276).                              *)
CommittedIsTrue ==
    [][\A e \in Entries :
          /\ (entry'[e] # None /\ entry'[e].state = "committed") => remote'[e] = "same"
          /\ (entry[e] # None /\ entry[e].state = "committed") =>
                entry'[e] = None \/ entry'[e].state = "committed"
          /\ (entry[e] # None /\ entry'[e] = None) => remote[e] = "same"]_outboxVars

(* However the leases expire and the processes stall and die, an entry is  *)
(* sent at most as often as its budget says (dot_outbox.py:229-238).       *)
WithinBudget == \A e \in Entries : sent[e] <= Budget

(* Every entry is confirmed or handed to the user in the end, whatever the *)
(* network loses and whoever dies in the middle                            *)
(* (dot_outbox.py:156-161, 247-259).                                       *)
Settled(e) == entry[e] = None \/ entry[e].state \in Terminal

EverySettles == \A e \in Entries : (entry[e] # None) ~> Settled(e)

=============================================================================
