----------------------------- MODULE MCLiveness -----------------------------
(* Four components that share no state, in one run: each behaviour is one  *)
(* of the component that scope names, and the others stand still.           *)
EXTENDS AdaptiveCapacity, SendLock, DotOutbox, OrderedDelivery

CONSTANT d1

VARIABLE scope

all == <<scope, capacityVars, gateVars, outboxVars, dispatchVars>>

----------------------------------------------------------------------------
(* The values of the capacity instance: an adaptive range and a fixed      *)
(* limit; every class of sample, with the ceilings of a small and of a      *)
(* large machine.                                                           *)
Adaptive(low, start, high, adaptive) ==
    [minimum |-> low, initial |-> start, maximum |-> high, adaptive |-> adaptive]
Measured(kind, safe, ceiling) == [kind |-> kind, safe |-> safe, ceiling |-> ceiling]

MCConfigs == {Adaptive(2, 6, 9, TRUE), Adaptive(2, 5, 9, FALSE)}

MCSamples ==
    {Measured("unmetered", FALSE, 0), Measured("critical", FALSE, 0),
     Measured("high", FALSE, 1), Measured("high", TRUE, 1),
     Measured("middling", FALSE, 2), Measured("middling", TRUE, 2),
     Measured("healthy", TRUE, 2), Measured("healthy", TRUE, 20)}

(* One device with more operations than slots.                              *)
MCIds    == 1..3
MCDevice == [i \in MCIds |-> d1]

----------------------------------------------------------------------------
Capacity(A) == scope = "capacity" /\ A /\ UNCHANGED <<scope, gateVars, outboxVars, dispatchVars>>
Gate(A)     == scope = "gate"     /\ A /\ UNCHANGED <<scope, capacityVars, outboxVars, dispatchVars>>
Outbox(A)   == scope = "outbox"   /\ A /\ UNCHANGED <<scope, capacityVars, gateVars, dispatchVars>>
Dispatch(A) == scope = "dispatch" /\ A /\ UNCHANGED <<scope, capacityVars, gateVars, outboxVars>>

(* A component that stands still has one of its initial states.             *)
MCInit ==
    /\ scope \in {"capacity", "gate", "outbox", "dispatch"}
    /\ CapacityInit /\ (scope # "capacity" => config = CHOOSE c \in Configs : TRUE)
    /\ GateInit
    /\ OutboxInit
    /\ DispatchInit

MCNext ==
    Capacity(CapacityNext) \/ Gate(GateNext) \/ Outbox(OutboxNext) \/ Dispatch(DispatchNext)

(* The fairness of each component, in its own behaviours.                   *)
MCFairness ==
    /\ WF_all(Capacity(Tick)) /\ WF_all(Capacity(SafeUpdate)) /\ <>[][~Disturbed]_capacityVars
    /\ \A s \in Senders :
        WF_all(Gate(Resume(s) \/ ThrowOwning(s) \/ ThrowWaiting(s) \/ LeaveGate(s)))
    /\ WF_all(Outbox(TimePasses))
    /\ \A h \in Hosts : WF_all(Outbox(Proceeds(h)))
    /\ \A e \in Entries : WF_all(Outbox(Asked(e)))
    /\ WF_all(Dispatch(Look \/ Query \/ Start \/ Again))
    /\ \A i \in Ids : WF_all(Dispatch(Acquire(i) \/ Granted(i) \/ Thrown(i) \/ Prepare(i)))
    /\ \A d \in Devices :
        WF_all(Dispatch(\/ Enter(d) \/ HeadReady(d) \/ HeadCancelled(d) \/ Sent(d)
                        \/ SendFails(d) \/ Failed(d) \/ Interrupted(d) \/ CleanedUp(d)))

MCSpec == MCInit /\ [][MCNext]_all /\ MCFairness

=============================================================================
