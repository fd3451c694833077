------------------------------ MODULE MCSafety ------------------------------
(* Four components that share no state, in one run: each behaviour is one   *)
(* of the component that scope names, and the others stand still.           *)
EXTENDS KeyRotation, StoreReads, IncomingUpload, OrderedDelivery

CONSTANTS d1, d2

VARIABLE scope

all == <<scope, vars, readsVars, uploadVars, dispatchVars>>

----------------------------------------------------------------------------
(* Two devices and three operations.                                        *)
MCDevices == {d1, d2}
MCIds     == 1..3
MCDevice  == [i \in MCIds |-> IF i = 2 THEN d2 ELSE d1]

----------------------------------------------------------------------------
Keyring(A)   == scope = "keys"     /\ A /\ UNCHANGED <<scope, readsVars, uploadVars, dispatchVars>>
Reading(A)   == scope = "reads"    /\ A /\ UNCHANGED <<scope, vars, uploadVars, dispatchVars>>
Uploading(A) == scope = "uploads"  /\ A /\ UNCHANGED <<scope, vars, readsVars, dispatchVars>>
Dispatch(A)  == scope = "dispatch" /\ A /\ UNCHANGED <<scope, vars, readsVars, uploadVars>>

(* A component that stands still has one of its initial states.             *)
MCInit ==
    /\ scope \in {"keys", "reads", "uploads", "dispatch"}
    /\ Init /\ (scope # "keys" => legacy = CHOOSE k \in Keys : TRUE)
    /\ ReadsInit
    /\ UploadsInit
    /\ DispatchInit

MCNext ==
    Keyring(Next) \/ Reading(ReadsNext) \/ Uploading(UploadsNext) \/ Dispatch(DispatchNext)

MCSpec == MCInit /\ [][MCNext]_all

=============================================================================
