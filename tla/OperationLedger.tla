-------------------------- MODULE OperationLedger --------------------------
(***************************************************************************)
(* What the Hub and an Agent together promise a caller about operations,   *)
(* with neither connections nor crashes nor retries in sight: a submitted  *)
(* operation runs a bounded number of times, and the one verdict it gets   *)
(* is a claim about that execution.  OperationDelivery implements this.    *)
(***************************************************************************)
EXTENDS Naturals

CONSTANTS
    Ops,          \* operation identifiers
    Replayable,   \* operations that may be run again after an interruption
    MaxRuns,      \* how often those may run
    Verdicts,     \* what a row can say in the end
    AfterRun,     \* verdicts that claim that the operation ran
    BeforeRun,    \* verdicts that claim that it was stopped before it began
    OnRequest,    \* verdicts that need a caller's cancellation
    Revisable     \* verdicts that leave the outcome open for review

VARIABLES
    phase,     \* "none", "open", "review" or "settled"
    verdict,   \* "none" until the operation gets one
    asked,     \* a caller asked for the operation to be cancelled
    runs       \* how many times execution began

ledger == <<phase, verdict, asked, runs>>

Init ==
    /\ phase = [op \in Ops |-> "none"]
    /\ verdict = [op \in Ops |-> "none"]
    /\ asked = [op \in Ops |-> FALSE]
    /\ runs = [op \in Ops |-> 0]

Submit(op) ==
    /\ phase[op] = "none"
    /\ phase' = [phase EXCEPT ![op] = "open"]
    /\ UNCHANGED <<verdict, asked, runs>>

MaxRunsOf(op) == IF op \in Replayable THEN MaxRuns ELSE 1

(* Execution may outlive the row: a verdict does not stop it.              *)
Run(op) ==
    /\ phase[op] # "none"
    /\ runs[op] < MaxRunsOf(op)
    /\ runs' = [runs EXCEPT ![op] = @ + 1]
    /\ UNCHANGED <<phase, verdict, asked>>

Ask(op) ==
    /\ phase[op] = "open"
    /\ asked' = [asked EXCEPT ![op] = TRUE]
    /\ UNCHANGED <<phase, verdict, runs>>

(* A verdict is justified by the execution it speaks of; only an outcome   *)
(* left for review is ever replaced.                                       *)
Justified(op, v) ==
    /\ v \in AfterRun => runs[op] > 0
    /\ v \in BeforeRun /\ op \notin Replayable => runs[op] = 0
    /\ v \in OnRequest => asked'[op]

Conclude(op, v) ==
    /\ phase[op] \in {"open", "review"}
    /\ asked' \in {asked, [asked EXCEPT ![op] = TRUE]}
    /\ Justified(op, v)
    /\ verdict' = [verdict EXCEPT ![op] = v]
    /\ phase' = [phase EXCEPT ![op] = IF v \in Revisable THEN "review" ELSE "settled"]
    /\ UNCHANGED runs

Next ==
    \E op \in Ops :
        \/ Submit(op) \/ Run(op) \/ Ask(op)
        \/ \E v \in Verdicts : Conclude(op, v)

Spec == Init /\ [][Next]_ledger
=============================================================================
