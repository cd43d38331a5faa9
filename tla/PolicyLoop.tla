------------------------------ MODULE PolicyLoop ------------------------------
(***************************************************************************)
(* What the three processes of a run promise each other: training batches  *)
(* leave the orchestrator one at a time and in order, the trainer turns    *)
(* each batch that has been sent into one policy version, and inference    *)
(* only moves forward, to a version that has been trained.                 *)
(***************************************************************************)
EXTENDS Integers

CONSTANT MaxSteps

VARIABLES
    sent,     \* last batch handed to the trainer
    trained,  \* last step trained: its policy version
    version   \* policy version the inference servers sample from

vars == <<sent, trained, version>>

Init == sent = 0 /\ trained = 0 /\ version = 0

Send ==
    /\ sent < MaxSteps
    /\ sent' = sent + 1
    /\ UNCHANGED <<trained, version>>

Train ==
    /\ trained < sent
    /\ trained' = trained + 1
    /\ UNCHANGED <<sent, version>>

Adopt(v) ==
    /\ version < v /\ v <= trained
    /\ version' = v
    /\ UNCHANGED <<sent, trained>>

Next == Send \/ Train \/ \E v \in 1..MaxSteps : Adopt(v)

Spec == Init /\ [][Next]_vars
=============================================================================
