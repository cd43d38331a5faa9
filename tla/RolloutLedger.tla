----------------------------- MODULE RolloutLedger -----------------------------
(***************************************************************************)
(* What the dispatcher promises the sinks that read out_q: a group it has  *)
(* opened arrives as exactly Size[g] rollouts, no matter how many of them  *)
(* fail or are cancelled, so a sink may count a group's arrivals to know   *)
(* that it is complete.  The orchestrator may give up the train groups     *)
(* (end of training) or everything (shutdown); a group given up may stay   *)
(* short, but no group ever exceeds its size.                              *)
(***************************************************************************)
EXTENDS Integers

CONSTANTS Groups, TrainGroups, Size

VARIABLES
    accepted,   \* groups opened so far
    delivered,  \* rollouts of each group put on the queue
    givenUp     \* what the orchestrator has given up: none, train, all

vars == <<accepted, delivered, givenUp>>

Init ==
    /\ accepted = {}
    /\ delivered = [g \in Groups |-> 0]
    /\ givenUp = "none"

GivenUp(g) == givenUp = "all" \/ (givenUp = "train" /\ g \in TrainGroups)

Accept(g) ==
    /\ g \notin accepted
    /\ accepted' = accepted \cup {g}
    /\ UNCHANGED <<delivered, givenUp>>

\* n rollouts of one group arrive together.
Deliver(g, n) ==
    /\ g \in accepted
    /\ delivered[g] + n <= Size[g]
    /\ delivered' = [delivered EXCEPT ![g] = @ + n]
    /\ UNCHANGED <<accepted, givenUp>>

GiveUp ==
    /\ \/ givenUp = "none" /\ givenUp' = "train"
       \/ givenUp # "all" /\ givenUp' = "all"
    /\ UNCHANGED <<accepted, delivered>>

Next ==
    \/ \E g \in Groups : Accept(g) \/ \E n \in 1..Size[g] : Deliver(g, n)
    \/ GiveUp

Spec == Init /\ [][Next]_vars

\* Every accepted group is settled: all its rollouts arrive, unless it is
\* given up.
AllSettled ==
    \A g \in Groups :
        g \in accepted ~> delivered[g] = Size[g] \/ GivenUp(g)
=============================================================================
