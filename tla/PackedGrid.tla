------------------------------ MODULE PackedGrid ------------------------------
(***************************************************************************)
(* The micro batches that MultiPacker.pack (trainer/rl/packer.py) sends:   *)
(* MultiRun's selected samples, packed for each run on its own by Packing  *)
(* and merged into one grid.                                               *)
(***************************************************************************)
EXTENDS MultiRun, Packing

CONSTANTS
    Content      \* per length, the token types of a sample of that length

ASSUME ContentAssumption ==
    /\ Content \in Seq(Seq(Nat)) /\ Len(Content) >= SeqLen
    /\ \A n \in 1..SeqLen : Len(Content[n]) = n

\* The samples pack() took from a slot, as prepare_batch gets them.
Rollouts(s) ==
    LET taken == Taken(selected, s)
    IN  [i \in 1..Len(taken) |->
            [id |-> taken[i][2], types |-> Content[taken[i][2].len], routed |-> FALSE]]

\* Mutant: micro batches are dealt out in turn, without padding the last round.
GridDealt ==
    LET bins == FlattenSeq([i \in 1..MaxRuns |-> Bins(Rollouts(i - 1))])
        dealt(r) == SetToSortSeq({b \in 1..Len(bins) : b % Workers = r - 1}, <)
    IN  [r \in 1..Workers |->
            [i \in 1..Len(dealt(r)) |-> MicroBatch(bins[dealt(r)[i]])]]

\* Runs follow each other in the list of each rank, by slot.
Grid ==
    LET parts == [i \in 1..MaxRuns |->
                    IF Rollouts(i - 1) = <<>> THEN [r \in 1..Workers |-> <<>>]
                    ELSE PrepareBatch(Rollouts(i - 1))]
    IN  [r \in 1..Workers |-> FlattenSeq([i \in 1..MaxRuns |-> parts[i][r]])]

\* However the round robin mixes runs and splits their steps, the ranks get
\* equally many micro batches, of one modality at each index, and every
\* selected sample is in one of them that is trained: a rank with one more
\* micro batch, or another modality, hangs the collective (pack,
\* prepare_batch).
GridEven ==
    pc = "train" =>
        \E grid \in {Grid} :
            EvenGrid(FlattenSeq([i \in 1..MaxRuns |-> Rollouts(i - 1)]), grid)
===============================================================================
