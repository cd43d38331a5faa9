------------------------------ MODULE MCTrainSink ------------------------------
(* TrainSink on a small instance: two groups of two, one of them scored as *)
(* a whole and with enough tokens for two batches, and two equal groups of *)
(* one.                                                                    *)
EXTENDS TrainSink

CONSTANTS t1, t2, t3, t4

MCGroups == {t1, t2, t3, t4}
MCSize == t1 :> 2 @@ t2 :> 2 @@ t3 :> 1 @@ t4 :> 1
MCTokens == t1 :> 1 @@ t2 :> 3 @@ t3 :> 2 @@ t4 :> 2
MCSymmetry == Permutations({t3, t4})
=============================================================================
