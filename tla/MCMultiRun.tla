------------------------------ MODULE MCMultiRun ------------------------------
EXTENDS PackedGrid

\* A step that takes two packs, then another, or one with an invalid sample.
MCBatches == <<{<<2, 1, 2>>}, {<<2, 1, 2>>, <<1, 3>>}>>

\* Samples of two tokens have an image.
MCContent == <<<<0>>, <<0, 1>>>>

-----------------------------------------------------------------------------
(* prepare_batch on every list of up to four of these samples              *)

Larger == INSTANCE Packing WITH SeqLen <- 4, PadTo <- 3, Linear <- 1, Quadratic <- 1

\* Text of several lengths, one of them too long, and images that fit, that
\* cross the sequence length, and that leave none behind when cut.
Kinds == {<<0>>, <<0, 0>>, <<0, 0, 0>>, <<0, 0, 0, 0, 0>>, <<0, 1, 1>>, <<0, 0, 0, 1, 1>>,
          <<0, 1, 0, 2, 2>>}

\* The grids of prepare_batch are even whatever samples a run writes.
ASSUME PreparedGridsEven ==
    \A n \in 1..4 : \A kind \in [1..n -> Kinds] :
        LET samples == [i \in 1..n |-> [id |-> i, types |-> kind[i], routed |-> i = 3]]
        IN  \E grid \in {Larger!PrepareBatch(samples)} : Larger!EvenGrid(samples, grid)
===============================================================================
