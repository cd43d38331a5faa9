-------------------------------- MODULE Packing --------------------------------
(***************************************************************************)
(* How the samples of one run become micro batches, one list per data      *)
(* parallel rank: prepare_batch (trainer/batch.py) and the balancing it    *)
(* calls (balanced_partition, trainer/utils.py).                           *)
(*                                                                         *)
(* A sample is [id, types, routed]: types has one entry per token, 0 for   *)
(* text and i for a placeholder of its i-th image; routed says whether it  *)
(* carries routed experts.  A micro batch is [samples, pad, dummy]: its    *)
(* samples, the padding tokens after them, and whether it is a zero-loss   *)
(* copy.  The per-token arrays are as long as types throughout.            *)
(***************************************************************************)
EXTENDS DataRanks, SeqTools

CONSTANTS
    PadTo,       \* pad_to_multiple_of
    Linear,      \* build_bin_cost: cost per token ...
    Quadratic    \* ... and per token pair

ASSUME PackingAssumption ==
    /\ {SeqLen, Workers, PadTo, Linear} \subseteq Nat \ {0}
    /\ Quadratic \in Nat

Size(sample) == Len(sample.types)

Multimodal(sample) == \E i \in 1..Size(sample) : sample.types[i] # 0

Sizes(samples) == [i \in 1..Len(samples) |-> Size(samples[i])]

Length(samples) == SumSeq(Sizes(samples))

BinCost(sizes) ==
    Linear * SumSeq(sizes) + Quadratic * SumSeq([i \in 1..Len(sizes) |-> sizes[i] * sizes[i]])

\* seq by decreasing key; equal keys keep their order.
Descending(seq, keys) ==
    LET before == {w \in (1..Len(seq)) \X (1..Len(seq)) :
                       \/ keys[w[1]] > keys[w[2]]
                       \/ keys[w[1]] = keys[w[2]] /\ w[1] < w[2]}
        order == InOrder(1..Len(seq), before)
    IN  [i \in 1..Len(seq) |-> seq[order[i]]]

-----------------------------------------------------------------------------
(* prepare_sample                                                          *)

\* Positions below the limit that belong to an image which crosses it.
CrossingImage(types) ==
    {i \in 1..SeqLen : types[i] # 0 /\ \E j \in (SeqLen + 1)..Len(types) : types[j] = types[i]}

CutPoint(types) ==
    IF CrossingImage(types) = {} THEN SeqLen ELSE Min(CrossingImage(types)) - 1

Truncate(sample) ==
    IF Size(sample) <= SeqLen THEN sample
    ELSE [sample EXCEPT !.types = SubSeq(@, 1, CutPoint(@))]

-----------------------------------------------------------------------------
(* packed_samples_into_micro_bs: a bin is a sequence of samples            *)

CanAdd(bin, sample) ==
    /\ ~Multimodal(bin[1]) /\ ~Multimodal(sample)
    /\ Length(bin) + Size(sample) <= SeqLen
    /\ bin[1].routed = sample.routed

FirstFit(bins, sample) ==
    LET fits == {b \in 1..Len(bins) : CanAdd(bins[b], sample)}
    IN  IF fits = {} THEN Append(bins, <<sample>>)
        ELSE [bins EXCEPT ![Min(fits)] = Append(@, sample)]

\* The next sample goes to the side that is lighter so far.
Lighter(sides, sample) ==
    IF BinCost(Sizes(sides.left)) <= BinCost(Sizes(sides.right))
    THEN [left |-> Append(sides.left, sample), right |-> sides.right]
    ELSE [left |-> sides.left, right |-> Append(sides.right, sample)]

\* The heaviest samples go first.
SplitByWorkload(bin) ==
    LET ranked == Descending(bin, [i \in 1..Len(bin) |-> BinCost(<<Size(bin[i])>>)])
        sides[i \in 0..Len(bin)] ==
            IF i = 0 THEN [left |-> <<>>, right |-> <<>>] ELSE Lighter(sides[i - 1], ranked[i])
    IN  sides[Len(bin)]

\* One round of _expand_bins_by_splitting: the heaviest bin of several
\* samples is split; nothing is left to split when there is none.
SplitHeaviest(bins) ==
    LET load(b) == BinCost(Sizes(bins[b]))
        several == {b \in 1..Len(bins) : Len(bins[b]) > 1}
        heaviest == CHOOSE b \in several :
                        \A c \in several : load(c) < load(b) \/ (load(c) = load(b) /\ c <= b)
        halves == SplitByWorkload(bins[heaviest])
    IN  IF several = {} THEN bins
        ELSE Append([bins EXCEPT ![heaviest] = halves.left], halves.right)

RoundUp(n) == ((n + Workers - 1) \div Workers) * Workers

Expand(bins, target) ==
    LET grown[i \in 0..target] ==
            IF i = 0 THEN bins
            ELSE LET bs == grown[i - 1] IN IF Len(bs) < target THEN SplitHeaviest(bs) ELSE bs
    IN  grown[target]

Bins(samples) ==
    LET ranked == Descending(samples, Sizes(samples))
        packed[i \in 0..Len(samples)] ==
            IF i = 0 THEN <<>> ELSE FirstFit(packed[i - 1], ranked[i])
        bins == packed[Len(samples)]
    IN  IF Workers > 1 THEN Expand(bins, RoundUp(Len(bins))) ELSE bins

\* _materialize_bin and pad_micro_batch.
MicroBatch(bin) ==
    [samples |-> bin, pad |-> (-Length(bin)) % PadTo, dummy |-> FALSE]

SequenceLengths(mb) ==
    Sizes(mb.samples) \o (IF mb.pad > 0 THEN <<mb.pad>> ELSE <<>>)

-----------------------------------------------------------------------------
(* balanced_partition: a subset is [total, items], a state a sequence of   *)
(* Workers subsets by decreasing total                                     *)

\* Order of _WeightedSet: subsets of different items never tie.
Heavier(s, t) == s.total > t.total \/ (s.total = t.total /\ s.items[1] > t.items[1])

Spread(state) == state[1].total - state[Workers].total

\* The state heapq pops first.
PopFirst(states) ==
    CHOOSE s \in states : \A t \in states \ {s} :
        Spread(s) > Spread(t) \/ (Spread(s) = Spread(t) /\ Heavier(s[1], t[1]))

\* Subsets by decreasing total.
Sorted(subsets) ==
    LET before == {w \in (1..Workers) \X (1..Workers) : Heavier(subsets[w[1]], subsets[w[2]])}
        order == InOrder(1..Workers, before)
    IN  [i \in 1..Workers |-> subsets[order[i]]]

\* The heaviest subset of one takes the lightest of the other.
MergeStates(s, t) ==
    Sorted([i \in 1..Workers |->
               [total |-> s[i].total + t[Workers + 1 - i].total,
                items |-> s[i].items \o t[Workers + 1 - i].items]])

\* Consecutive runs of Workers items by increasing weight, one per subset.
KKStates(weights) ==
    LET n == Len(weights)
        before == {w \in (1..n) \X (1..n) :
                       \/ weights[w[1]] < weights[w[2]]
                       \/ weights[w[1]] = weights[w[2]] /\ w[1] < w[2]}
        order == InOrder(1..n, before)
        subset(i) == [total |-> weights[i], items |-> <<i>>]
    IN  {Sorted([i \in 1..Workers |-> subset(order[Workers * b + i])]) :
            b \in 0..(n \div Workers - 1)}

MergeFirstTwo(states) ==
    LET s == PopFirst(states)
        t == PopFirst(states \ {s})
    IN  (states \ {s, t}) \cup {MergeStates(s, t)}

KarmarkarKarp(weights) ==
    LET rounds == Len(weights) \div Workers - 1
        states[i \in 0..rounds] ==
            IF i = 0 THEN KKStates(weights) ELSE MergeFirstTwo(states[i - 1])
        final == CHOOSE s \in states[rounds] : TRUE
        items(r) == ToSet(final[r].items)
    IN  [r \in 1..Workers |->
            InOrder(items(r), {w \in items(r) \X items(r) : w[1] < w[2]})]

Load(weights, part) == SumSeq([i \in 1..Len(part) |-> weights[part[i]]])

\* (largest load, largest - smallest) of a partition.
Score(weights, parts) ==
    LET loads == {Load(weights, parts[r]) : r \in 1..Workers}
    IN  <<Max(loads), Max(loads) - Min(loads)>>

Less(a, b) == a[1] < b[1] \/ (a[1] = b[1] /\ a[2] < b[2])

Swapped(parts, w) ==
    [parts EXCEPT ![w.l] = [@ EXCEPT ![w.i] = parts[w.r][w.j]],
                  ![w.r] = [@ EXCEPT ![w.j] = parts[w.l][w.i]]]

\* The first of the swaps that lower the score most, until none does.  Every
\* swap lowers the score, so that there are no more rounds than scores.
RefineBySwapping(weights, parts) ==
    LET n == Len(parts[1])
        Partitions == [1..Workers -> [1..n -> 1..Len(weights)]]
        swaps == {w \in [l : 1..Workers, r : 1..Workers, i : 1..n, j : 1..n] : w.l < w.r}
        place(w) == ((w.l * Workers + w.r) * n + w.i) * n + w.j
        score(p) == Score(weights, p)
        best(p) == CHOOSE w \in swaps : \A v \in swaps \ {w} :
                       \/ Less(score(Swapped(p, w)), score(Swapped(p, v)))
                       \/ score(Swapped(p, w)) = score(Swapped(p, v)) /\ place(w) < place(v)
        rounds == (SumSeq(weights) + 1) * (SumSeq(weights) + 1)
        refined[k \in 0..rounds] ==
            [p \in Partitions |->
                LET next == Swapped(p, best(p))
                IN  IF k = 0 \/ swaps = {} \/ ~Less(score(next), score(p)) THEN p
                    ELSE refined[k - 1][next]]
    IN  refined[rounds][parts]

BalancedPartition(weights) == RefineBySwapping(weights, KarmarkarKarp(weights))

-----------------------------------------------------------------------------
(* prepare_batch                                                           *)

PadGroup(group) ==
    IF group = <<>> THEN group
    ELSE group \o [i \in 1..(RoundUp(Len(group)) - Len(group)) |->
                    [group[1] EXCEPT !.dummy = TRUE]]

DistributeGroup(group) ==
    LET weights == Computed([i \in 1..Len(group) |-> BinCost(SequenceLengths(group[i]))])
        parts == BalancedPartition(weights)
    IN  IF group = <<>> THEN [r \in 1..Workers |-> <<>>]
        ELSE [r \in 1..Workers |-> [i \in 1..Len(parts[r]) |-> group[parts[r][i]]]]

\* The grid: for each rank, its micro batches in order.
PrepareBatch(samples) ==
    LET bins == Bins([i \in 1..Len(samples) |-> Truncate(samples[i])])
        batches == [b \in 1..Len(bins) |-> MicroBatch(bins[b])]
        images == {mb \in ToSet(batches) : Multimodal(mb.samples[1])}
        mm == DistributeGroup(PadGroup(Selected(batches, images)))
        text == DistributeGroup(PadGroup(Selected(batches, ToSet(batches) \ images)))
    IN  [r \in 1..Workers |-> mm[r] \o text[r]]

-----------------------------------------------------------------------------
(* What the ranks rely on                                                  *)

\* All ranks run equally many micro batches, and those they run together are
\* of one modality.
Aligned(grid) ==
    /\ \A r \in 1..Workers : Len(grid[r]) = Len(grid[1])
    /\ \A r \in 1..Workers, i \in 1..Len(grid[1]) :
            Multimodal(grid[r][i].samples[1]) = Multimodal(grid[1][i].samples[1])

\* A micro batch fits the sequence length and is padded as asked; all of its
\* samples carry routed experts or none, and one with images is alone.
WellFormed(mb) ==
    /\ mb.samples # <<>> /\ Length(mb.samples) <= SeqLen
    /\ SumSeq(SequenceLengths(mb)) % PadTo = 0
    /\ \A k, l \in 1..Len(mb.samples) : mb.samples[k].routed = mb.samples[l].routed
    /\ \A k \in 1..Len(mb.samples) : Multimodal(mb.samples[k]) => Len(mb.samples) = 1

\* Where samples are trained: rank, micro batch, position in it.
Trained(grid) ==
    LET cells == {c \in (1..Workers) \X (1..Len(grid[1])) : ~grid[c[1]][c[2]].dummy}
    IN  UNION {{<<c[1], c[2], k>> : k \in 1..Len(grid[c[1]][c[2]].samples)} : c \in cells}

\* Every sample, cut to the sequence length, is trained, and no sample is
\* trained twice.
TrainedOnce(samples, grid) ==
    LET at(c) == grid[c[1]][c[2]].samples[c[3]]
    IN  /\ \A n \in 1..Len(samples) : \E c \in Trained(grid) : at(c) = Truncate(samples[n])
        /\ \A c, d \in Trained(grid) : at(c).id = at(d).id => c = d

EvenGrid(samples, grid) ==
    /\ Len(grid[1]) > 0 /\ Aligned(grid) /\ TrainedOnce(samples, grid)
    /\ \A r \in 1..Workers, i \in 1..Len(grid[1]) : WellFormed(grid[r][i])
===============================================================================
