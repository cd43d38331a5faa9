-------------------------------- MODULE SftData --------------------------------
(***************************************************************************)
(* The data of the SFT trainer (trainer/sft/data.py): every data rank      *)
(* reads the same endless stream of examples, takes those that are its     *)
(* own, and packs them by concatenation (CatDataset) or by stacking        *)
(* samples of similar size in buckets (StackDataset); and how the loaders  *)
(* are saved and restored with the weights (trainer/sft/train.py,          *)
(* trainer/ckpt.py).                                                       *)
(*                                                                         *)
(* The packers are generators: the code after a yield runs when the next   *)
(* batch is asked for, and a checkpoint is written while they are          *)
(* suspended.  The order of the examples in an epoch depends on the seed   *)
(* and the epoch's number only, so a position in the stream stands for     *)
(* the sample that is read there.  A step has one micro batch.             *)
(* torchdata's StatefulDataLoader, which calls state_dict and              *)
(* load_state_dict, is taken to save and restore what they return.         *)
(***************************************************************************)
EXTENDS SeqTools, FiniteSets

CONSTANTS
    World,       \* data_world_size
    Sizes,       \* bucket_sizes: each twice the one before
    Timeout,     \* STACKING_DATASET_BUCKET_TIMEOUT
    Lengths,     \* lengths of samples; 0: _process drops the example
    Packings,    \* pack_function
    MaxPosition, \* bound: positions of the stream
    MaxRestarts  \* bound: restarts

ASSUME SftAssumption ==
    /\ World \in Nat \ {0}
    /\ Sizes \in Seq(Nat \ {0}) /\ Sizes # <<>>
    /\ \A b \in 1..(Len(Sizes) - 1) : Sizes[b + 1] = 2 * Sizes[b]
    /\ {Timeout, MaxPosition, MaxRestarts} \subseteq Nat
    /\ Lengths \subseteq Nat
    /\ Packings \subseteq {"cat", "stack"}

VARIABLES
    packing,
    length,      \* per position, the length of the sample
    \* per rank: what state_dict returns
    loader,      \* [step, buckets, timers, batches]; without the last three for cat
    \* per rank: what it does not
    packed,      \* packed_samples of CatDataset
    batch,       \* the batch yielded and not trained yet, 0 for a dummy sample
    yielded,     \* the bucket StackDataset's generator is suspended with; 0: none
    \* checkpoint and history
    saved,       \* loaders and trained samples of the last checkpoint
    trained,     \* per rank, the samples the weights were trained on
    restarts

sftVars == <<packing, length, loader, packed, batch, yielded, saved, trained, restarts>>

Ranks == 0..(World - 1)
Buckets == 1..Len(Sizes)
MaxArea == Last(Sizes)
None == -1

FreshLoader ==
    [step |-> 0, buckets |-> [b \in Buckets |-> <<>>],
     timers |-> [b \in Buckets |-> None], batches |-> 0]

SftInit ==
    /\ packing \in Packings
    /\ length \in [1..MaxPosition -> Lengths]
    /\ loader = [r \in Ranks |-> FreshLoader]
    /\ packed = [r \in Ranks |-> <<>>]
    /\ batch = [r \in Ranks |-> <<>>]
    /\ yielded = [r \in Ranks |-> 0]
    /\ trained = [r \in Ranks |-> <<>>]
    /\ saved = <<>>
    /\ restarts = 0

-----------------------------------------------------------------------------
(* SFTDataset                                                              *)

\* What a rank yields of the stream: its share, where it can be trained on.
Own(r) == {p \in 1..MaxPosition : (p - 1) % World = r /\ length[p] > 0}

Unread(r) == {p \in Own(r) : p > loader[r].step}

-----------------------------------------------------------------------------
(* CatDataset                                                              *)

Area(samples) == SumSeq([i \in 1..Len(samples) |-> length[samples[i]]])

ReadCat(r, p) ==
    LET samples == Append(packed[r], p)
        full == Area(samples) >= MaxArea
    IN  /\ loader' = [loader EXCEPT ![r].step = p]
        /\ packed' = [packed EXCEPT ![r] = IF full THEN <<>> ELSE samples]
        /\ batch' = [batch EXCEPT ![r] = IF full THEN samples ELSE <<>>]
        /\ UNCHANGED yielded

-----------------------------------------------------------------------------
(* StackDataset                                                            *)

\* A sample longer than the area is cut; the last bucket takes it.
BucketOf(p) == Min({b \in Buckets : Sizes[b] >= length[p]} \cup {Len(Sizes)})

\* The code after the yield.
Resumed(ld, b) ==
    IF b = 0 THEN ld
    ELSE [ld EXCEPT !.batches = @ + 1, !.buckets[b] = <<>>, !.timers[b] = None]

Capacity(b) == MaxArea \div Sizes[b]

\* Buckets b..k, the largest first.
Merged(buckets, b, k) == FlattenSeq([i \in 1..(k - b + 1) |-> buckets[k + 1 - i]])

\* Mutant: a bucket is merged into the next one even if that overflows.
YieldedFromUnchecked(buckets, b) == Len(Sizes)

\* Where the samples of a bucket that timed out end up: in the largest bucket
\* they can be moved to, merged with what is on the way, without filling it.
YieldedFrom(buckets, b) ==
    Max({k \in b..Len(Sizes) :
            \A j \in (b + 1)..k : Len(Merged(buckets, b, j)) < Capacity(j)})

Padded(samples, k) ==
    samples \o [i \in 1..(Capacity(k) - Len(samples)) |-> 0]

ReadStack(r, p) ==
    LET before == Resumed(loader[r], yielded[r])
        b == BucketOf(p)
        ld == [before EXCEPT !.step = p, !.buckets[b] = Append(@, p)]
        timedOut == ld.timers[b] # None /\ ld.timers[b] + Timeout < ld.batches
        full == Len(ld.buckets[b]) >= Capacity(b)
        k == IF timedOut THEN YieldedFrom(ld.buckets, b) ELSE b
        samples == Merged(ld.buckets, b, k)
        content == IF timedOut THEN Padded(samples, k) ELSE samples
    IN  /\ IF full \/ timedOut
           THEN /\ loader' = [loader EXCEPT ![r] =
                        [ld EXCEPT
                            !.buckets = [j \in Buckets |->
                                IF j = k THEN content ELSE IF j \in b..k THEN <<>> ELSE @[j]],
                            !.timers = [j \in Buckets |->
                                IF j \in b..(k - 1) THEN None ELSE @[j]]]]
                /\ batch' = [batch EXCEPT ![r] = content]
                /\ yielded' = [yielded EXCEPT ![r] = k]
           ELSE /\ loader' = [loader EXCEPT ![r] =
                        [ld EXCEPT !.timers[b] = IF @ = None THEN ld.batches ELSE @]]
                /\ yielded' = [yielded EXCEPT ![r] = 0]
                /\ UNCHANGED batch
        /\ UNCHANGED packed

-----------------------------------------------------------------------------
(* The trainer                                                             *)

\* A rank that waits for its batch reads its next sample.
Read(r) ==
    /\ batch[r] = <<>> /\ Unread(r) # {}
    /\ LET p == Min(Unread(r))
       IN  IF packing = "cat" THEN ReadCat(r, p) ELSE ReadStack(r, p)
    /\ UNCHANGED <<packing, length, saved, trained, restarts>>

\* A step of all ranks, and the checkpoint that may follow it.
TrainStep ==
    /\ \A r \in Ranks : batch[r] # <<>>
    /\ trained' = [r \in Ranks |-> trained[r] \o batch[r]]
    /\ batch' = [r \in Ranks |-> <<>>]
    /\ \/ UNCHANGED saved
       \/ saved' = <<[loader |-> loader, trained |-> trained']>>
    /\ UNCHANGED <<packing, length, loader, packed, yielded, restarts>>

\* Mutant: only the position in the stream is restored.
LoadedPosition(ld) == [FreshLoader EXCEPT !.step = ld.step]

\* load_state_dict: the position, and the buckets with their timers.
LoadedState(ld) == ld

\* The trainer starts again from the last checkpoint, with new generators.
Restart ==
    /\ restarts < MaxRestarts /\ restarts' = restarts + 1
    /\ saved # <<>>
    /\ loader' = [r \in Ranks |-> LoadedState(saved[1].loader[r])]
    /\ trained' = saved[1].trained
    /\ packed' = [r \in Ranks |-> <<>>]
    /\ batch' = [r \in Ranks |-> <<>>]
    /\ yielded' = [r \in Ranks |-> 0]
    /\ UNCHANGED <<packing, length, saved>>

SftNext == TrainStep \/ Restart \/ \E r \in Ranks : Read(r)

SftSpec == SftInit /\ [][SftNext]_sftVars

-----------------------------------------------------------------------------
(* Properties                                                              *)

\* StackDataset saves the bucket it has just yielded as if it were still to
\* be trained on: its loader is exact until the first restart only.
LoaderExact == packing = "cat" \/ restarts = 0

Samples == 0..MaxPosition

\* Types; no bucket holds more than its area has room for, and a batch that
\* is yielded fills it.
SftTypeOK ==
    /\ packing \in Packings /\ length \in [1..MaxPosition -> Lengths]
    /\ restarts \in 0..MaxRestarts
    /\ loader \in [Ranks -> [step : 0..MaxPosition, buckets : [Buckets -> Seq(Samples)],
                             timers : [Buckets -> Nat \cup {None}], batches : Nat]]
    /\ {packed, batch, trained} \subseteq [Ranks -> Seq(Samples)]
    /\ yielded \in [Ranks -> 0..Len(Sizes)]
    /\ Len(saved) <= 1
    /\ LoaderExact => \A r \in Ranks :
          /\ \A b \in Buckets : Len(loader[r].buckets[b]) <= Capacity(b)
          /\ packing = "stack" /\ batch[r] # <<>> => Len(batch[r]) = Capacity(yielded[r])
          /\ Area(packed[r]) < MaxArea

Positions(p, samples) == {i \in 1..Len(samples) : samples[i] = p}

\* Where a sample that was read is: in the weights, in the batch to come, or
\* in what the packer holds back.
Places(r, p) ==
    ({<<"trained", 0>>} \X Positions(p, trained[r]))
    \cup ({<<"batch", 0>>} \X Positions(p, batch[r]))
    \cup ({<<"packed", 0>>} \X Positions(p, packed[r]))
    \cup UNION {{<<"bucket", b>>} \X Positions(p, loader[r].buckets[b]) :
                    b \in Buckets \ {yielded[r]}}

\* Through restarts, every sample a rank has read is trained into the weights
\* or still to be, and exactly once: neither the samples that wait in a packer
\* are lost with the process nor is the batch of the checkpoint's own step
\* trained again (__iter__, state_dict, load_state_dict).  Stacked batches are
\* trained again after a restart, but not lost.
SamplesOnce ==
    \A r \in Ranks : \A p \in Own(r) :
        p <= loader[r].step =>
            IF LoaderExact THEN Cardinality(Places(r, p)) = 1 ELSE Places(r, p) # {}
===============================================================================
