------------------------------- MODULE DataRanks -------------------------------
(***************************************************************************)
(* What the packer and the algorithms it packs with know of the trainer's  *)
(* data parallel ranks.                                                    *)
(***************************************************************************)

CONSTANTS
    SeqLen,      \* seq_len
    Workers      \* dp_world_size, num_train_workers
===============================================================================
