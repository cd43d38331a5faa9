------------------------------- MODULE TrainSink -------------------------------
(***************************************************************************)
(* What becomes of a train rollout that leaves out_q: TrainSink            *)
(* (orchestrator/train_sink.py) builds groups and training batches, and    *)
(* the main loop ships them (finalize_train_batch).                        *)
(*                                                                         *)
(* The environment is what RolloutLedger promises: a group delivers its    *)
(* Size rollouts one by one, in any interleaving with other groups, any of *)
(* them with an error.  Only the main loop touches the sink, one rollout   *)
(* at a time: an action is one iteration of main_loop.  A rollout is       *)
(* <<group, arrival number>>; the unit of batches is chosen in Init.       *)
(***************************************************************************)
EXTENDS Integers, FiniteSets, SequencesExt, SeqTools

CONSTANTS
    Groups,
    Size,            \* group_size of the group's env
    Scored,          \* groups whose env requires_group_scoring
    Tokens,          \* num_total_tokens of a rollout of the group
    Batchings,       \* units to consider: rollouts (batch_size) or tokens
    BatchSize,       \* batch_size
    TokenBatchSize,  \* token_batch_size
    MaxSteps,        \* max_steps
    MaxEmpty         \* MAX_CONSECUTIVE_EMPTY_BATCHES

ASSUME TrainAssumption ==
    /\ Size \in [Groups -> Nat \ {0}]
    /\ Tokens \in [Groups -> Nat \ {0}]
    /\ Scored \subseteq Groups
    /\ Batchings \subseteq {"rollouts", "tokens"}
    /\ {BatchSize, TokenBatchSize, MaxSteps, MaxEmpty} \subseteq Nat \ {0}

VARIABLES
    batching,          \* which of batch_size and token_batch_size is set
    \* main loop
    main,              \* collect, drain, failed
    step,              \* progress.step
    empties,           \* consecutive_empty_batches
    \* rollouts: how many of a group arrived, and what is stored in them
    arrived,
    errored,           \* has_error
    bare,              \* no trainable samples
    filtered,          \* is_filtered
    \* the sink
    pending_rollouts,  \* arrival window
    pending_groups,
    pending_batch,
    pending_tokens,
    \* history
    cohorts,           \* cohorts cut off pending_batch
    shipped            \* per rollout, the times it was sent to the trainer

loopVars == <<main, step, empties>>
vars == <<batching, loopVars, arrived, errored, bare, filtered, pending_rollouts,
          pending_groups, pending_batch, pending_tokens, cohorts, shipped>>

Rollouts == UNION {{<<g, i>> : i \in 1..Size[g]} : g \in Groups}

Init ==
    /\ batching \in Batchings
    /\ main = "collect" /\ step = 1 /\ empties = 0
    /\ arrived = [g \in Groups |-> 0]
    /\ errored = {} /\ bare = {} /\ filtered = {}
    /\ pending_rollouts = {} /\ pending_batch = <<>> /\ pending_tokens = 0
    /\ pending_groups = [g \in Groups |-> <<>>]
    /\ cohorts = {}
    /\ shipped = [r \in Rollouts |-> 0]

-----------------------------------------------------------------------------
(* process_group                                                           *)

\* Mutant: a group that is scored as a whole keeps its other members.
SurvivorsPartial(g, group, failed) ==
    IF Len(group) < Size[g] THEN {} ELSE ToSet(group) \ failed

\* Members of a complete group that process_group finalizes: none when it
\* needs all of them to score and one failed.
Survivors(g, group, failed) ==
    LET clean == ToSet(group) \ failed
    IN  IF Len(group) < Size[g] \/ (g \in Scored /\ clean # ToSet(group))
        THEN {} ELSE clean

TotalTokens(rs) == SumSeq([i \in DOMAIN rs |-> Tokens[rs[i][1]]])

TokensOf(rs) == IF batching = "tokens" THEN TotalTokens(rs) ELSE 0

-----------------------------------------------------------------------------
(* process_batch                                                           *)

\* Mutant: more than a batch is needed.
ReadyLate(batch, tokens) ==
    IF batching = "rollouts" THEN Len(batch) > BatchSize ELSE tokens > TokenBatchSize

Ready(batch, tokens) ==
    IF batching = "rollouts" THEN Len(batch) >= BatchSize ELSE tokens >= TokenBatchSize

\* Mutant: one rollout too many.
CutLate(batch) ==
    IF batching = "rollouts" THEN BatchSize
    ELSE Min({k \in 1..Len(batch) : TotalTokens(SubSeq(batch, 1, k)) > TokenBatchSize}
             \cup {Len(batch)})

\* The next cohort: batch_size rollouts, or the fewest that reach
\* token_batch_size.
Cut(batch) ==
    IF batching = "rollouts" THEN BatchSize
    ELSE Min({k \in 1..Len(batch) : TotalTokens(SubSeq(batch, 1, k)) >= TokenBatchSize}
             \cup {Len(batch)})

\* Mutant: the overflow is dropped.
OverflowDropped(batch) == <<>>

Overflow(batch) == SubSeq(batch, Cut(batch) + 1, Len(batch))

TokensLeft(tokens, cohort) == tokens - TokensOf(cohort)

\* The arrival window after a batch with these samples.
NextWindow(samples, window) == IF samples # {} THEN {} ELSE window

-----------------------------------------------------------------------------
(* The main loop                                                           *)

\* Mutant: one empty batch more than allowed.
GivesUpLate(n) == n > MaxEmpty

GivesUp(n) == n >= MaxEmpty

\* finalize_train_batch of a batch with these samples.
Finalize(samples) ==
    IF main = "drain" THEN UNCHANGED <<loopVars, shipped>>
    ELSE IF step > MaxSteps THEN
        /\ main' = "drain"
        /\ UNCHANGED <<step, empties, shipped>>
    ELSE IF samples = {} THEN
        /\ empties' = empties + 1
        /\ main' = IF GivesUp(empties + 1) THEN "failed" ELSE main
        /\ UNCHANGED <<step, shipped>>
    ELSE
        /\ empties' = 0
        /\ step' = step + 1
        /\ shipped' = [r \in Rollouts |-> shipped[r] + IF r \in samples THEN 1 ELSE 0]
        /\ UNCHANGED main

\* No batch is due.
Waits(batch, tokens, window, flagged) ==
    /\ ~ Ready(batch, tokens)
    /\ pending_batch' = batch /\ pending_tokens' = tokens
    /\ pending_rollouts' = window
    /\ filtered' = flagged
    /\ UNCHANGED <<loopVars, cohorts, shipped>>

\* process_batch, then what the main loop does with its result.
ProcessBatch(batch, tokens, window, flagged) ==
    /\ Ready(batch, tokens)
    /\ LET cohort == SubSeq(batch, 1, Cut(batch))
       IN  /\ pending_batch' = Overflow(batch)
           /\ pending_tokens' = TokensLeft(tokens, cohort)
           /\ cohorts' = cohorts \cup {cohort}
           /\ \E hit \in SUBSET ToSet(cohort) :  \* by the post-batch filters
                LET samples == ToSet(cohort) \ (hit \cup bare')
                IN  /\ filtered' = flagged \cup hit
                    /\ pending_rollouts' = NextWindow(samples, window)
                    /\ Finalize(samples)

\* A rollout arrives with an error, without samples or with some; when it
\* completes its group the pre-batch filters may drop survivors.
Arrives(g) ==
    /\ main # "failed"
    /\ arrived[g] < Size[g]
    /\ arrived' = [arrived EXCEPT ![g] = @ + 1]
    /\ \E outcome \in {"error", "bare", "samples"} :
        LET r == <<g, arrived[g] + 1>>
            group == Append(pending_groups[g], r)
            survivors == Survivors(g, group, errored')
            window == pending_rollouts \cup {r}
        IN  /\ errored' = IF outcome = "error" THEN errored \cup {r} ELSE errored
            /\ bare' = IF outcome = "bare" THEN bare \cup {r} ELSE bare
            /\ pending_groups' = [pending_groups EXCEPT ![g] =
                    IF Len(group) >= Size[g] THEN <<>> ELSE group]
            /\ \E drop \in SUBSET survivors :
                LET added == Selected(group, survivors \ drop)
                    batch == pending_batch \o added
                    tokens == pending_tokens + TokensOf(added)
                IN  \/ Waits(batch, tokens, window, filtered \cup drop)
                    \/ ProcessBatch(batch, tokens, window, filtered \cup drop)
    /\ UNCHANGED batching

Next == \E g \in Groups : Arrives(g)

Spec == Init /\ [][Next]_vars

-----------------------------------------------------------------------------
(* Properties                                                              *)

Arrived == UNION {{<<g, i>> : i \in 1..arrived[g]} : g \in Groups}

\* Types: every rollout stored anywhere is one that arrived.
TypeOK ==
    /\ batching \in Batchings
    /\ main \in {"collect", "drain", "failed"}
    /\ step \in 1..(MaxSteps + 1) /\ empties \in 0..MaxEmpty
    /\ arrived \in [Groups -> Nat] /\ \A g \in Groups : arrived[g] <= Size[g]
    /\ UNION {errored, bare, filtered, pending_rollouts} \subseteq Arrived
    /\ \A g \in Groups : pending_groups[g] \in Seq(Arrived)
    /\ pending_batch \in Seq(Arrived)
    /\ pending_tokens \in Nat

Occurrences(r, rs) == Cardinality({i \in DOMAIN rs : rs[i] = r})

\* A rollout whose group is complete and lost it: it failed, the filters
\* dropped it, or it had to be scored with one that failed.
Rejected(r) ==
    /\ arrived[r[1]] = Size[r[1]]
    /\ \/ r \in errored \cup filtered
       \/ r[1] \in Scored /\ \E x \in errored : x[1] = r[1]

\* Every rollout that arrived is in exactly one place, its group, the pending
\* batch or one cohort, or it was rejected (add, process_group, process_batch):
\* nothing is lost to overflow and nothing is trained on twice.
EachOnce ==
    \A r \in Arrived :
        LET places == Occurrences(r, pending_groups[r[1]]) + Occurrences(r, pending_batch)
                      + Cardinality({c \in cohorts : r \in ToSet(c)})
        IN  places = 1 \/ (places = 0 /\ Rejected(r))

\* What is sent to the trainer is sent once, was neither rejected nor without
\* samples, and its whole group has arrived, so its advantage was final.
ShippedClean ==
    \A r \in Rollouts :
        shipped[r] > 0 => /\ shipped[r] = 1
                          /\ arrived[r[1]] = Size[r[1]]
                          /\ ~ Rejected(r) /\ r \notin bare

\* Batches have the size asked for: batch_size rollouts, or just enough to
\* reach token_batch_size (process_batch).
CohortsFull ==
    \A c \in cohorts :
        IF batching = "rollouts" THEN Len(c) = BatchSize
        ELSE TotalTokens(c) >= TokenBatchSize /\ TotalTokens(Front(c)) < TokenBatchSize

\* add takes at most one batch per arrival.  That leaves no complete batch
\* behind as long as no group is larger than a batch.
NoFullBatchWaits ==
    (batching = "rollouts" /\ \A g \in Groups : Size[g] <= BatchSize)
        => Len(pending_batch) < BatchSize
=============================================================================
