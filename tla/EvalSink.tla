-------------------------------- MODULE EvalSink --------------------------------
(***************************************************************************)
(* The eval side of the orchestrator: EvalSource (eval_source.py) fires    *)
(* the epochs of a step, the dispatcher takes their examples from its      *)
(* queue, and EvalSink (eval_sink.py) collects what comes back.            *)
(*                                                                         *)
(* The environment is what RolloutLedger promises: an opened group         *)
(* delivers its Size rollouts one by one, errored ones included, in any    *)
(* interleaving with other groups.  Training goes on meanwhile (Ship), so  *)
(* epochs of several steps are under way at once.  A group is              *)
(* <<env, step, example>>, a rollout <<group, arrival number>>, an epoch   *)
(* <<env, step>>.                                                          *)
(***************************************************************************)
EXTENDS Integers, FiniteSets, SequencesExt, SeqTools

CONSTANTS
    MaxSteps,  \* max_steps
    NEnvs,     \* eval envs are numbered in the order of the config
    Interval,  \* interval of an env
    Examples,  \* its number of examples
    Size       \* its group_size

Envs == 1..NEnvs
Steps == 1..(MaxSteps + 1)

ASSUME EvalAssumption ==
    /\ MaxSteps \in Nat /\ NEnvs \in Nat
    /\ {Interval, Examples, Size} \subseteq [Envs -> Nat \ {0}]

Groups == UNION {{<<e, s, k>> : s \in Steps, k \in 1..Examples[e]} : e \in Envs}
Epochs == Envs \X Steps

VARIABLES
    skipFirst,        \* eval.skip_first_step
    started,          \* Orchestrator.start has triggered the first evals
    step,             \* progress.step
    \* EvalSource
    first_trigger,
    queue,
    \* EvalSink
    pending_groups,
    pending_batches,
    \* history
    opened,           \* groups the dispatcher took from the queue
    arrived,          \* rollouts of each group that arrived
    triggered,        \* epochs fired
    reported          \* per epoch, the cohorts of its EvalBatches

sourceVars == <<first_trigger, queue, triggered>>
sinkVars == <<pending_groups, pending_batches, reported>>
vars == <<skipFirst, started, step, sourceVars, sinkVars, opened, arrived>>

Init ==
    /\ skipFirst \in BOOLEAN
    /\ first_trigger \in BOOLEAN  \* FALSE: the run is resumed
    /\ step \in IF first_trigger THEN {1} ELSE Steps \ {1}
    /\ started = FALSE
    /\ queue = <<>> /\ triggered = {}
    /\ pending_groups = [g \in Groups |-> {}]
    /\ pending_batches = [ep \in Epochs |-> {}]
    /\ reported = [ep \in Epochs |-> <<>>]
    /\ opened = {}
    /\ arrived = [g \in Groups |-> 0]

-----------------------------------------------------------------------------
(* EvalSource.trigger and next_example                                     *)

\* Envs that trigger(s) fires.
Fired(s) ==
    IF first_trigger /\ skipFirst THEN {}
    ELSE {e \in Envs : first_trigger \/ s % Interval[e] = 0}

\* zip_longest: as many rounds as the longest env has examples, a turn for
\* each env in a round ...
Rounds == Max({0} \cup {Examples[e] : e \in Envs})

Turns(s) ==
    [i \in 1..(Rounds * NEnvs) |-> <<1 + ((i - 1) % NEnvs), s, 1 + ((i - 1) \div NEnvs)>>]

\* ... which the envs that did not fire or ran out of examples leave out.
RoundRobin(envs, s) == Selected(Turns(s), {g \in Groups : g[1] \in envs})

Trigger(s) ==
    /\ queue' = queue \o RoundRobin(Fired(s), s)
    /\ triggered' = triggered \cup (Fired(s) \X {s})
    /\ first_trigger' = FALSE
    /\ UNCHANGED <<skipFirst, sinkVars, opened, arrived>>

\* Orchestrator.start: the eval before the first step.
Start ==
    /\ ~ started /\ started' = TRUE
    /\ Trigger(step)
    /\ UNCHANGED step

\* Mutant: the step before the increment is triggered.
ShipStale ==
    /\ started /\ step <= MaxSteps
    /\ step' = step + 1
    /\ Trigger(step)
    /\ UNCHANGED started

\* finalize_train_batch has sent the batch of a step.
Ship ==
    /\ started /\ step <= MaxSteps
    /\ step' = step + 1
    /\ Trigger(step + 1)
    /\ UNCHANGED started

\* The dispatcher opens the group of the example at the head of the queue.
Open ==
    /\ queue # <<>>
    /\ opened' = opened \cup {Head(queue)}
    /\ queue' = Tail(queue)
    /\ UNCHANGED <<skipFirst, started, step, first_trigger, triggered,
                   sinkVars, arrived>>

-----------------------------------------------------------------------------
(* EvalSink.add                                                            *)

\* Mutant: one bucket per env.
BkeyEnv(g) == <<g[1], 1>>

\* bkey: the bucket of a rollout.
Bkey(g) == <<g[1], g[2]>>

\* batch_size_for.
EpochSize(e) == Examples[e] * Size[e]

\* Mutant: a group is complete one rollout too late.
BucketLate(g, group) ==
    pending_batches[Bkey(g)] \cup IF Cardinality(group) > Size[g[1]] THEN group ELSE {}

\* process_group: a complete group moves into its bucket; others stay.
Bucket(g, group) ==
    pending_batches[Bkey(g)] \cup IF Cardinality(group) >= Size[g[1]] THEN group ELSE {}

Arrives(g) ==
    /\ g \in opened /\ arrived[g] < Size[g[1]]
    /\ arrived' = [arrived EXCEPT ![g] = @ + 1]
    /\ LET group == pending_groups[g] \cup {<<g, arrived[g] + 1>>}
           bucket == Bucket(g, group)
           done == Cardinality(bucket) >= EpochSize(g[1])
       IN  /\ pending_groups' = [pending_groups EXCEPT ![g] =
                IF group \subseteq bucket THEN {} ELSE group]
           /\ pending_batches' = [pending_batches EXCEPT ![Bkey(g)] =
                IF done THEN {} ELSE bucket]
           /\ reported' = [reported EXCEPT ![Bkey(g)] =
                IF done THEN Append(@, bucket) ELSE @]
    /\ UNCHANGED <<skipFirst, started, step, sourceVars, opened>>

Next == Start \/ Ship \/ Open \/ \E g \in Groups : Arrives(g)

Spec == Init /\ [][Next]_vars

\* The orchestrator starts, its dispatcher empties the queue and every opened
\* group settles (Dispatcher: EvalCompletes, LedgerSettles).  Training may
\* stop at any step.
FairSpec ==
    /\ Spec
    /\ WF_vars(Start) /\ WF_vars(Open)
    /\ \A g \in Groups : WF_vars(Arrives(g))

-----------------------------------------------------------------------------
(* Properties                                                              *)

RolloutsOf(gs) == UNION {{<<g, i>> : i \in 1..Size[g[1]]} : g \in gs}
EpochGroups(ep) == {g \in Groups : <<g[1], g[2]>> = ep}

\* Types: no example is queued twice or after it was opened, and the sink
\* holds only rollouts that arrived, partial groups apart from the buckets.
TypeOK ==
    /\ skipFirst \in BOOLEAN /\ started \in BOOLEAN /\ first_trigger \in BOOLEAN
    /\ step \in Steps
    /\ opened \subseteq Groups /\ ToSet(queue) \subseteq Groups \ opened
    /\ Cardinality(ToSet(queue)) = Len(queue)
    /\ triggered \subseteq Epochs
    /\ arrived \in [Groups -> Nat]
    /\ \A g \in Groups : pending_groups[g] \subseteq {<<g, i>> : i \in 1..arrived[g]}
    /\ \A ep \in Epochs : pending_batches[ep] \subseteq RolloutsOf(EpochGroups(ep))

\* An epoch is reported at most once, with all rollouts of all its examples
\* and of no other epoch, however the epochs of several steps interleave.
EpochExact ==
    \A ep \in Epochs : reported[ep] \in {<<>>, <<RolloutsOf(EpochGroups(ep))>>}

\* Every epoch fired is reported.
EpochReported ==
    \A ep \in Epochs : ep \in triggered ~> reported[ep] # <<>>
=============================================================================
