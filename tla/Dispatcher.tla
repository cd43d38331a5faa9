------------------------------ MODULE Dispatcher ------------------------------
(***************************************************************************)
(* RolloutDispatcher (orchestrator/dispatcher.py): the loop that opens     *)
(* rollout groups, dispatches their rollouts under a shared counter of     *)
(* permits, and puts every finished rollout on the bounded queue out_q.    *)
(*                                                                         *)
(* Three asyncio tasks share its state: the dispatch loop itself (pc), the *)
(* weight watcher running on_version_pending (wpc), and the orchestrator's *)
(* main loop, which gets from out_q, triggers evals, moves the dispatch    *)
(* gate and drains (main).  A task runs alone between two awaits, so an    *)
(* action is the code from one await to the next; every await is a point   *)
(* where another task may run, whether or not it happens to suspend.  The  *)
(* one exception is a put on out_q, which suspends only when the queue is  *)
(* full: a run of puts is one action as long as there is room.             *)
(*                                                                         *)
(* Examples, traces, errors and clients are data and are left out: a       *)
(* rollout is <<group, index>>.  The sets of groups bound the examples the *)
(* sources hand out, MaxVersion the weight updates.                        *)
(***************************************************************************)
EXTENDS Integers, FiniteSets

CONSTANTS
    TrainGroups,  \* groups the train source may hand out
    EvalGroups,   \* groups the eval source may hand out
    Frozen,       \* train groups sampled from a frozen model
    Scored,       \* groups of an env that requires group scoring
    Size,         \* group_size of the group's env
    MaxInflight,  \* max_inflight_rollouts
    MinOutCap,    \* least capacity of out_q (8 in the code)
    MaxOff,       \* max_off_policy_steps
    MaxVersion    \* bound on weight updates

Groups == TrainGroups \cup EvalGroups
Live == TrainGroups \ Frozen
OutCap == IF MinOutCap > MaxInflight THEN MinOutCap ELSE MaxInflight

\* The rollouts of a group, and the rollouts one asyncio task computes:
\* run_group computes a whole group, run_rollout a single rollout.
Members(g) == {g} \X (1..Size[g])
Rollouts == UNION {Members(g) : g \in Groups}
TaskOf(r) == IF r[1] \in Scored THEN Members(r[1]) ELSE {r}

ASSUME GroupAssumption ==
    /\ TrainGroups \cap EvalGroups = {}
    /\ IsFiniteSet(TrainGroups) /\ IsFiniteSet(EvalGroups)
    /\ Frozen \subseteq TrainGroups
    /\ Scored \subseteq Groups
    /\ Size \in [Groups -> Nat \ {0}]

ASSUME BoundAssumption ==
    /\ MaxInflight \in Nat \ {0}
    /\ MinOutCap \in Nat
    /\ MaxOff \in Nat
    /\ MaxVersion \in Nat

VARIABLES
    \* what the orchestrator controls
    main,        \* its main loop: run, drain, drained, stopping, stopped
    mode,        \* DispatcherMode: what to prefer
    gate,        \* dispatch_allowed
    disabled,    \* train_scheduling_disabled
    evalQueue,   \* examples waiting in the eval source
    \* groups
    opened,      \* groups ever opened (history)
    groups,      \* keys of self.groups
    toSchedule,  \* rollouts_to_schedule
    emitted,     \* emitted
    \* permits and tasks
    inflight,    \* rollouts of the tasks in self.inflight
    age,         \* off_policy_steps of an in-flight rollout
    permits,     \* inflight_permits
    \* the dispatch loop
    pc,
    cur,         \* group being scheduled or emitted
    batch,       \* rollouts being dispatched
    got,         \* permits acquired for them so far
    doneList,    \* rollouts of the tasks asyncio.wait returned
    dLeft,       \* rollouts of cur still to put
    \* the weight watcher
    wpc,
    stale,       \* stale_groups still to drop
    wGroup,      \* group being dropped
    wLeft,       \* its markers still to put
    version,     \* policy.version
    \* the queue
    outLen,      \* out_q.qsize()
    \* history
    delivered,   \* puts made for a group
    dropped,     \* groups that got a Cancelled marker
    swaps        \* weight swaps an in-flight rollout lived through

orchVars == <<main, mode, gate, disabled, evalQueue>>
groupVars == <<opened, groups, toSchedule, emitted>>
taskVars == <<inflight, age, permits, swaps>>
loopVars == <<pc, cur, batch, got, doneList, dLeft>>
watchVars == <<wpc, stale, wGroup, wLeft, version, dropped>>
outVars == <<outLen, delivered>>
vars == <<orchVars, groupVars, taskVars, loopVars, watchVars, outVars>>

NoGroup == "none"

Init ==
    /\ main = "run" /\ mode = "train" /\ gate = TRUE
    /\ disabled = FALSE /\ evalQueue = {}
    /\ opened = {} /\ groups = {}
    /\ toSchedule = [g \in Groups |-> 0]
    /\ emitted = [g \in Groups |-> 0]
    /\ inflight = {} /\ permits = 0
    /\ age = [r \in Rollouts |-> 0]
    /\ swaps = [r \in Rollouts |-> 0]
    /\ pc = "fill" /\ cur = NoGroup /\ batch = {} /\ got = 0
    /\ doneList = {} /\ dLeft = 0
    /\ wpc = "idle" /\ stale = {} /\ wGroup = NoGroup /\ wLeft = 0
    /\ version = 0 /\ dropped = {}
    /\ outLen = 0 /\ delivered = [g \in Groups |-> 0]

-----------------------------------------------------------------------------
(* Helpers                                                                 *)

Available == MaxInflight - permits
Kind == IF mode = "eval" THEN EvalGroups ELSE TrainGroups

\* Mutant: groups that are partly scheduled are forgotten.
EvalHasExamples == evalQueue # {}

EvalHasWork ==
    \/ evalQueue # {}
    \/ \E g \in groups \cap EvalGroups : toSchedule[g] > 0

IsIdle == inflight = {} /\ ~EvalHasWork /\ outLen = 0

\* Rollouts one call of schedule_group_rollout dispatches, and their cost.
NextBatch(g) ==
    IF g \in Scored THEN {g} \X (1..toSchedule[g]) ELSE {<<g, toSchedule[g]>>}
Cost(g) == IF g \in Scored THEN toSchedule[g] ELSE 1
\* Mutant: the permits a group-scored example takes are forgotten.
FreshCostOne(g) == 1
FreshCost(g) == IF g \in Scored THEN Size[g] ELSE 1

\* Mutant: off by one in what a group to continue may cost.
ContinuableStrict(g) ==
    g \in groups \cap Kind /\ toSchedule[g] > 0 /\ Cost(g) < Available

\* An opened group that try_schedule continues before it opens another.
Continuable(g) ==
    g \in groups \cap Kind /\ toSchedule[g] > 0 /\ Cost(g) <= Available

\* Examples the source of the preferred kind can hand out.
Fresh == IF mode = "eval" THEN evalQueue ELSE TrainGroups \ opened

\* Mutant: the queue takes everything.
SentUnbounded(n) == n

\* A run of puts stops at the first one that finds out_q full; that rollout
\* has been counted in group.emitted already.
Sent(n) == IF n <= OutCap - outLen THEN n ELSE OutCap - outLen
Blocked(n) == IF n > 0 THEN 1 ELSE 0

PutBurst(g, n) ==
    /\ outLen' = outLen + Sent(n)
    /\ delivered' = [delivered EXCEPT ![g] = @ + Sent(n)]

\* Mutant: a dropped group stays in self.groups.
PopGroupsKeeps(G) == UNCHANGED <<groups, toSchedule, emitted>>

\* Groups leave self.groups; what their objects count is not followed any
\* further, though a task that holds one may still touch it.
PopGroups(G) ==
    /\ groups' = groups \ G
    /\ toSchedule' = [g \in Groups |-> IF g \in G THEN 0 ELSE toSchedule[g]]
    /\ emitted' = [g \in Groups |-> IF g \in G THEN 0 ELSE emitted[g]]

\* emit_rollout's bookkeeping for k rollouts of g.
CountEmitted(g, k) ==
    IF g \notin groups
    THEN UNCHANGED <<groups, toSchedule, emitted>>
    ELSE IF emitted[g] + k >= Size[g]
    THEN PopGroups({g})
    ELSE /\ emitted' = [emitted EXCEPT ![g] = @ + k]
         /\ UNCHANGED <<groups, toSchedule>>

\* Tasks leave self.inflight and release their permits.
ClaimTasks(S, ages) ==
    /\ inflight' = inflight \ S
    /\ permits' = permits - Cardinality(S)
    /\ age' = [r \in Rollouts |-> IF r \in S THEN 0 ELSE ages[r]]
    /\ swaps' = [r \in Rollouts |-> IF r \in S THEN 0 ELSE swaps[r]]

-----------------------------------------------------------------------------
(* The dispatch loop: fill_inflight                                        *)

\* Permits exhausted, or train gated: fill_inflight returns.
FillReturns ==
    /\ pc = "fill"
    /\ Available <= 0 \/ (mode = "train" /\ ~gate)
    /\ pc' = "wait"
    /\ UNCHANGED <<orchVars, groupVars, taskVars, watchVars, outVars,
                   cur, batch, got, doneList, dLeft>>

\* The eval queue drained: prefer train again.
FillFlips ==
    /\ pc = "fill" /\ Available > 0
    /\ mode = "eval" /\ ~EvalHasWork
    /\ mode' = "train"
    /\ UNCHANGED <<main, gate, disabled, evalQueue, groupVars, taskVars, loopVars,
                   watchVars, outVars>>

MaySchedule ==
    /\ pc = "fill" /\ Available > 0
    /\ IF mode = "eval" THEN EvalHasWork ELSE gate /\ ~disabled

\* schedule_group_rollout up to its await on the first permit.
Reserve(g) ==
    /\ cur' = g /\ batch' = NextBatch(g) /\ got' = 0
    /\ toSchedule' = [toSchedule EXCEPT
                        ![g] = IF g \in Scored THEN 0 ELSE @ - 1]
    /\ pc' = "acquire"
    /\ UNCHANGED <<doneList, dLeft>>

FillContinues(g) ==
    /\ MaySchedule
    /\ Continuable(g)
    /\ Reserve(g)
    /\ UNCHANGED <<orchVars, opened, groups, emitted, taskVars, watchVars,
                   outVars>>

\* next_fresh_group, then schedule_group_rollout up to its await on a client.
FillOpens(g) ==
    /\ MaySchedule
    /\ ~\E h \in groups : Continuable(h)
    /\ g \in Fresh /\ FreshCost(g) <= Available
    /\ opened' = opened \cup {g}
    /\ groups' = groups \cup {g}
    /\ toSchedule' = [toSchedule EXCEPT ![g] = Size[g]]
    /\ emitted' = [emitted EXCEPT ![g] = 0]
    /\ evalQueue' = evalQueue \ {g}
    /\ cur' = g /\ pc' = "pin"
    /\ UNCHANGED <<main, mode, gate, disabled, taskVars, batch, got, doneList, dLeft,
                   watchVars, outVars>>

\* try_schedule returns False: train is disabled, the source has nothing, or
\* the example it picked costs more than the permits left.
FillStalls ==
    /\ pc = "fill" /\ Available > 0
    /\ \/ mode = "train" /\ gate /\ disabled
       \/ /\ MaySchedule
          /\ ~\E h \in groups : Continuable(h)
          /\ Fresh = {} \/ \E g \in Fresh : FreshCost(g) > Available
    /\ pc' = "wait"
    /\ UNCHANGED <<orchVars, groupVars, taskVars, watchVars, outVars,
                   cur, batch, got, doneList, dLeft>>

\* The client arrives; the group may have gone in the meantime.
Pinned ==
    /\ pc = "pin"
    /\ \/ cur \in groups /\ Reserve(cur)
       \/ /\ cur \notin groups /\ pc' = "wait" /\ cur' = NoGroup
          /\ UNCHANGED <<toSchedule, batch, got, doneList, dLeft>>
    /\ UNCHANGED <<orchVars, opened, groups, emitted, taskVars, watchVars,
                   outVars>>

\* acquire: one rate-limited permit; after the last the task is created.
Acquire ==
    /\ pc = "acquire"
    /\ permits' = permits + 1
    /\ IF got + 1 < Cardinality(batch)
       THEN /\ got' = got + 1
            /\ UNCHANGED <<pc, cur, batch, inflight>>
       ELSE /\ inflight' = inflight \cup batch
            /\ got' = 0 /\ batch' = {} /\ cur' = NoGroup /\ pc' = "fill"
    /\ UNCHANGED <<orchVars, groupVars, age, swaps, doneList, dLeft,
                   watchVars, outVars>>

-----------------------------------------------------------------------------
(* The dispatch loop: collecting results                                   *)

LoopTop == IF main = "stopping" THEN "stopped" ELSE "fill"

\* asyncio.wait times out, or there is nothing to wait for.
WaitTimesOut ==
    /\ pc = "wait"
    /\ pc' = LoopTop
    /\ UNCHANGED <<orchVars, groupVars, taskVars, watchVars, outVars,
                   cur, batch, got, doneList, dLeft>>

\* asyncio.wait returns the tasks that have finished.
Collect(D) ==
    /\ pc = "wait"
    /\ D # {} /\ \A r \in D : TaskOf(r) \subseteq D
    /\ doneList' = D
    /\ pc' = "handle"
    /\ UNCHANGED <<orchVars, groupVars, taskVars, watchVars, outVars,
                   cur, batch, got, dLeft>>

\* handle_completed_rollout up to its end or to a put that blocks.  A task
\* drop_group or a cancel has popped meanwhile is skipped.
Handle(r) ==
    /\ pc = "handle" /\ r \in doneList
    /\ doneList' = doneList \ TaskOf(r)
    /\ IF r \in inflight
       THEN LET n == Cardinality(TaskOf(r)) IN
            /\ ClaimTasks(TaskOf(r), age)
            /\ PutBurst(r[1], n)
            /\ dLeft' = n - Sent(n)
            /\ CountEmitted(r[1], Sent(n) + Blocked(n - Sent(n)))
            /\ pc' = IF n > Sent(n) THEN "put" ELSE "handle"
            /\ cur' = IF n > Sent(n) THEN r[1] ELSE NoGroup
       ELSE UNCHANGED <<taskVars, outVars, groups, toSchedule, emitted, pc,
                        cur, dLeft>>
    /\ UNCHANGED <<orchVars, opened, batch, got, watchVars>>

\* The blocked put gets room.
HandleResumes ==
    /\ pc = "put" /\ outLen < OutCap
    /\ PutBurst(cur, dLeft)
    /\ dLeft' = dLeft - Sent(dLeft)
    /\ CountEmitted(cur, Sent(dLeft) + Blocked(dLeft - Sent(dLeft)) - 1)
    /\ pc' = IF dLeft > Sent(dLeft) THEN "put" ELSE "handle"
    /\ cur' = IF dLeft > Sent(dLeft) THEN cur ELSE NoGroup
    /\ UNCHANGED <<orchVars, opened, taskVars, batch, got, doneList,
                   watchVars>>

HandleEnds ==
    /\ pc = "handle" /\ doneList = {}
    /\ pc' = LoopTop
    /\ UNCHANGED <<orchVars, groupVars, taskVars, watchVars, outVars,
                   cur, batch, got, doneList, dLeft>>

-----------------------------------------------------------------------------
(* The weight watcher: on_version_pending, drop_group, the update itself   *)

\* Mutant: every in-flight rollout is aged.
AgesAll(r) == r \in inflight

\* Live-sourced train rollouts are aged; eval and frozen ones are not.
Ages(r) == r \in inflight /\ r[1] \in Live
Aged == [r \in Rollouts |-> IF Ages(r) THEN age[r] + 1 ELSE age[r]]

\* Mutant: off by one in the bound on age.
StaleGroupsLate == {r[1] : r \in {s \in Rollouts : Ages(s) /\ Aged[s] > MaxOff + 1}}

StaleGroups == {r[1] : r \in {s \in Rollouts : Ages(s) /\ Aged[s] > MaxOff}}

\* Mutant: no markers for rollouts that are not scheduled yet.
MarkersInFlight(g) == Cardinality(inflight \cap Members(g))

\* Cancelled markers: one for each rollout of an in-flight task and one for
\* each rollout not scheduled yet.
Markers(g) ==
    Cardinality(inflight \cap Members(g))
        + IF g \in groups THEN toSchedule[g] ELSE 0

\* drop_group up to its end or to a put that blocks.
DropGroup(g, ages) ==
    LET n == Markers(g)
    IN  /\ ClaimTasks(inflight \cap Members(g), ages)
        /\ PopGroups({g})
        /\ PutBurst(g, n)
        /\ wLeft' = n - Sent(n)
        /\ dropped' = IF n > 0 THEN dropped \cup {g} ELSE dropped
        /\ wpc' = IF n > Sent(n) THEN "put" ELSE "drop"
        /\ wGroup' = IF n > Sent(n) THEN g ELSE NoGroup

VersionPending ==
    /\ wpc = "idle" /\ version < MaxVersion
    /\ main # "stopped"
    /\ IF StaleGroups = {}
       THEN /\ age' = Aged
            /\ wpc' = "update"
            /\ UNCHANGED <<groups, toSchedule, emitted, inflight, permits,
                           swaps, outVars, stale, wGroup, wLeft, dropped>>
       ELSE \E g \in StaleGroups :
            /\ stale' = StaleGroups \ {g}
            /\ DropGroup(g, Aged)
    /\ UNCHANGED <<orchVars, opened, loopVars, version>>

DropNext(g) ==
    /\ wpc = "drop" /\ g \in stale
    /\ stale' = stale \ {g}
    /\ DropGroup(g, age)
    /\ UNCHANGED <<orchVars, opened, loopVars, version>>

DropResumes ==
    /\ wpc = "put" /\ outLen < OutCap
    /\ PutBurst(wGroup, wLeft)
    /\ wLeft' = wLeft - Sent(wLeft)
    /\ wpc' = IF wLeft > Sent(wLeft) THEN "put" ELSE "drop"
    /\ wGroup' = IF wLeft > Sent(wLeft) THEN wGroup ELSE NoGroup
    /\ UNCHANGED <<orchVars, groupVars, taskVars, loopVars, stale, version,
                   dropped>>

DropsEnd ==
    /\ wpc = "drop" /\ stale = {}
    /\ wpc' = "update"
    /\ UNCHANGED <<orchVars, groupVars, taskVars, loopVars, stale, wGroup,
                   wLeft, version, dropped, outVars>>

\* inference.update_weights returns: every rollout of the live policy that is
\* in flight continues under the new weights.
SwapWeights ==
    /\ wpc = "update"
    /\ version' = version + 1
    /\ swaps' = [r \in Rollouts |-> IF Ages(r) THEN swaps[r] + 1 ELSE swaps[r]]
    /\ wpc' = "idle"
    /\ UNCHANGED <<orchVars, groupVars, inflight, age, permits, loopVars,
                   stale, wGroup, wLeft, dropped, outVars>>

-----------------------------------------------------------------------------
(* The orchestrator's main loop                                            *)

\* maybe_trigger_eval: an epoch's examples join the queue.
TriggerEval(S) ==
    /\ main = "run"
    /\ S # {} /\ S \subseteq EvalGroups \ (opened \cup evalQueue)
    /\ evalQueue' = evalQueue \cup S
    /\ mode' = "eval"
    /\ UNCHANGED <<main, gate, disabled, groupVars, taskVars, loopVars, watchVars,
                   outVars>>

\* update_dispatch_gate: shipping a batch may close the gate, a new policy
\* version reopens it.  With which lead it does so is Pipeline's business.
OpenGate ==
    /\ ~gate /\ gate' = TRUE
    /\ UNCHANGED <<main, mode, disabled, evalQueue, groupVars, taskVars,
                   loopVars, watchVars, outVars>>

\* The main loop gets a rollout; it may complete a batch that is shipped.
Get ==
    /\ main \in {"run", "drain"}
    /\ outLen > 0
    /\ outLen' = outLen - 1
    /\ gate' \in {gate, FALSE}
    /\ UNCHANGED <<main, mode, disabled, evalQueue, groupVars, taskVars,
                   loopVars, watchVars, delivered>>

\* finalize_train_batch past max_steps: disable train scheduling and cancel
\* the train tasks in flight, without markers.
Drain ==
    LET cancelled == {r \in inflight : r[1] \in TrainGroups}
    IN  /\ main = "run"
        /\ main' = "drain" /\ disabled' = TRUE
        /\ ClaimTasks(cancelled, age)
        /\ PopGroups({r[1] : r \in cancelled})
        /\ UNCHANGED <<mode, gate, evalQueue, opened, loopVars, watchVars,
                       outVars>>

Exit ==
    /\ main = "drain" /\ IsIdle
    /\ main' = "drained"
    /\ UNCHANGED <<mode, gate, disabled, evalQueue, groupVars, taskVars, loopVars,
                   watchVars, outVars>>

\* stop(): after a clean exit or an interrupt.  cancel_inflight_rollouts
\* forgets everything; the loop's task is cancelled after an await.
Stop ==
    /\ main \in {"run", "drain", "drained"}
    /\ main' = "stopping"
    /\ ClaimTasks(inflight, age)
    /\ PopGroups(groups)
    /\ UNCHANGED <<mode, gate, disabled, evalQueue, opened, loopVars,
                   watchVars, outVars>>

Kill ==
    /\ main = "stopping"
    /\ main' = "stopped"
    /\ pc' = "stopped"
    /\ UNCHANGED <<mode, gate, disabled, evalQueue, groupVars, taskVars, cur, batch, got,
                   doneList, dLeft, watchVars, outVars>>

-----------------------------------------------------------------------------
DispatchLoop ==
    \/ FillReturns \/ FillFlips \/ FillStalls
    \/ \E g \in Groups : FillContinues(g) \/ FillOpens(g)
    \/ Pinned \/ Acquire
    \/ WaitTimesOut \/ \E D \in SUBSET inflight : Collect(D)
    \/ \E r \in Rollouts : Handle(r)
    \/ HandleResumes \/ HandleEnds

Watcher ==
    \/ VersionPending \/ \E g \in Groups : DropNext(g)
    \/ DropResumes \/ DropsEnd \/ SwapWeights

Orchestrator ==
    \/ \E S \in SUBSET EvalGroups : TriggerEval(S)
    \/ OpenGate \/ Get \/ Drain \/ Exit \/ Stop \/ Kill

Next == DispatchLoop \/ Watcher \/ Orchestrator

Spec == Init /\ [][Next]_vars

(***************************************************************************)
(* Fairness.  The event loop runs every task that is ready (WF of each of  *)
(* the three tasks' steps).  An env finishes every rollout it starts, so   *)
(* asyncio.wait returns each task sooner or later.  A closed gate is       *)
(* reopened: Pipeline shows that a version arrives that does it.           *)
(***************************************************************************)
Fairness ==
    /\ WF_vars(DispatchLoop)
    /\ \A r \in Rollouts : SF_vars(\E D \in SUBSET inflight : r \in D /\ Collect(D))
    /\ SF_vars(\E g \in Groups : FillContinues(g))
    /\ SF_vars(\E g \in EvalGroups : FillOpens(g))
    /\ WF_vars(\E g \in Groups : DropNext(g)) /\ WF_vars(DropResumes)
    /\ WF_vars(DropsEnd) /\ WF_vars(SwapWeights)
    /\ WF_vars(OpenGate) /\ WF_vars(Get)

FairSpec == Spec /\ Fairness

-----------------------------------------------------------------------------
(* Properties                                                              *)

TypeOK ==
    /\ main \in {"run", "drain", "drained", "stopping", "stopped"}
    /\ mode \in {"train", "eval"}
    /\ gate \in BOOLEAN /\ disabled \in BOOLEAN
    /\ evalQueue \subseteq EvalGroups
    /\ opened \subseteq Groups /\ groups \subseteq opened
    /\ toSchedule \in [Groups -> Nat]
    /\ emitted \in [Groups -> Nat]
    /\ inflight \subseteq Rollouts /\ batch \subseteq Rollouts
    /\ doneList \subseteq Rollouts
    /\ age \in [Rollouts -> Nat] /\ swaps \in [Rollouts -> Nat]
    /\ permits \in Nat /\ got \in Nat /\ dLeft \in Nat /\ wLeft \in Nat
    /\ pc \in {"fill", "pin", "acquire", "wait", "handle", "put", "stopped"}
    /\ cur \in Groups \cup {NoGroup}
    /\ wpc \in {"idle", "drop", "put", "update"}
    /\ stale \subseteq Live /\ wGroup \in Live \cup {NoGroup}
    /\ dropped \subseteq Groups
    /\ version \in 0..MaxVersion
    /\ outLen \in 0..OutCap
    /\ delivered \in [Groups -> Nat]

\* The permit counter is exactly what the tasks in flight hold plus what the
\* loop has acquired for the task it is about to create, and never exceeds
\* max_inflight_rollouts, whatever drop_group and the cancels release while
\* the loop is between two awaits (acquire, release, drop_group).
PermitsExact ==
    /\ permits = Cardinality(inflight) + got
    /\ permits <= MaxInflight

\* What a group still owes the sink: rollouts in flight, being dispatched,
\* not scheduled, or waiting in a put that blocks.
Unscheduled(g) == IF g \in groups THEN toSchedule[g] ELSE 0
Dispatching(g) == IF pc = "acquire" /\ cur = g THEN Cardinality(batch) ELSE 0
InPut(g) ==
    (IF pc = "put" /\ cur = g THEN dLeft ELSE 0)
        + (IF wpc = "put" /\ wGroup = g THEN wLeft ELSE 0)
Owed(g) ==
    Cardinality(inflight \cap Members(g)) + Unscheduled(g) + Dispatching(g)
        + InPut(g)

\* The emit-everything invariant of the module docstring: a group puts one
\* rollout per member, however drop_group, natural completion and blocked
\* puts interleave.  Never one too many; and none is missing as long as
\* nothing was cancelled without a marker, which only Drain (train groups)
\* and Stop do.
ExactlyOnce ==
    \A g \in opened :
        /\ delivered[g] + Owed(g) <= Size[g]
        /\ \/ main = "run"
           \/ main \in {"drain", "drained"} /\ g \in EvalGroups
           => delivered[g] + Owed(g) = Size[g]

\* A weight update never cancels an eval rollout or one sampled from a
\* frozen model (on_version_pending's two continues).
MeasurementsSurvive == dropped \subseteq Live

\* try_schedule continues a group before it opens another, so at most one
\* group of a kind is partly scheduled, across mode flips and drops.
OnePartialGroup ==
    \A g, h \in groups :
        /\ toSchedule[g] > 0 /\ toSchedule[h] > 0
        /\ {g, h} \subseteq TrainGroups \/ {g, h} \subseteq EvalGroups
        => g = h

\* The bound on staleness the code does give: a rollout in flight has lived
\* through at most max_off_policy_steps + 1 weight swaps, one of them in the
\* window between on_version_pending and the swap, where nothing ages it.
OffPolicyBound ==
    \A r \in inflight : r[1] \in Live => swaps[r] <= MaxOff + 1

\* is_idle's docstring: "the pipeline has fully drained".  When the main loop
\* leaves on is_idle, every eval group that was opened has been delivered.
IdleMeansDrained ==
    main = "drained" =>
        \A g \in opened \cap EvalGroups : delivered[g] = Size[g]

\* Every eval example that is triggered gets all its rollouts onto out_q,
\* also across a drain, unless the main loop has ended.
EvalCompletes ==
    \A g \in EvalGroups :
        g \in evalQueue ~>
            delivered[g] = Size[g] \/ main \notin {"run", "drain"}

\* What the sinks are promised, and that it is kept: out_q is a rollout
\* ledger, and every group opened is settled unless it is given up.
Ledger == INSTANCE RolloutLedger WITH
    accepted <- opened,
    givenUp <- CASE main = "run" -> "none" [] main = "drain" -> "train"
                 [] OTHER -> "all"

\* The dispatcher implements the ledger: whatever the interleaving, each step
\* delivers rollouts of one opened group and never more than its size.
LedgerSpec == Ledger!Spec

\* Every opened group is fully delivered, so the sink's count to group_size
\* fires, unless it is given up by a drain or a shutdown.
LedgerSettles == Ledger!AllSettled
=============================================================================
