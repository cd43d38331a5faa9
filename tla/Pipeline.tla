------------------------------- MODULE Pipeline -------------------------------
(***************************************************************************)
(* The loop that three processes of a run close: the orchestrator's main   *)
(* loop ships training batches (orchestrator.py), the trainer trains one   *)
(* step on each and broadcasts the new weights (trainer/rl/train.py and    *)
(* its broadcast/ package), and the weight watcher adopts them into the    *)
(* inference servers (watcher.py, utils/client.py).  The dispatch gate     *)
(* keeps the orchestrator from running too far ahead of the policy.        *)
(*                                                                         *)
(* Orchestrator and watcher are tasks of one event loop: an action is the  *)
(* code from one await to the next.  The trainer is a process of its own   *)
(* and meets them only in files: the batch of a step, the directory of a   *)
(* version with its STABLE and NCCL_READY markers.                         *)
(*                                                                         *)
(* A rollout is a unit of work: work counts those past the gate that will  *)
(* be in a batch and are not yet, in flight, queued or buffered in the     *)
(* train sink; one that errs or that the pre-batch filters drop fills no   *)
(* batch and is not counted.  Dispatcher and the sinks bound it; here      *)
(* MaxWork stands for that bound.  The configuration (transport, keep) is  *)
(* chosen in Init.                                                         *)
(***************************************************************************)
EXTENDS Integers

CONSTANTS
    MaxSteps,     \* max_steps, the same for orchestrator and trainer
    MaxOff,       \* max_off_policy_steps
    BatchSize,    \* rollouts in a batch
    MaxWork,      \* bound on rollouts past the gate and not in a batch
    MaxEmpty,     \* MAX_CONSECUTIVE_EMPTY_BATCHES
    Transports,   \* weight_broadcast.type, the values to consider
    Intervals,    \* ckpt.interval, the values to consider; 0 is None
    MaxFailures   \* bound on broadcasts that fail

ASSUME SizeAssumption ==
    /\ MaxSteps \in Nat \ {0}
    /\ MaxOff \in Nat
    /\ BatchSize \in Nat \ {0}
    /\ MaxWork \in Nat
    /\ MaxEmpty \in Nat \ {0}
    /\ MaxFailures \in Nat

ASSUME ConfigAssumption ==
    /\ Transports \subseteq {"filesystem", "nccl"}
    /\ Intervals \subseteq Nat

VARIABLES
    \* configuration
    transport,  \* weight_broadcast.type
    keep,       \* interval_to_keep: ckpt.interval
    \* orchestrator
    opc,        \* its main loop
    step,       \* progress.step: the batch being collected
    sent,       \* last batch the trainer can see
    gate,       \* dispatch_allowed
    empties,    \* consecutive_empty_batches
    work,
    \* weight watcher
    wpc,
    target,     \* next_step
    version,    \* policy.version
    \* trainer
    tpc,
    trained,    \* last step trained
    failures,   \* broadcasts that failed
    \* shared directory broadcasts/
    stable,     \* versions whose directory holds weights and STABLE
    ready       \* versions whose directory holds NCCL_READY

config == <<transport, keep>>
orchVars == <<opc, step, sent, gate, empties, work>>
watchVars == <<wpc, target, version>>
trainVars == <<tpc, trained, failures>>
dirVars == <<stable, ready>>
vars == <<config, orchVars, watchVars, trainVars, dirVars>>

Init ==
    /\ transport \in Transports /\ keep \in Intervals
    /\ opc = "collect" /\ step = 1 /\ sent = 0
    /\ gate = TRUE /\ empties = 0 /\ work = 0
    /\ wpc = "poll" /\ target = 0 /\ version = 0
    /\ tpc = "wait" /\ trained = 0 /\ failures = 0
    /\ stable = {} /\ ready = {}

-----------------------------------------------------------------------------
(* The dispatch gate: update_dispatch_gate                                 *)

MaxLead == IF MaxOff + 1 > 1 THEN MaxOff + 1 ELSE 1

\* Shipped batches ahead of the policy, for a progress.step and a version.
Lead(s, v) == (s - 1) - v

\* Mutant: off by one in the lead.
GateForLate(s, v) == Lead(s, v) <= MaxLead + 1

GateFor(s, v) == Lead(s, v) <= MaxLead

-----------------------------------------------------------------------------
(* Orchestrator                                                            *)

Collecting == opc \in {"collect", "ship", "sent"}

\* The dispatcher starts a rollout: its loop runs beside the main loop.
Dispatch ==
    /\ Collecting
    /\ gate
    /\ work < MaxWork
    /\ work' = work + 1
    /\ UNCHANGED <<config, opc, step, sent, gate, empties, watchVars,
                   trainVars, dirVars>>

\* Mutant: the batch past max_steps is shipped.
TakeBatchPastEnd ==
    /\ opc = "collect"
    /\ work >= BatchSize
    /\ work' = work - BatchSize
    /\ empties' = 0
    /\ opc' = "ship"
    /\ UNCHANGED <<config, step, sent, gate, watchVars, trainVars, dirVars>>

\* The sink returns a batch: finalize_train_batch up to its first await.
TakeBatch ==
    /\ opc = "collect" /\ step <= MaxSteps
    /\ work >= BatchSize
    /\ work' = work - BatchSize
    /\ empties' = 0
    /\ opc' = "ship"
    /\ UNCHANGED <<config, step, sent, gate, watchVars, trainVars, dirVars>>

\* The batch has no samples: all its rollouts errored or were filtered out.
TakeEmptyBatch ==
    /\ opc = "collect" /\ step <= MaxSteps
    /\ work >= BatchSize
    /\ work' = work - BatchSize
    /\ empties' = empties + 1
    /\ opc' = IF empties + 1 >= MaxEmpty THEN "failing" ELSE "collect"
    /\ UNCHANGED <<config, step, sent, gate, watchVars, trainVars, dirVars>>

\* sender.send: the worker thread renames the batch file into place, and the
\* trainer may act on it before the orchestrator's task resumes.
Send ==
    /\ opc = "ship"
    /\ sent' = step
    /\ opc' = "sent"
    /\ UNCHANGED <<config, step, gate, empties, work, watchVars, trainVars,
                   dirVars>>

Advance ==
    /\ opc = "sent"
    /\ step' = step + 1
    /\ gate' = GateFor(step + 1, version)
    /\ opc' = "collect"
    /\ UNCHANGED <<config, sent, empties, work, watchVars, trainVars, dirVars>>

\* The batch past max_steps is not shipped: it starts the drain, which
\* cancels the train rollouts; what is still queued is dropped later.
Drain ==
    /\ opc = "collect" /\ step > MaxSteps
    /\ work >= BatchSize
    /\ work' = 0
    /\ opc' = "drain"
    /\ UNCHANGED <<config, step, sent, gate, empties, watchVars, trainVars,
                   dirVars>>

\* The dispatcher is idle: the main loop ends.
Exit ==
    /\ opc = "drain"
    /\ opc' = "stopping"
    /\ UNCHANGED <<config, step, sent, gate, empties, work, watchVars,
                   trainVars, dirVars>>

\* stop(), after a clean exit or an error: the watcher's task is cancelled at
\* whatever it awaits.
Stop ==
    /\ opc \in {"stopping", "failing"}
    /\ opc' = IF opc = "failing" THEN "failed" ELSE "done"
    /\ wpc' = "stopped"
    /\ UNCHANGED <<config, step, sent, gate, empties, work, target, version,
                   trainVars, dirVars>>

-----------------------------------------------------------------------------
(* Weight watcher                                                          *)

\* compute_next_ckpt_step: the freshest version with a STABLE marker.
Poll(v) ==
    /\ wpc = "poll"
    /\ v \in stable /\ \A u \in stable : u <= v
    /\ v > version
    /\ target' = v
    /\ wpc' = "check"
    /\ UNCHANGED <<config, orchVars, version, trainVars, dirVars>>

\* apply_policy_update waits for STABLE of that version, without a timeout,
\* then tells the observers: the dispatcher drops stale groups.
AnnounceVersion ==
    /\ wpc = "check"
    /\ target \in stable
    /\ \E n \in 0..work : work' = work - n
    /\ wpc' = "pending"
    /\ UNCHANGED <<config, opc, step, sent, gate, empties, target, version,
                   trainVars, dirVars>>

\* update_weights: the engines are paused, NCCL_READY is written and the
\* servers are asked to load the version.
StartUpdate ==
    /\ wpc = "pending"
    /\ ready' = ready \cup {target}
    /\ wpc' = "load"
    /\ UNCHANGED <<config, orchVars, target, version, trainVars, stable>>

\* Sending and receiving is collective: the servers are done with a version
\* only when the trainer has sent it.
Received == ~(tpc = "transfer" /\ trained = target)

FinishUpdate ==
    /\ wpc = "load"
    /\ IF transport = "nccl" THEN Received ELSE target \in stable
    /\ version' = target
    /\ wpc' = "notify"
    /\ UNCHANGED <<config, orchVars, target, trainVars, dirVars>>

\* The servers cannot read weights that have been removed; update_weights
\* raises, and nothing restarts the watcher's task.
UpdateFails ==
    /\ wpc = "load"
    /\ transport = "filesystem" /\ target \notin stable
    /\ wpc' = "dead"
    /\ UNCHANGED <<config, orchVars, target, version, trainVars, dirVars>>

\* Mutant: the gate is not evaluated again.
NewVersionIgnored ==
    /\ wpc = "notify"
    /\ wpc' = "poll"
    /\ UNCHANGED <<config, orchVars, target, version, trainVars, dirVars>>

\* on_new_version
NewVersion ==
    /\ wpc = "notify"
    /\ gate' = GateFor(step, version)
    /\ wpc' = "poll"
    /\ UNCHANGED <<config, opc, step, sent, empties, work, target, version,
                   trainVars, dirVars>>

-----------------------------------------------------------------------------
(* Trainer                                                                 *)

\* The loop ends after max_steps, else it waits for the next batch.
Continue(n) == IF n = MaxSteps THEN "exited" ELSE "wait"

\* The last NCCL broadcasts are skipped.
Skips(n) == transport = "nccl" /\ n >= MaxSteps - 1

\* Mutant: the trainer does not wait for its batch.
TrainStepEarly ==
    /\ tpc = "wait"
    /\ trained <= sent
    /\ trained' = trained + 1
    /\ tpc' = IF Skips(trained + 1) THEN Continue(trained + 1) ELSE "broadcast"
    /\ UNCHANGED <<config, orchVars, watchVars, failures, dirVars>>

TrainStep ==
    /\ tpc = "wait"
    /\ trained < sent
    /\ trained' = trained + 1
    /\ tpc' = IF Skips(trained + 1) THEN Continue(trained + 1) ELSE "broadcast"
    /\ UNCHANGED <<config, orchVars, watchVars, failures, dirVars>>

\* broadcast_weights up to the STABLE marker.
Publish ==
    /\ tpc = "broadcast"
    /\ stable' = stable \cup {trained}
    /\ tpc' = IF transport = "nccl" THEN "transfer" ELSE "clean"
    /\ UNCHANGED <<config, orchVars, watchVars, trained, failures, ready>>

\* An error while saving to the filesystem is logged, and no more.
PublishFails ==
    /\ tpc = "broadcast" /\ transport = "filesystem"
    /\ failures < MaxFailures
    /\ failures' = failures + 1
    /\ tpc' = "clean"
    /\ UNCHANGED <<config, orchVars, watchVars, trained, dirVars>>

\* Mutant: the trainer does not wait for NCCL_READY.
TransferUnready ==
    /\ tpc = "transfer"
    /\ tpc' = Continue(trained)
    /\ UNCHANGED <<config, orchVars, watchVars, trained, failures, dirVars>>

\* _wait_for_nccl_ready, without a timeout, then the collective.
Transfer ==
    /\ tpc = "transfer"
    /\ trained \in ready
    /\ tpc' = Continue(trained)
    /\ UNCHANGED <<config, orchVars, watchVars, trained, failures, dirVars>>

\* maybe_clean: the version two steps back, unless on the interval.
Outdated == IF trained - 2 > 0 THEN trained - 2 ELSE 0


Keeps(v) == keep > 0 /\ v % keep = 0

Clean ==
    /\ tpc = "clean"
    /\ stable' = IF Keeps(Outdated) THEN stable ELSE stable \ {Outdated}
    /\ ready' = IF Keeps(Outdated) THEN ready ELSE ready \ {Outdated}
    /\ tpc' = Continue(trained)
    /\ UNCHANGED <<config, orchVars, watchVars, trained, failures>>

\* The launcher terminates the run when the orchestrator fails.
Terminate ==
    /\ opc = "failed" /\ tpc \notin {"exited", "killed"}
    /\ tpc' = "killed"
    /\ UNCHANGED <<config, orchVars, watchVars, trained, failures, dirVars>>

-----------------------------------------------------------------------------
Orchestrator ==
    \/ TakeBatch \/ TakeEmptyBatch \/ Send \/ Advance
    \/ Drain \/ Exit \/ Stop

Watcher ==
    \/ \E v \in 1..MaxSteps : Poll(v)
    \/ AnnounceVersion \/ StartUpdate \/ FinishUpdate \/ UpdateFails
    \/ NewVersion

Trainer ==
    \/ TrainStep \/ Publish \/ PublishFails \/ Transfer \/ Clean

Next == Dispatch \/ Orchestrator \/ Watcher \/ Trainer \/ Terminate

Spec == Init /\ [][Next]_vars

(***************************************************************************)
(* Fairness.  Each task and process takes a step when it can: the event    *)
(* loop and the operating system run what is ready.  The dispatcher keeps  *)
(* starting rollouts while the gate is open, envs finish them, and not all *)
(* of them for ever err or are filtered out.                               *)
(***************************************************************************)
Fairness ==
    /\ WF_vars(Dispatch) /\ WF_vars(Orchestrator)
    /\ WF_vars(Watcher) /\ WF_vars(Trainer) /\ WF_vars(Terminate)

FairSpec == Spec /\ Fairness

-----------------------------------------------------------------------------
(* Properties                                                              *)

TypeOK ==
    /\ transport \in Transports /\ keep \in Intervals
    /\ opc \in {"collect", "ship", "sent", "drain", "stopping", "done",
                 "failing", "failed"}
    /\ step \in 1..(MaxSteps + 1) /\ sent \in 0..MaxSteps
    /\ gate \in BOOLEAN
    /\ empties \in 0..MaxEmpty
    /\ work \in 0..MaxWork
    /\ wpc \in {"poll", "check", "pending", "load", "notify", "dead",
                 "stopped"}
    /\ target \in 0..MaxSteps /\ version \in 0..MaxSteps
    /\ tpc \in {"wait", "broadcast", "transfer", "clean", "exited", "killed"}
    /\ trained \in 0..MaxSteps
    /\ failures \in 0..MaxFailures
    /\ stable \subseteq 1..MaxSteps /\ ready \subseteq 1..MaxSteps

\* "The orchestrator's barrier bounds the in-flight lead" (watcher.py): the
\* gate stops dispatching, not shipping, so batches filled from rollouts
\* already past it still go out.  The trainer is at most max_lead + 1 batches
\* ahead of the policy, plus the whole batches those rollouts can fill.
LeadBound == BatchSize * ((sent - version) - (MaxLead + 1)) <= MaxWork

\* The gate is never left as an earlier lead put it: shipping and adopting a
\* version interleave at their awaits, and whenever no adoption is half done
\* the gate says what the current lead says.  A gate left closed stops the
\* run; one left open lets the orchestrator race ahead of the trainer.
GateTracksLead ==
    Collecting /\ wpc # "notify" => (gate <=> GateFor(step, version))

\* The NCCL broadcast is a collective: servers that load a version must meet
\* the trainer sending that very version.  The watcher takes the versions
\* one by one, and the trainer is sending the watcher's version or has done so.
NcclPairs ==
    transport = "nccl" /\ wpc \in {"check", "pending", "load"} =>
        /\ target = version + 1
        /\ wpc # "load" => tpc = "transfer" /\ trained = target

\* trainer/utils.py, maybe_clean: the version two steps back "is therefore
\* safe to remove", for the orchestrator is consuming a later one.  So the
\* version the servers are loading is there until they are done.
CleanSafe ==
    transport = "filesystem" /\ wpc = "load" => target \in stable

\* Batches, training steps and policy versions follow each other as
\* PolicyLoop says: nothing is trained before it is sent, no version is
\* adopted before it is trained or after a later one.
Loop == INSTANCE PolicyLoop
LoopSpec == Loop!Spec


\* trainer/rl/train.py: the broadcasts "have no receiver" only from the
\* penultimate step on, and these are skipped; so the trainer, too, leaves
\* at the end of an NCCL run.
TrainerFinishes ==
    transport = "nccl" => <>(tpc \in {"exited", "killed"})
=============================================================================
