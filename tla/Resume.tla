-------------------------------- MODULE Resume --------------------------------
(***************************************************************************)
(* Checkpoints of a run and what it continues from after it went down: the *)
(* launcher (entrypoints/rl.py, utils/pathing.py), the trainer's full      *)
(* checkpoints (trainer/ckpt.py, trainer/rl/train.py), the orchestrator's  *)
(* progress files (orchestrator/ckpt.py, orchestrator.py), and the batches *)
(* and weight broadcasts in run_default that outlive both.                 *)
(*                                                                         *)
(* Each process resolves its own resume step, from its own directory, and  *)
(* the trainer's run manager a third one, from the configuration that the  *)
(* orchestrator leaves on disk (trainer/runs.py).  What must agree are the *)
(* weights: a lineage is the sequence of batches a model was trained on, a *)
(* batch <<step, launch that sent it>>.                                    *)
(*                                                                         *)
(* One run (max_concurrent_runs = 1), weights over the filesystem, full    *)
(* checkpoints without keep_interval; a batch is sent in one step, and a   *)
(* version adopted in one step (Pipeline has the steps in between).        *)
(***************************************************************************)
EXTENDS Integers, Sequences, FiniteSets

CONSTANTS
    MaxSteps,     \* max_steps
    Intervals,    \* ckpt.interval, the values to consider
    KeepLasts,    \* ckpt.keep_last, the values to consider; 0 is None
    MaxLead,      \* batches sent ahead of the policy (Pipeline: MaxLead)
    MaxLaunches   \* bound on launches

ASSUME ResumeAssumption ==
    /\ MaxSteps \in Nat \ {0}
    /\ Intervals \subseteq Nat \ {0}
    /\ KeepLasts \subseteq Nat
    /\ MaxLead \in Nat
    /\ MaxLaunches \in Nat

Steps == 1..MaxSteps
Batches == Steps \X (1..MaxLaunches)

\* ckpt.resume_step: a step, Latest, or Unset.
Latest == -1
Unset == -2

\* What a directory holds that is not a model.
Absent == <<<<0, 0>>>>
Partial == <<<<0, 1>>>>

VARIABLES
    \* configuration
    interval,
    keepLast,
    \* disk
    batches,     \* launch that wrote the batch of a step, 0: none
    broadcasts,  \* weights of a version, or Absent
    trainerCkpt, \* per step: a model, Partial or Absent
    orchCkpt,    \* per step: "full", "partial" or "absent"
    toml,        \* resume_step in run_default/control/orch.toml, if any
    \* launcher
    launch,      \* number of launches
    choice,      \* resume_step of this launch
    base,        \* step the launcher resolved, 0: from scratch
    \* trainer
    tpc,
    tstep,       \* its progress.step
    model,       \* lineage of its weights
    next,        \* next step to receive; progress[0].step of the run manager
    ckpt_steps,  \* CheckpointManager.ckpt_steps
    \* orchestrator
    opc,
    ostep,       \* its progress.step
    version,     \* policy.version
    served,      \* lineage of the weights the inference servers have
    \* history
    skewed,      \* some launch started the processes at different steps
    rewound      \* some launch left complete checkpoints past its resume step

config == <<interval, keepLast>>
disk == <<batches, broadcasts, trainerCkpt, orchCkpt, toml>>
launchVars == <<launch, choice, base, rewound>>
trainVars == <<tpc, tstep, model, next, ckpt_steps>>
orchVars == <<opc, ostep, version, served>>
vars == <<config, disk, launchVars, trainVars, orchVars, skewed>>

Down ==
    /\ tpc' = "off" /\ tstep' = 0 /\ model' = <<>> /\ next' = 0 /\ ckpt_steps' = {}
    /\ opc' = "off" /\ ostep' = 0 /\ version' = 0 /\ served' = <<>>

Init ==
    /\ interval \in Intervals /\ keepLast \in KeepLasts
    /\ batches = [k \in Steps |-> 0] /\ broadcasts = [k \in Steps |-> Absent]
    /\ trainerCkpt = [k \in Steps |-> Absent] /\ orchCkpt = [k \in Steps |-> "absent"]
    /\ toml = {}
    /\ launch = 0 /\ choice = Unset /\ base = 0
    /\ tpc = "off" /\ tstep = 0 /\ model = <<>> /\ next = 0 /\ ckpt_steps = {}
    /\ opc = "off" /\ ostep = 0 /\ version = 0 /\ served = <<>>
    /\ skewed = FALSE /\ rewound = FALSE

-----------------------------------------------------------------------------
(* Resolution and the launcher                                             *)

TrainerSteps == {k \in Steps : trainerCkpt[k] # Absent}
OrchSteps == {k \in Steps : orchCkpt[k] # "absent"}
Complete == {k \in Steps : trainerCkpt[k] \notin {Absent, Partial}}

\* resolve_latest_ckpt_step: the newest directory, complete or not; 0: none.
NewestOf(S) == IF S = {} THEN 0 ELSE CHOOSE k \in S : \A j \in S : j <= k

\* The step a resume_step stands for, given the checkpoints in a directory.
Resolved(resume, S) ==
    CASE resume = Unset -> 0
      [] resume = Latest -> NewestOf(S)
      [] OTHER -> resume

\* Mutant: only rollouts are removed.
FutureBroadcastsKept(k, r) == broadcasts[k]

\* Mutant: only broadcasts are removed.
FutureBatchesKept(k, r) == batches[k]

\* clean_future_steps
FutureBatches(k, r) == IF k > r THEN 0 ELSE batches[k]
FutureBroadcasts(k, r) == IF k > r THEN Absent ELSE broadcasts[k]

\* A run is launched, with the resume_step the user passes: none only where
\* the trainer left no checkpoint (validate_output_dir), and one that leaves
\* a step to be trained (docs/training.md:226).
Launch(resume) ==
    /\ tpc = "off" /\ opc = "off"
    /\ launch < MaxLaunches
    /\ resume = Unset => TrainerSteps = {}
    /\ resume \notin {Unset, Latest} => resume \in TrainerSteps
    /\ launch' = launch + 1 /\ choice' = resume
    /\ base' = Resolved(resume, TrainerSteps) /\ base' < MaxSteps
    /\ rewound' = (rewound \/ \E k \in Complete : k > base')
    /\ batches' = [k \in Steps |-> FutureBatches(k, base')]
    /\ broadcasts' = [k \in Steps |-> FutureBroadcasts(k, base')]
    /\ tpc' = "start" /\ opc' = "start"
    /\ UNCHANGED <<config, trainerCkpt, orchCkpt, toml, tstep, model, next,
                   ckpt_steps, ostep, version, served, skewed>>

\* The machine goes down, or one process fails and the launcher terminates
\* the others.
Crash ==
    /\ tpc # "off"
    /\ Down
    /\ UNCHANGED <<config, disk, launchVars, skewed>>

\* Ctrl-C: the orchestrator's main loop ends in its finally, which writes a
\* checkpoint of the last step sent; a second signal may cut that short.
Interrupt ==
    /\ opc \in {"collect", "ckpt", "saving"} /\ ostep > 1
    /\ \E left \in {"partial", "full"} : orchCkpt' = [orchCkpt EXCEPT ![ostep - 1] = left]
    /\ Down
    /\ UNCHANGED <<config, batches, broadcasts, trainerCkpt, toml, launchVars, skewed>>

-----------------------------------------------------------------------------
(* Trainer                                                                 *)

TrainerBase == Resolved(choice, TrainerSteps)

TrainerCanLoad == TrainerBase = 0 \/ TrainerBase \in Complete

\* The checkpoint managers are set up and the checkpoint is loaded.
TrainerLoads ==
    /\ tpc = "start" /\ TrainerCanLoad
    /\ model' = IF TrainerBase = 0 THEN <<>> ELSE trainerCkpt[TrainerBase]
    /\ tstep' = TrainerBase + 1
    /\ ckpt_steps' = IF choice > 0 THEN {k \in TrainerSteps : k <= choice} ELSE TrainerSteps
    /\ tpc' = "discover"
    /\ UNCHANGED <<config, disk, launchVars, next, orchVars, skewed>>

\* Mutant: one step too far.
DiscoverSkips ==
    /\ tpc = "discover"
    /\ \E resume \in toml : next' = Resolved(resume, OrchSteps) + 2
    /\ skewed' = (skewed \/ next' # tstep)
    /\ tpc' = "wait"
    /\ UNCHANGED <<config, disk, launchVars, tstep, model, ckpt_steps, orchVars>>

\* discover_runs finds run_default: _create_run_data takes the step from its
\* checkpoints, by the configuration found there, this launch's or an older.
Discover ==
    /\ tpc = "discover"
    /\ \E resume \in toml : next' = Resolved(resume, OrchSteps) + 1
    /\ skewed' = (skewed \/ next' # tstep)
    /\ tpc' = "wait"
    /\ UNCHANGED <<config, disk, launchVars, tstep, model, ckpt_steps, orchVars>>

\* pack receives the batch of the run's step, and the trainer trains on it.
Train ==
    /\ tpc = "wait"
    /\ next \in Steps /\ batches[next] # 0
    /\ model' = Append(model, <<next, batches[next]>>)
    /\ next' = next + 1
    /\ tpc' = "broadcast"
    /\ UNCHANGED <<config, disk, launchVars, tstep, ckpt_steps, orchVars, skewed>>

\* Mutant: the last step is not told apart.
SavesOnInterval == tstep % interval = 0

\* What follows step tstep: its checkpoint, or the next step.
Saves == tstep = MaxSteps \/ tstep % interval = 0

\* maybe_clean: the version two steps back, unless on the interval.
Outdated(k) == k = next - 3 /\ k % interval # 0

\* broadcast_weights and maybe_clean, under the step of the run manager.
Broadcast ==
    /\ tpc = "broadcast"
    /\ broadcasts' = [k \in Steps |-> IF k = next - 1 THEN model
                                     ELSE IF Outdated(k) THEN Absent ELSE broadcasts[k]]
    /\ tpc' = IF Saves THEN "ckpt" ELSE "wait"
    /\ tstep' = IF Saves THEN tstep ELSE tstep + 1
    /\ UNCHANGED <<config, batches, trainerCkpt, orchCkpt, toml, launchVars,
                   model, next, ckpt_steps, orchVars, skewed>>

TrainerSaves ==
    /\ tpc = "ckpt" /\ tpc' = "saving"
    /\ trainerCkpt' = [trainerCkpt EXCEPT ![tstep] = Partial]
    /\ UNCHANGED <<config, batches, broadcasts, orchCkpt, toml, launchVars,
                   tstep, model, next, ckpt_steps, orchVars, skewed>>

\* Mutant: one checkpoint too many is removed.
RecentFewer(S) == {k \in S : Cardinality({j \in S : j >= k}) < keepLast}

\* The keep_last newest of S.
Recent(S) == {k \in S : Cardinality({j \in S : j > k}) < keepLast}

\* save returns, and maybe_clean removes what keep_last does not keep; after
\* the last step the trainer is done.
TrainerSaved ==
    /\ tpc = "saving"
    /\ LET known == ckpt_steps \cup {tstep}
           gone == IF keepLast = 0 THEN {} ELSE known \ Recent(known)
       IN  /\ ckpt_steps' = known \ gone
           /\ trainerCkpt' = [k \in Steps |-> IF k \in gone THEN Absent
                                ELSE IF k = tstep THEN model ELSE trainerCkpt[k]]
    /\ IF tstep = MaxSteps THEN tpc' = "done" /\ UNCHANGED tstep
       ELSE tpc' = "wait" /\ tstep' = tstep + 1
    /\ UNCHANGED <<config, batches, broadcasts, orchCkpt, toml, launchVars,
                   model, next, orchVars, skewed>>

-----------------------------------------------------------------------------
(* Orchestrator                                                            *)

WritesConfig ==
    /\ opc = "start" /\ opc' = "load"
    /\ toml' = {choice}
    /\ UNCHANGED <<config, batches, broadcasts, trainerCkpt, orchCkpt,
                   launchVars, trainVars, ostep, version, served, skewed>>

OrchBase == Resolved(choice, OrchSteps)

\* get_weight_dir: the broadcast of that step.
WeightsOf(k) == broadcasts[k]

\* Mutant: the existence of the weights is not checked.
OrchCanLoadUnchecked ==
    OrchBase # 0 => orchCkpt[OrchBase] = "full"

OrchCanLoad ==
    OrchBase # 0 => orchCkpt[OrchBase] = "full" /\ WeightsOf(OrchBase) # Absent

\* The checkpoint is loaded and the servers get the weights of its step.
OrchLoads ==
    /\ opc = "load" /\ opc' = "collect"
    /\ OrchCanLoad
    /\ served' = IF OrchBase = 0 THEN <<>> ELSE WeightsOf(OrchBase)
    /\ version' = OrchBase
    /\ ostep' = OrchBase + 1
    /\ skewed' = (skewed \/ OrchBase # base)
    /\ UNCHANGED <<config, disk, launchVars, trainVars>>

\* The batch of a step is sent and the step advanced.
Ship ==
    /\ opc = "collect" /\ ostep <= MaxSteps
    /\ (ostep - 1) - version <= MaxLead
    /\ batches' = [batches EXCEPT ![ostep] = launch]
    /\ ostep' = ostep + 1
    /\ opc' = IF ostep = MaxSteps \/ ostep % interval = 0 THEN "ckpt" ELSE "collect"
    /\ UNCHANGED <<config, broadcasts, trainerCkpt, orchCkpt, toml, launchVars,
                   trainVars, version, served, skewed>>

\* maybe_save_ckpt, or the final checkpoint once the loop has drained.
OrchSaves ==
    /\ opc = "ckpt" /\ opc' = "saving"
    /\ orchCkpt' = [orchCkpt EXCEPT ![ostep - 1] = "partial"]
    /\ UNCHANGED <<config, batches, broadcasts, trainerCkpt, toml, launchVars,
                   trainVars, ostep, version, served, skewed>>

OrchSaved ==
    /\ opc = "saving"
    /\ orchCkpt' = [orchCkpt EXCEPT ![ostep - 1] = "full"]
    /\ opc' = IF ostep > MaxSteps THEN "done" ELSE "collect"
    /\ UNCHANGED <<config, batches, broadcasts, trainerCkpt, toml, launchVars,
                   trainVars, ostep, version, served, skewed>>

\* The watcher adopts the newest version.
Published == {k \in Steps : broadcasts[k] # Absent}

Adopt ==
    /\ opc \in {"collect", "ckpt", "saving"}
    /\ NewestOf(Published) > version
    /\ version' = NewestOf(Published)
    /\ served' = broadcasts[version']
    /\ UNCHANGED <<config, disk, launchVars, trainVars, opc, ostep, skewed>>

\* A checkpoint that is not complete, or weights that are not there once the
\* orchestrator has waited for them: the process fails, and the run with it.
LoadFails ==
    /\ (tpc = "start" /\ ~ TrainerCanLoad) \/ (opc = "load" /\ ~ OrchCanLoad)
    /\ Down
    /\ UNCHANGED <<config, disk, launchVars, skewed>>

\* Both processes have ended: so does the launcher.
Exit ==
    /\ tpc = "done" /\ opc = "done"
    /\ Down
    /\ UNCHANGED <<config, disk, launchVars, skewed>>

-----------------------------------------------------------------------------
Trainer == TrainerLoads \/ Discover \/ Train \/ Broadcast \/ TrainerSaves \/ TrainerSaved

Orchestrator == WritesConfig \/ OrchLoads \/ Ship \/ OrchSaves \/ OrchSaved

Next ==
    \/ \E resume \in Steps \cup {Latest, Unset} : Launch(resume)
    \/ Crash \/ Interrupt \/ LoadFails \/ Exit
    \/ Trainer \/ Orchestrator \/ Adopt

Spec == Init /\ [][Next]_vars

\* Nobody has to launch a run again; processes that are up make progress.
FairSpec ==
    /\ Spec
    /\ WF_vars(Trainer) /\ WF_vars(Orchestrator) /\ WF_vars(Adopt)
    /\ WF_vars(LoadFails) /\ WF_vars(Exit)
-----------------------------------------------------------------------------
(* Properties                                                              *)

Loaded == tpc \notin {"off", "start"}
Running == opc \in {"collect", "ckpt", "saving", "done"}

\* Types
TypeOK ==
    /\ interval \in Intervals /\ keepLast \in KeepLasts
    /\ batches \in [Steps -> 0..MaxLaunches]
    /\ \A k \in Steps : broadcasts[k] \in Seq(Batches) \cup {Absent}
    /\ \A k \in Steps : trainerCkpt[k] \in Seq(Batches) \cup {Absent, Partial}
    /\ orchCkpt \in [Steps -> {"absent", "partial", "full"}]
    /\ toml \subseteq Steps \cup {Latest, Unset}
    /\ launch \in 0..MaxLaunches /\ base \in 0..(MaxSteps - 1)
    /\ choice \in Steps \cup {Latest, Unset}
    /\ tpc \in {"off", "start", "discover", "wait", "broadcast", "ckpt", "saving", "done"}
    /\ tstep \in 0..(MaxSteps + 1) /\ next \in 0..(MaxSteps + 1)
    /\ model \in Seq(Batches) /\ ckpt_steps \subseteq Steps
    /\ opc \in {"off", "start", "load", "collect", "ckpt", "saving", "done"}
    /\ ostep \in 0..(MaxSteps + 1) /\ version \in 0..MaxSteps
    /\ served \in Seq(Batches)
    /\ skewed \in BOOLEAN /\ rewound \in BOOLEAN
    /\ tpc = "off" <=> opc = "off"

\* A model trained on exactly the batches of the steps before, in order.
Exact(m) == \A i \in 1..Len(m) : m[i][1] = i

\* Across crashes at any point, partial checkpoints and relaunches: the
\* trainer's weights and every complete checkpoint stand for the batches
\* 1, 2, ..., none skipped or trained on twice, and those after the resume
\* step were sent since this launch.  It holds as long as the steps that
\* launcher, orchestrator and run manager resolve agree (skewed).
LineageExact ==
    ~ skewed =>
        /\ \A k \in Complete : Exact(trainerCkpt[k]) /\ Len(trainerCkpt[k]) = k
        /\ Loaded =>
            /\ Exact(model)
            /\ Len(model) = IF tpc \in {"discover", "wait"} THEN tstep - 1 ELSE tstep
            /\ \A i \in 1..Len(model) : i > base => model[i][2] = launch

\* The servers sample from weights that the trainer had on the way to its
\* own, never from those of a lineage that was given up; if the user never
\* resumed before a complete checkpoint (the checkpoints past that step stay).
PolicyFromLineage ==
    ~ skewed /\ ~ rewound /\ Loaded /\ Running =>
        version <= Len(model) /\ served = SubSeq(model, 1, version)

\* An orchestrator that is ahead of the trainer's checkpoint never starts to
\* collect: its weights are gone (the comment at orchestrator.py:330).
AheadRefused == [][OrchLoads => ostep' <= base + 1]_vars

\* A step all parts of a run can resume from.
Resumable ==
    \E k \in Complete : orchCkpt[k] = "full" /\ broadcasts[k] = trainerCkpt[k]

\* A complete progress file is opened to be written anew, in place: one that
\* an earlier launch left, or the one an interrupt writes a second time.
Truncates == \E k \in Steps : orchCkpt[k] = "full" /\ orchCkpt'[k] = "partial"

\* Once there is such a step there is always one, whenever the run goes down:
\* the two checkpoints of a step, written by two processes, are never both
\* missing with all older ones removed.  keep_last = 1 may remove the last
\* one (orchestrator.py:558), a rewind and a rewritten file may as well.
StaysResumable ==
    [][Resumable /\ keepLast # 1 /\ ~ skewed' /\ ~ rewound' /\ ~ Truncates
        => Resumable']_vars

\* A launch whose processes agree ends: the run is finished, or down.
AlignedFinishes ==
    (tpc # "off" /\ ~ skewed) ~> (tpc = "off" \/ skewed)
=============================================================================
