------------------------------ MODULE ResumeProofs ------------------------------
(***************************************************************************)
(* Proofs about the two trainers' checkpoints, for every value of the      *)
(* constants.  Resume (the RL trainer and the orchestrator): types, what a *)
(* launch leaves past its resume step, and that no lineage skips or        *)
(* repeats a batch.  SftData (the SFT trainer): types and the room in the  *)
(* buckets, and that every sample read is trained exactly once.            *)
(***************************************************************************)
EXTENDS Resume, SftData, SeqToolsProofs, FiniteSetTheorems, WellFoundedInduction, SequenceTheorems, TLAPS

\* The markers of a directory without a model are no models.
LEMMA Markers ==
    Absent \notin Seq(Batches) /\ Partial \notin Seq(Batches) /\ Absent # Partial
<1>1. ASSUME NEW m \in Seq(Batches), Len(m) = 1 PROVE m[1][1] \in Steps
  BY <1>1 DEF Batches
<1>2. Absent[1][1] \notin Steps /\ Partial[1][1] \notin Steps
  BY DEF Absent, Partial, Steps
<1>3. Len(Absent) = 1 /\ Len(Partial) = 1 /\ Absent # Partial
  BY DEF Absent, Partial
<1> QED BY <1>1, <1>2, <1>3

\* A non-empty set of natural numbers has a least element.
LEMMA LeastExists ==
    ASSUME NEW S \in SUBSET Nat, S # {}
    PROVE  \E x \in S : \A y \in S : x <= y
<1> DEFINE R == {pair \in Nat \X Nat : pair[1] < pair[2]}
<1>1. R = OpToRel(<, Nat)
  BY Zenon DEF OpToRel
<1>2. IsWellFoundedOn(R, Nat)
  BY <1>1, NatLessThanWellFounded, Zenon
<1>3. PICK x \in S : \A y \in S : ~ <<y, x>> \in R
  <2> HIDE DEF R
  <2> QED BY <1>2, WFMin
<1>4. \A y \in S : x \in Nat /\ y \in Nat /\ ~ (y < x)
  BY <1>3
<1> QED BY <1>4

\* NewestOf finds the newest step of a directory.
LEMMA NewestCorrect ==
    ASSUME NEW S \in SUBSET Steps
    PROVE  /\ S = {} => NewestOf(S) = 0
           /\ S # {} => NewestOf(S) \in S /\ \A j \in S : j <= NewestOf(S)
<1>1. CASE S = {}
  BY <1>1 DEF NewestOf
<1>2. CASE S # {}
  <2> DEFINE T == {MaxSteps - k : k \in S}
  <2>1. T \in SUBSET Nat /\ T # {}
    <3>1. \A k \in S : MaxSteps - k \in Nat
      BY ResumeAssumption DEF Steps
    <3>2. \A k \in S : MaxSteps - k \in T
      OBVIOUS
    <3> QED BY <1>2, <3>1, <3>2
  <2>2. PICK x \in T : \A y \in T : x <= y
    <3> HIDE DEF T
    <3> QED BY <2>1, LeastExists
  <2>3. PICK k \in S : x = MaxSteps - k
    BY <2>2
  <2>4. \A j \in S : j <= k
    <3> TAKE j \in S
    <3>1. MaxSteps - j \in T
      OBVIOUS
    <3>2. MaxSteps - k <= MaxSteps - j
      BY <2>2, <2>3, <3>1
    <3> QED BY <3>2, ResumeAssumption DEF Steps
  <2> QED BY <1>2, <2>4 DEF NewestOf
<1> QED BY <1>1, <1>2

LaunchChoices == Steps \cup {Latest, Unset}

\* A resume_step stands for a step or, 0, for none.
LEMMA ResolvedStep ==
    ASSUME NEW S \in SUBSET Steps, NEW resume \in LaunchChoices
    PROVE  Resolved(resume, S) \in 0..MaxSteps
<1>1. NewestOf(S) \in 0..MaxSteps
  <2>1. NewestOf(S) = 0 \/ NewestOf(S) \in Steps
    BY NewestCorrect
  <2> QED BY <2>1, ResumeAssumption DEF Steps
<1> QED BY <1>1, ResumeAssumption DEF Resolved, LaunchChoices, Steps, Latest, Unset

-----------------------------------------------------------------------------
(* Types                                                                   *)

\* What the program counters imply: the trainer loads the step the launcher
\* resolved, so that it has a step left to train.
Control ==
    /\ tpc = "start" => TrainerBase = base
    /\ Loaded => tstep \in Steps
    /\ Running => ostep \in Nat \ {0}

\* The types hold before the first launch.
LEMMA InitTypes == Init => TypeOK /\ Control
<1> SUFFICES ASSUME Init PROVE TypeOK /\ Control
  OBVIOUS
<1>1. <<>> \in Seq(Batches)
  BY EmptySeq
<1>2. 0 \in 0..MaxLaunches /\ 0 \in 0..(MaxSteps - 1) /\ 0 \in 0..(MaxSteps + 1) /\ 0 \in 0..MaxSteps
  BY ResumeAssumption
<1>3. /\ batches \in [Steps -> 0..MaxLaunches]
      /\ orchCkpt \in [Steps -> {"absent", "partial", "full"}]
      /\ \A k \in Steps : broadcasts[k] = Absent /\ trainerCkpt[k] = Absent
  BY <1>2 DEF Init
<1> QED
  BY <1>1, <1>2, <1>3 DEF Init, TypeOK, Control, Loaded, Running

\* What is read off the directories are steps.
LEMMA StepTypes ==
    ASSUME TypeOK
    PROVE  /\ TrainerSteps \in SUBSET Steps /\ OrchSteps \in SUBSET Steps
           /\ Published \in SUBSET Steps
           /\ Complete \subseteq TrainerSteps
           /\ TrainerBase \in 0..MaxSteps /\ OrchBase \in 0..MaxSteps
           /\ \A k \in Complete : trainerCkpt[k] \in Seq(Batches)
           /\ \A k \in Published : broadcasts[k] \in Seq(Batches)
<1>1. /\ TrainerSteps \in SUBSET Steps /\ OrchSteps \in SUBSET Steps
      /\ Published \in SUBSET Steps /\ Complete \subseteq TrainerSteps
  BY DEF TrainerSteps, OrchSteps, Published, Complete
<1>2. choice \in LaunchChoices
  BY DEF TypeOK, LaunchChoices
<1>3. TrainerBase \in 0..MaxSteps /\ OrchBase \in 0..MaxSteps
  BY <1>1, <1>2, ResolvedStep DEF TrainerBase, OrchBase
<1>4. \A k \in Complete : trainerCkpt[k] \in Seq(Batches)
  BY DEF TypeOK, Complete
<1>5. \A k \in Published : broadcasts[k] \in Seq(Batches)
  BY DEF TypeOK, Published
<1> QED BY <1>1, <1>3, <1>4, <1>5

\* The type invariant is inductive together with Control.
LEMMA NextTypes ==
    ASSUME TypeOK, Control, [Next]_vars
    PROVE  TypeOK' /\ Control'
<1> USE ResumeAssumption DEF config, disk, launchVars, trainVars, orchVars
<1>0. <<>> \in Seq(Batches)
  BY EmptySeq
<1>1. ASSUME NEW resume \in Steps \cup {Latest, Unset}, Launch(resume)
      PROVE  TypeOK' /\ Control'
  <2>1. base' \in 0..(MaxSteps - 1)
    <3>1. base' \in 0..MaxSteps
      BY <1>1, StepTypes, ResolvedStep DEF Launch, LaunchChoices
    <3> QED BY <1>1, <3>1 DEF Launch
  <2>2. batches' \in [Steps -> 0..MaxLaunches]
    BY <1>1 DEF Launch, FutureBatches, TypeOK
  <2>3. \A k \in Steps : broadcasts'[k] \in Seq(Batches) \cup {Absent}
    BY <1>1 DEF Launch, FutureBroadcasts, TypeOK
  <2>4. TypeOK'
    BY <1>1, <2>1, <2>2, <2>3 DEF Launch, TypeOK
  <2>5. TrainerBase' = base'
    BY <1>1 DEF Launch, TrainerBase, TrainerSteps
  <2> QED BY <1>1, <2>4, <2>5 DEF Launch, Control, Loaded, Running
<1>2. ASSUME Down, UNCHANGED <<config, batches, broadcasts, trainerCkpt, toml, launchVars, skewed>>,
             orchCkpt' \in [Steps -> {"absent", "partial", "full"}]
      PROVE  TypeOK' /\ Control'
  <2>1. TypeOK'
    BY <1>0, <1>2 DEF Down, TypeOK
  <2> QED BY <1>2, <2>1 DEF Down, Control, Loaded, Running
<1>3. CASE Crash \/ LoadFails \/ Exit
  BY <1>2, <1>3 DEF Crash, LoadFails, Exit, TypeOK
<1>4. CASE Interrupt
  BY <1>2, <1>4 DEF Interrupt, TypeOK
<1>5. CASE TrainerLoads
  <2>1. TrainerBase = base /\ base \in 0..(MaxSteps - 1)
    BY <1>5 DEF TrainerLoads, Control, TypeOK
  <2>2. model' \in Seq(Batches)
    BY <1>0, <1>5, StepTypes DEF TrainerLoads, TrainerCanLoad
  <2>3. tstep' \in Steps
    BY <1>5, <2>1 DEF TrainerLoads, Steps
  <2>4. ckpt_steps' \subseteq Steps
    BY <1>5, StepTypes DEF TrainerLoads
  <2>5. TypeOK'
    <3>1. tstep' \in 0..(MaxSteps + 1)
      BY <2>3 DEF Steps
    <3>2. tpc' = "discover" /\ opc' = opc /\ opc # "off"
      BY <1>5 DEF TrainerLoads, TypeOK
    <3> QED BY <1>5, <2>2, <2>4, <3>1, <3>2 DEF TrainerLoads, TypeOK
  <2> QED BY <1>5, <2>3, <2>5 DEF TrainerLoads, Control, Loaded, Running
<1>6. CASE Discover
  <2>1. next' \in 0..(MaxSteps + 1)
    <3>1. PICK resume \in toml : next' = Resolved(resume, OrchSteps) + 1
      BY <1>6 DEF Discover
    <3>2. resume \in LaunchChoices
      BY <3>1 DEF TypeOK, LaunchChoices
    <3>3. Resolved(resume, OrchSteps) \in 0..MaxSteps
      BY <3>2, StepTypes, ResolvedStep
    <3> QED BY <3>1, <3>3
  <2>2. skewed' \in BOOLEAN
    BY <1>6 DEF Discover, TypeOK
  <2>3. TypeOK'
    BY <1>6, <2>1, <2>2 DEF Discover, TypeOK
  <2> QED BY <1>6, <2>3 DEF Discover, Control, Loaded, Running
<1>7. CASE Train
  <2>1. next \in Steps /\ <<next, batches[next]>> \in Batches
    BY <1>7 DEF Train, TypeOK, Batches
  <2>2. model' \in Seq(Batches)
    BY <1>7, <2>1, AppendProperties DEF Train, TypeOK
  <2>3. TypeOK'
    <3>1. next' \in 0..(MaxSteps + 1)
      BY <1>7, <2>1 DEF Train, Steps
    <3> QED BY <1>7, <2>2, <3>1 DEF Train, TypeOK
  <2> QED BY <1>7, <2>3 DEF Train, Control, Loaded, Running
<1>8. CASE Broadcast
  <2>1. tstep' \in Steps
    BY <1>8 DEF Broadcast, Saves, Control, Loaded, Steps
  <2>2. \A k \in Steps : broadcasts'[k] \in Seq(Batches) \cup {Absent}
    BY <1>8 DEF Broadcast, TypeOK
  <2>3. TypeOK'
    <3>1. tstep' \in 0..(MaxSteps + 1)
      BY <2>1 DEF Steps
    <3> QED BY <1>8, <2>2, <3>1 DEF Broadcast, TypeOK
  <2> QED BY <1>8, <2>1, <2>3 DEF Broadcast, Control, Loaded, Running
<1>9. CASE TrainerSaves
  <2>1. \A k \in Steps : trainerCkpt'[k] \in Seq(Batches) \cup {Absent, Partial}
    BY <1>9 DEF TrainerSaves, TypeOK
  <2>2. TypeOK'
    BY <1>9, <2>1 DEF TrainerSaves, TypeOK
  <2> QED BY <1>9, <2>2 DEF TrainerSaves, Control, Loaded, Running
<1>10. CASE TrainerSaved
  <2>1. tstep \in Steps
    BY <1>10 DEF TrainerSaved, Control, Loaded
  <2>2. \A k \in Steps : trainerCkpt'[k] \in Seq(Batches) \cup {Absent, Partial}
    BY <1>10 DEF TrainerSaved, TypeOK
  <2>3. ckpt_steps' \subseteq Steps
    BY <1>10, <2>1 DEF TrainerSaved, TypeOK
  <2>4. tstep' \in Steps /\ tpc' \in {"done", "wait"}
    BY <1>10, <2>1 DEF TrainerSaved, Steps
  <2>5. TypeOK'
    <3>1. tstep' \in 0..(MaxSteps + 1)
      BY <2>4 DEF Steps
    <3> QED BY <1>10, <2>2, <2>3, <2>4, <3>1 DEF TrainerSaved, TypeOK
  <2> QED BY <1>10, <2>4, <2>5 DEF TrainerSaved, Control, Loaded, Running
<1>11. CASE WritesConfig
  <2>1. TypeOK'
    BY <1>11 DEF WritesConfig, TypeOK
  <2>2. TrainerBase' = TrainerBase
    BY <1>11 DEF WritesConfig, TrainerBase, TrainerSteps
  <2> QED BY <1>11, <2>1, <2>2 DEF WritesConfig, Control, Loaded, Running
<1>12. CASE OrchLoads
  <2>1. served' \in Seq(Batches)
    <3>1. CASE OrchBase = 0
      BY <1>0, <1>12, <3>1 DEF OrchLoads
    <3>2. CASE OrchBase # 0
      <4>1. OrchBase \in Steps
        BY <3>2, StepTypes DEF Steps
      <4>2. broadcasts[OrchBase] \in Seq(Batches)
        BY <1>12, <3>2, <4>1 DEF OrchLoads, OrchCanLoad, WeightsOf, TypeOK
      <4> QED BY <1>12, <3>2, <4>2 DEF OrchLoads, WeightsOf
    <3> QED BY <3>1, <3>2
  <2>2. version' \in 0..MaxSteps /\ ostep' \in 1..(MaxSteps + 1)
    BY <1>12, StepTypes DEF OrchLoads
  <2>3. skewed' \in BOOLEAN
    BY <1>12 DEF OrchLoads, TypeOK
  <2>4. TypeOK'
    BY <1>12, <2>1, <2>2, <2>3 DEF OrchLoads, TypeOK
  <2>5. TrainerBase' = TrainerBase
    BY <1>12 DEF OrchLoads, TrainerBase, TrainerSteps
  <2> QED BY <1>12, <2>2, <2>4, <2>5 DEF OrchLoads, Control, Loaded, Running
<1>13. CASE Ship
  <2>1. ostep \in Steps /\ ostep' = ostep + 1
    BY <1>13 DEF Ship, Control, Running, TypeOK, Steps
  <2>2. batches' \in [Steps -> 0..MaxLaunches]
    BY <1>13 DEF Ship, TypeOK
  <2>3. TypeOK'
    <3>1. ostep' \in 0..(MaxSteps + 1)
      BY <2>1 DEF Steps
    <3> QED BY <1>13, <2>2, <3>1 DEF Ship, TypeOK
  <2>4. TrainerBase' = TrainerBase
    BY <1>13 DEF Ship, TrainerBase, TrainerSteps
  <2> QED BY <1>13, <2>1, <2>3, <2>4 DEF Ship, Control, Loaded, Running, Steps
<1>14. CASE OrchSaves \/ OrchSaved
  <2>1. orchCkpt' \in [Steps -> {"absent", "partial", "full"}]
    BY <1>14 DEF OrchSaves, OrchSaved, TypeOK
  <2>2. TypeOK'
    BY <1>14, <2>1 DEF OrchSaves, OrchSaved, TypeOK
  <2>3. TrainerBase' = TrainerBase
    BY <1>14 DEF OrchSaves, OrchSaved, TrainerBase, TrainerSteps
  <2> QED BY <1>14, <2>2, <2>3 DEF OrchSaves, OrchSaved, Control, Loaded, Running
<1>15. CASE Adopt
  <2>1. version' \in Published /\ version' = NewestOf(Published)
    BY <1>15, StepTypes, NewestCorrect DEF Adopt, TypeOK
  <2>2. version' \in 0..MaxSteps /\ served' \in Seq(Batches)
    BY <1>15, <2>1, StepTypes DEF Adopt, Steps
  <2>3. TypeOK'
    BY <1>15, <2>2 DEF Adopt, TypeOK
  <2>4. TrainerBase' = TrainerBase
    BY <1>15 DEF Adopt, TrainerBase, TrainerSteps
  <2> QED BY <1>15, <2>3, <2>4 DEF Adopt, Control, Loaded, Running
<1>16. CASE UNCHANGED vars
  BY <1>16 DEF vars, TypeOK, Control, Loaded, Running, TrainerBase, TrainerSteps
<1> QED
  BY <1>1, <1>3, <1>4, <1>5, <1>6, <1>7, <1>8, <1>9, <1>10, <1>11, <1>12, <1>13, <1>14, <1>15, <1>16
  DEF Next, Trainer, Orchestrator

\* Every reachable state is well typed; in particular both processes stay
\* within the steps of the run, whatever they resumed from.
THEOREM TypeCorrect == Spec => []TypeOK
<1>1. Spec => [](TypeOK /\ Control)
  BY InitTypes, NextTypes, PTL DEF Spec
<1> QED BY <1>1, PTL

-----------------------------------------------------------------------------
(* What a launch finds past its resume step                                *)

\* Past the resume step there are only batches of this launch, and until the
\* orchestrator has loaded its checkpoint neither batches nor weights.
FutureClean ==
    /\ tpc # "off" => \A k \in Steps : k > base => batches[k] \in {0, launch}
    /\ opc \in {"start", "load"} =>
        /\ \A k \in Steps : k > base => batches[k] = 0 /\ broadcasts[k] = Absent
        /\ tpc = "broadcast" => next - 1 <= base

\* Nothing was written yet.
LEMMA InitFuture == Init => FutureClean
BY DEF Init, FutureClean

\* A launch cleans what is ahead of it, and its processes add only their own.
LEMMA NextFuture ==
    ASSUME TypeOK, FutureClean, [Next]_vars
    PROVE  FutureClean'
<1> USE DEF config, disk, launchVars, trainVars, orchVars
<1>1. ASSUME NEW resume \in Steps \cup {Latest, Unset}, Launch(resume)
      PROVE  FutureClean'
  <2>1. \A k \in Steps : k > base' => batches'[k] = 0 /\ broadcasts'[k] = Absent
    BY <1>1 DEF Launch, FutureBatches, FutureBroadcasts
  <2> QED BY <1>1, <2>1 DEF Launch, FutureClean
<1>2. CASE Crash \/ Interrupt \/ LoadFails \/ Exit
  BY <1>2 DEF Crash, Interrupt, LoadFails, Exit, Down, FutureClean
<1>3. CASE TrainerLoads \/ Discover \/ TrainerSaves \/ TrainerSaved
  BY <1>3 DEF TrainerLoads, Discover, TrainerSaves, TrainerSaved, FutureClean
<1>4. CASE Train
  <2>1. opc \in {"start", "load"} => next <= base
    BY <1>4 DEF Train, FutureClean, TypeOK
  <2> QED BY <1>4, <2>1 DEF Train, FutureClean, TypeOK
<1>5. CASE Broadcast
  <2>1. opc \in {"start", "load"} => \A k \in Steps : k > base => broadcasts'[k] = Absent
    BY <1>5 DEF Broadcast, FutureClean, TypeOK, Steps
  <2> QED BY <1>5, <2>1 DEF Broadcast, FutureClean
<1>6. CASE WritesConfig \/ OrchLoads \/ OrchSaves \/ OrchSaved \/ Adopt
  BY <1>6 DEF WritesConfig, OrchLoads, OrchSaves, OrchSaved, Adopt, FutureClean
<1>7. CASE Ship
  <2>1. \A k \in Steps : batches'[k] \in {batches[k], launch}
    BY <1>7 DEF Ship, TypeOK
  <2> QED BY <1>7, <2>1 DEF Ship, FutureClean, TypeOK
<1>8. CASE UNCHANGED vars
  BY <1>8 DEF vars, FutureClean
<1> QED
  BY <1>1, <1>2, <1>3, <1>4, <1>5, <1>6, <1>7, <1>8 DEF Next, Trainer, Orchestrator

\* The future is always clean.
LEMMA FutureInvariant == Spec => [](TypeOK /\ Control /\ FutureClean)
<1>1. Init => TypeOK /\ Control /\ FutureClean
  BY InitTypes, InitFuture
<1>2. TypeOK /\ Control /\ FutureClean /\ [Next]_vars => (TypeOK /\ Control /\ FutureClean)'
  BY NextTypes, NextFuture
<1> QED BY <1>1, <1>2, PTL DEF Spec

\* An orchestrator that resolved a later step than the launcher does not get
\* through load(): the weights of that step were removed.
THEOREM AheadIsRefused == Spec => AheadRefused
<1>1. ASSUME TypeOK, FutureClean PROVE [OrchLoads => ostep' <= base + 1]_vars
  <2> SUFFICES ASSUME OrchLoads PROVE ostep' <= base + 1
    OBVIOUS
  <2>1. ostep' = OrchBase + 1 /\ (OrchBase # 0 => broadcasts[OrchBase] # Absent)
    BY DEF OrchLoads, OrchCanLoad, WeightsOf
  <2>2. OrchBase \in 0..MaxSteps /\ base \in Nat
    BY <1>1, StepTypes DEF TypeOK
  <2>3. OrchBase # 0 => OrchBase <= base
    BY <1>1, <2>1, <2>2 DEF FutureClean, OrchLoads, Steps
  <2> QED BY <2>1, <2>2, <2>3
<1> QED BY <1>1, FutureInvariant, PTL DEF AheadRefused

-----------------------------------------------------------------------------
(* Lineages                                                                *)

\* The step the run manager waits for is the trainer's own.
InStep ==
    /\ tpc = "wait" => next = tstep
    /\ tpc \in {"broadcast", "ckpt", "saving", "done"} => next = tstep + 1

\* LineageExact, with what it needs between two steps of the trainer.
Lineage == ~ skewed => InStep /\ LineageExact

\* No model was trained yet.
LEMMA InitLineage == Init => Lineage
BY DEF Init, Lineage, InStep, LineageExact, Complete, Loaded

\* Steps that leave the models, and what the trainer knows of them, alone.
LEMMA SameLineage ==
    ASSUME Lineage, skewed' = FALSE => skewed = FALSE,
           UNCHANGED <<trainerCkpt, launch, base, trainVars>>
    PROVE  Lineage'
BY DEF Lineage, InStep, LineageExact, Complete, Loaded, Exact, trainVars

\* Each batch the trainer takes is the next of its lineage.
LEMMA NextLineage ==
    ASSUME TypeOK, Control, FutureClean, Lineage, [Next]_vars
    PROVE  Lineage'
<1> USE DEF config, disk, launchVars, orchVars
<1>1. ASSUME NEW resume \in Steps \cup {Latest, Unset}, Launch(resume)
      PROVE  Lineage'
  BY <1>1 DEF Launch, Lineage, InStep, LineageExact, Complete, Loaded, Exact
<1>2. CASE Crash \/ Interrupt \/ LoadFails \/ Exit
  BY <1>2 DEF Crash, Interrupt, LoadFails, Exit, Down, Lineage, InStep, LineageExact,
              Complete, Loaded, Exact
<1>3. CASE TrainerLoads
  <2> SUFFICES ASSUME ~ skewed' PROVE InStep' /\ LineageExact'
    BY DEF Lineage
  <2>1. LineageExact /\ Complete' = Complete /\ UNCHANGED <<trainerCkpt, base, launch, skewed>>
    BY <1>3 DEF TrainerLoads, Lineage, Complete
  <2>2. TrainerBase = base /\ base \in Nat /\ tstep' = base + 1 /\ tpc' = "discover"
    BY <1>3 DEF TrainerLoads, Control, TypeOK
  <2>3. Exact(model') /\ Len(model') = base
    <3>1. CASE base = 0
      BY <1>3, <2>2, <3>1 DEF TrainerLoads, Exact
    <3>2. CASE base # 0
      BY <1>3, <2>1, <2>2, <3>2 DEF TrainerLoads, TrainerCanLoad, LineageExact
    <3> QED BY <3>1, <3>2
  <2>4. \A i \in 1..Len(model') : ~ (i > base)
    BY <2>2, <2>3
  <2> QED BY <2>1, <2>2, <2>3, <2>4 DEF InStep, LineageExact, Exact, Loaded
<1>4. CASE Discover
  BY <1>4 DEF Discover, Lineage, InStep, LineageExact, Complete, Loaded, Exact, TypeOK
<1>5. CASE Train
  <2> SUFFICES ASSUME ~ skewed' PROVE InStep' /\ LineageExact'
    BY DEF Lineage
  <2>1. InStep /\ LineageExact /\ Complete' = Complete
        /\ UNCHANGED <<trainerCkpt, base, launch, tstep, skewed>>
    BY <1>5 DEF Train, Lineage, Complete
  <2>2. next = tstep /\ next' = tstep + 1 /\ tpc = "wait" /\ tpc' = "broadcast"
    BY <1>5, <2>1 DEF Train, InStep, TypeOK
  <2>3. model \in Seq(Batches) /\ Len(model) = tstep - 1 /\ tstep \in Steps /\ base \in Nat
    BY <2>1, <2>2 DEF TypeOK, Control, LineageExact, Loaded
  <2>4. tstep > base => batches[tstep] = launch
    BY <1>5, <2>2, <2>3 DEF Train, FutureClean
  <2>5. model' = Append(model, <<tstep, batches[tstep]>>)
    BY <1>5, <2>2 DEF Train
  <2>6. /\ Len(model') = tstep /\ model'[tstep] = <<tstep, batches[tstep]>>
        /\ \A i \in 1..(tstep - 1) : model'[i] = model[i]
    BY <2>3, <2>5, AppendProperties DEF Steps
  <2>7. \A i \in 1..tstep : i = tstep \/ i \in 1..(tstep - 1)
    BY <2>3 DEF Steps
  <2>8. Exact(model')
    BY <2>1, <2>2, <2>3, <2>6, <2>7 DEF Exact, LineageExact, Loaded
  <2>9. \A i \in 1..Len(model') : i > base => model'[i][2] = launch
    BY <2>1, <2>2, <2>3, <2>4, <2>6, <2>7 DEF LineageExact, Loaded
  <2> QED BY <2>1, <2>2, <2>6, <2>8, <2>9 DEF InStep, LineageExact, Exact, Loaded
<1>6. CASE Broadcast
  <2> SUFFICES ASSUME ~ skewed' PROVE InStep' /\ LineageExact'
    BY DEF Lineage
  <2>1. /\ InStep /\ LineageExact /\ Complete' = Complete
        /\ UNCHANGED <<trainerCkpt, base, launch, model, next, skewed>>
    BY <1>6 DEF Broadcast, Lineage, Complete
  <2>2. /\ next = tstep + 1 /\ Len(model) = tstep /\ tstep \in Nat
        /\ \/ tpc' = "ckpt" /\ tstep' = tstep
           \/ tpc' = "wait" /\ tstep' = tstep + 1
    BY <1>6, <2>1 DEF Broadcast, InStep, LineageExact, Loaded, TypeOK
  <2>3. Exact(model) /\ \A i \in 1..Len(model) : i > base => model[i][2] = launch
    BY <1>6, <2>1 DEF Broadcast, LineageExact, Loaded
  <2> QED BY <2>1, <2>2, <2>3 DEF InStep, LineageExact, Exact, Loaded
<1>7. CASE TrainerSaves
  <2> SUFFICES ASSUME ~ skewed' PROVE InStep' /\ LineageExact'
    BY DEF Lineage
  <2>1. /\ InStep /\ LineageExact /\ tpc = "ckpt" /\ tpc' = "saving"
        /\ UNCHANGED <<base, launch, model, tstep, next, skewed>>
    BY <1>7 DEF TrainerSaves, Lineage
  <2>2. \A k \in Complete' : k \in Complete /\ trainerCkpt'[k] = trainerCkpt[k]
    BY <1>7 DEF TrainerSaves, Complete, TypeOK
  <2> QED BY <2>1, <2>2 DEF InStep, LineageExact, Exact, Loaded
<1>8. CASE TrainerSaved
  <2> SUFFICES ASSUME ~ skewed' PROVE InStep' /\ LineageExact'
    BY DEF Lineage
  <2>1. /\ InStep /\ LineageExact /\ tpc = "saving"
        /\ UNCHANGED <<base, launch, model, next, skewed>>
    BY <1>8 DEF TrainerSaved, Lineage
  <2>2. /\ next = tstep + 1 /\ Len(model) = tstep /\ Exact(model) /\ tstep \in Nat
        /\ \A i \in 1..Len(model) : i > base => model[i][2] = launch
    BY <2>1 DEF InStep, LineageExact, Loaded, TypeOK
  <2>3. \/ tpc' = "done" /\ tstep' = tstep
        \/ tpc' = "wait" /\ tstep' = tstep + 1
    BY <1>8 DEF TrainerSaved
  <2>4. ASSUME NEW k \in Complete' PROVE Exact(trainerCkpt'[k]) /\ Len(trainerCkpt'[k]) = k
    <3>1. \/ k = tstep /\ trainerCkpt'[k] = model
          \/ trainerCkpt'[k] = trainerCkpt[k]
      BY <1>8, <2>4 DEF TrainerSaved, Complete
    <3>2. trainerCkpt'[k] = trainerCkpt[k] => k \in Complete
      BY <2>4 DEF Complete
    <3> QED BY <2>1, <2>2, <3>1, <3>2 DEF LineageExact
  <2> QED BY <2>1, <2>2, <2>3, <2>4 DEF InStep, LineageExact, Exact, Loaded
<1>9. CASE WritesConfig \/ Ship \/ OrchSaves \/ OrchSaved \/ Adopt \/ OrchLoads
  BY <1>9, SameLineage DEF WritesConfig, Ship, OrchSaves, OrchSaved, Adopt, OrchLoads, TypeOK
<1>10. CASE UNCHANGED vars
  BY <1>10, SameLineage DEF vars
<1> QED
  BY <1>1, <1>2, <1>3, <1>4, <1>5, <1>6, <1>7, <1>8, <1>9, <1>10
  DEF Next, Trainer, Orchestrator

\* The lineage is always exact.
LEMMA LineageInvariant == Spec => [](TypeOK /\ Control /\ FutureClean /\ Lineage)
<1>1. Init => Lineage
  BY InitLineage
<1>2. TypeOK /\ Control /\ FutureClean /\ Lineage /\ [Next]_vars => Lineage'
  BY NextLineage
<1> QED BY <1>1, <1>2, FutureInvariant, PTL DEF Spec

\* As long as the steps that the processes resolve agree, whatever the
\* crashes and relaunches, the trainer's weights and its checkpoints stand
\* for the batches 1, 2, ... without gap or repetition.
THEOREM LineagesExact == Spec => []LineageExact
<1>1. Lineage => LineageExact
  BY DEF Lineage, LineageExact
<1> QED BY <1>1, LineageInvariant, PTL

-----------------------------------------------------------------------------
(* The policy                                                              *)

Prefix(m, k) == SubSeq(m, 1, k)

\* What a prefix is, and that appending leaves the prefixes.
LEMMA PrefixFacts ==
    ASSUME NEW m \in Seq(Batches), NEW x \in Batches
    PROVE  /\ Prefix(m, Len(m)) = m
           /\ Prefix(m, 0) = <<>>
           /\ \A k \in 0..Len(m) : Prefix(Append(m, x), k) = Prefix(m, k)
<1>1. Prefix(m, Len(m)) = m /\ Prefix(m, 0) = <<>>
  BY SubSeqFull, SubSeqEmpty DEF Prefix
<1>2. ASSUME NEW k \in 0..Len(m) PROVE Prefix(Append(m, x), k) = Prefix(m, k)
  BY <1>2 DEF Prefix
<1> QED BY <1>1, <1>2

\* Checkpoints and broadcasts are snapshots of one lineage.
Snapshots ==
    \A k \in Complete :
        /\ \A j \in Complete : j <= k => trainerCkpt[j] = Prefix(trainerCkpt[k], j)
        /\ \A j \in Steps : j <= k /\ broadcasts[j] # Absent
                                => broadcasts[j] = Prefix(trainerCkpt[k], j)

\* Before the trainer has loaded: they end at the resume step.
Before ==
    tpc = "start" =>
        /\ \A k \in Complete : k <= base
        /\ \A j \in Steps : j > base => broadcasts[j] = Absent
        /\ Running =>
            /\ version <= base
            /\ base = 0 => served = <<>>
            /\ base \in Complete => served = Prefix(trainerCkpt[base], version)

\* Afterwards: they are snapshots of the trainer's own.
After ==
    Loaded =>
        /\ \A k \in Complete : k <= Len(model) /\ trainerCkpt[k] = Prefix(model, k)
        /\ \A j \in Steps : broadcasts[j] # Absent
                                => j <= Len(model) /\ broadcasts[j] = Prefix(model, j)
        /\ Running => version <= Len(model) /\ served = Prefix(model, version)

OneLineage == ~ skewed /\ ~ rewound => Snapshots /\ Before /\ After

\* There is one lineage, the empty one.
LEMMA InitOne == Init => OneLineage
BY DEF Init, OneLineage, Snapshots, Before, After, Complete, Loaded

\* Whatever is saved, published, adopted or loaded is a prefix of it.
LEMMA NextOne ==
    ASSUME TypeOK, Control, FutureClean, Lineage, OneLineage, [Next]_vars
    PROVE  OneLineage'
<1> USE DEF config, disk, launchVars, trainVars, orchVars
<1>1. ASSUME NEW resume \in Steps \cup {Latest, Unset}, Launch(resume)
      PROVE  OneLineage'
  <2> SUFFICES ASSUME ~ skewed', ~ rewound' PROVE Snapshots' /\ Before' /\ After'
    BY DEF OneLineage
  <2>1. Snapshots /\ \A k \in Complete : k <= base'
    <3>1. \A k \in Complete : ~ (k > base')
      BY <1>1 DEF Launch
    <3>2. base' \in Int
      BY <1>1, StepTypes, ResolvedStep DEF Launch, LaunchChoices
    <3>3. Complete \subseteq Int
      BY DEF Complete, Steps
    <3>4. \A k \in Complete : k <= base'
      BY <3>1, <3>2, <3>3
    <3> QED BY <1>1, <3>4 DEF Launch, OneLineage
  <2>2. /\ Complete' = Complete /\ trainerCkpt' = trainerCkpt
        /\ \A k \in Steps : broadcasts'[k] = IF k > base' THEN Absent ELSE broadcasts[k]
        /\ tpc' = "start" /\ opc' = "start"
    BY <1>1 DEF Launch, FutureBroadcasts, Complete
  <2>3. Snapshots'
    BY <2>1, <2>2 DEF Snapshots
  <2> QED BY <2>1, <2>2, <2>3 DEF Before, After, Loaded, Running
<1>2. CASE Crash \/ Interrupt \/ LoadFails \/ Exit
  BY <1>2 DEF Crash, Interrupt, LoadFails, Exit, Down, OneLineage, Snapshots, Before, After,
              Complete, Loaded
<1>3. CASE TrainerLoads
  <2> SUFFICES ASSUME ~ skewed', ~ rewound' PROVE Snapshots' /\ Before' /\ After'
    BY DEF OneLineage
  <2>1. /\ Snapshots /\ Before /\ LineageExact /\ Complete' = Complete
        /\ UNCHANGED <<trainerCkpt, broadcasts, base, opc, version, served>>
        /\ tpc = "start" /\ tpc' = "discover"
    BY <1>3 DEF TrainerLoads, OneLineage, Lineage, Complete
  <2>2. TrainerBase = base /\ base \in Nat /\ version \in Nat
    BY <2>1 DEF Control, TypeOK
  <2>3. CASE base = 0
    <3>1. model' = <<>> /\ Len(model') = 0
      BY <1>3, <2>2, <2>3 DEF TrainerLoads
    <3>2. Complete = {} /\ \A j \in Steps : broadcasts[j] = Absent
      BY <2>1, <2>3 DEF Before, Complete, Steps
    <3>3. Running => version = 0 /\ served = <<>>
      BY <2>1, <2>2, <2>3 DEF Before
    <3>4. Prefix(<<>>, 0) = <<>>
      BY DEF Prefix
    <3> QED BY <2>1, <3>1, <3>2, <3>3, <3>4 DEF Snapshots, Before, After, Running
  <2>4. CASE base # 0
    <3>1. base \in Complete /\ model' = trainerCkpt[base] /\ Len(model') = base
      BY <1>3, <2>1, <2>2, <2>4 DEF TrainerLoads, TrainerCanLoad, LineageExact
    <3>2. \A k \in Complete : k <= base /\ trainerCkpt[k] = Prefix(model', k)
      BY <2>1, <3>1 DEF Before, Snapshots
    <3>3. \A j \in Steps : broadcasts[j] # Absent
                => j <= base /\ broadcasts[j] = Prefix(model', j)
      BY <2>1, <2>2, <3>1 DEF Before, Snapshots, Steps
    <3>4. Running => version <= base /\ served = Prefix(model', version)
      BY <2>1, <3>1 DEF Before
    <3> QED BY <2>1, <3>1, <3>2, <3>3, <3>4 DEF Snapshots, Before, After, Running
  <2> QED BY <2>3, <2>4
<1>4. CASE Discover
  BY <1>4 DEF Discover, OneLineage, Snapshots, Before, After, Complete, Loaded, Running, TypeOK
<1>5. CASE Train
  <2> SUFFICES ASSUME ~ skewed', ~ rewound' PROVE Snapshots' /\ Before' /\ After'
    BY DEF OneLineage
  <2>1. /\ Snapshots /\ After /\ Complete' = Complete
        /\ UNCHANGED <<trainerCkpt, broadcasts, opc, version, served>>
        /\ tpc = "wait" /\ tpc' = "broadcast"
    BY <1>5 DEF Train, OneLineage, Complete
  <2>2. /\ model \in Seq(Batches) /\ <<next, batches[next]>> \in Batches
        /\ model' = Append(model, <<next, batches[next]>>) /\ version \in Nat
    BY <1>5 DEF Train, TypeOK, Batches
  <2>3. Len(model) \in Nat /\ Len(model') = Len(model) + 1
    BY <2>2, AppendProperties
  <2>4. \A k \in 0..Len(model) : Prefix(model', k) = Prefix(model, k)
    BY <2>2, PrefixFacts
  <2>5. \A k \in Steps : k <= Len(model) => k <= Len(model') /\ Prefix(model', k) = Prefix(model, k)
    BY <2>3, <2>4 DEF Steps
  <2>6. version <= Len(model) => version <= Len(model') /\ Prefix(model', version) = Prefix(model, version)
    BY <2>2, <2>3, <2>4
  <2>7. Complete \subseteq Steps
    BY DEF Complete
  <2> QED BY <2>1, <2>5, <2>6, <2>7 DEF Snapshots, Before, After, Loaded, Running
<1>6. CASE Broadcast
  <2> SUFFICES ASSUME ~ skewed', ~ rewound' PROVE Snapshots' /\ Before' /\ After'
    BY DEF OneLineage
  <2>1. /\ Snapshots /\ After /\ InStep /\ LineageExact /\ Complete' = Complete
        /\ UNCHANGED <<trainerCkpt, model, opc, version, served>> /\ ~ skewed
        /\ tpc = "broadcast" /\ tpc' \in {"ckpt", "wait"}
    BY <1>6 DEF Broadcast, OneLineage, Lineage, Complete
  <2>2. /\ Len(model) = next - 1 /\ next - 1 \in Nat /\ model \in Seq(Batches)
        /\ \A k \in Complete : k <= Len(model) /\ trainerCkpt[k] = Prefix(model, k)
    BY <2>1 DEF InStep, LineageExact, After, Loaded, TypeOK
  <2>3. Prefix(model, next - 1) = model
    BY <2>2, SubSeqFull DEF Prefix
  <2>4. \A j \in Steps : broadcasts'[j] # Absent
            => \/ j = next - 1 /\ broadcasts'[j] = model
               \/ broadcasts'[j] = broadcasts[j]
    BY <1>6 DEF Broadcast
  <2>5. \A j \in Steps : broadcasts'[j] # Absent
            => j <= Len(model) /\ broadcasts'[j] = Prefix(model, j)
    BY <2>1, <2>2, <2>3, <2>4 DEF After, Loaded
  <2>6. ASSUME NEW k \in Complete, NEW j \in Steps, j <= k, broadcasts'[j] # Absent
        PROVE  broadcasts'[j] = Prefix(trainerCkpt[k], j)
    <3>1. CASE broadcasts'[j] = broadcasts[j]
      BY <2>1, <2>6, <3>1 DEF Snapshots
    <3>2. CASE j = next - 1 /\ broadcasts'[j] = model
      <4>1. k = next - 1
        BY <2>2, <2>6, <3>2 DEF Complete, Steps
      <4>2. trainerCkpt[k] = model
        BY <2>2, <2>3, <4>1
      <4> QED BY <2>3, <3>2, <4>2
    <3> QED BY <2>4, <2>6, <3>1, <3>2
  <2>7. Snapshots'
    BY <2>1, <2>6 DEF Snapshots
  <2> QED BY <2>1, <2>2, <2>5, <2>7 DEF Before, After, Loaded, Running
<1>7. CASE TrainerSaves
  <2>1. \A k \in Complete' : k \in Complete /\ trainerCkpt'[k] = trainerCkpt[k]
    BY <1>7 DEF TrainerSaves, Complete, TypeOK
  <2> QED BY <1>7, <2>1 DEF TrainerSaves, OneLineage, Snapshots, Before, After, Loaded, Running
<1>8. CASE TrainerSaved
  <2> SUFFICES ASSUME ~ skewed', ~ rewound' PROVE Snapshots' /\ Before' /\ After'
    BY DEF OneLineage
  <2>1. /\ Snapshots /\ After /\ LineageExact
        /\ UNCHANGED <<broadcasts, model, opc, version, served>> /\ ~ skewed
        /\ tpc = "saving" /\ tpc' \in {"done", "wait"}
    BY <1>8 DEF TrainerSaved, OneLineage, Lineage
  <2>2. Len(model) = tstep /\ tstep \in Nat /\ model \in Seq(Batches)
    BY <2>1 DEF LineageExact, Loaded, TypeOK
  <2>3. Prefix(model, tstep) = model
    BY <2>2, SubSeqFull DEF Prefix
  <2>4. ASSUME NEW k \in Complete'
        PROVE  /\ k \in Steps /\ k <= Len(model) /\ trainerCkpt'[k] = Prefix(model, k)
               /\ \/ k = tstep /\ trainerCkpt'[k] = model
                  \/ k \in Complete /\ trainerCkpt'[k] = trainerCkpt[k]
    <3>1. k \in Steps /\ ( \/ k = tstep /\ trainerCkpt'[k] = model
                           \/ k \in Complete /\ trainerCkpt'[k] = trainerCkpt[k] )
      BY <1>8, <2>4 DEF TrainerSaved, Complete
    <3> QED BY <2>1, <2>2, <2>3, <3>1 DEF After, Loaded
  <2>5. ASSUME NEW k \in Complete', NEW j \in Complete', j <= k
        PROVE  trainerCkpt'[j] = Prefix(trainerCkpt'[k], j)
    <3>1. CASE k = tstep /\ trainerCkpt'[k] = model
      BY <2>4, <3>1
    <3>2. CASE k \in Complete /\ trainerCkpt'[k] = trainerCkpt[k]
      <4>1. CASE j \in Complete /\ trainerCkpt'[j] = trainerCkpt[j]
        BY <2>1, <2>5, <3>2, <4>1 DEF Snapshots
      <4>2. CASE j = tstep /\ trainerCkpt'[j] = model
        <5>1. k = tstep
          <6>1. k \in Steps /\ k <= Len(model)
            BY <2>4
          <6>2. k \in Nat /\ k <= tstep /\ tstep <= k
            BY <2>2, <2>5, <4>2, <6>1 DEF Steps
          <6> QED BY <2>2, <6>2
        <5>2. trainerCkpt'[k] = model
          BY <2>3, <2>4, <5>1
        <5> QED BY <2>3, <4>2, <5>2
      <4> QED BY <2>4, <4>1, <4>2
    <3> QED BY <2>4, <3>1, <3>2
  <2>6. ASSUME NEW k \in Complete', NEW j \in Steps, j <= k, broadcasts[j] # Absent
        PROVE  broadcasts[j] = Prefix(trainerCkpt'[k], j)
    <3>1. CASE k = tstep /\ trainerCkpt'[k] = model
      BY <2>1, <2>6, <3>1 DEF After, Loaded
    <3>2. CASE k \in Complete /\ trainerCkpt'[k] = trainerCkpt[k]
      BY <2>1, <2>6, <3>2 DEF Snapshots
    <3> QED BY <2>4, <3>1, <3>2
  <2>7. Snapshots'
    BY <2>1, <2>5, <2>6 DEF Snapshots
  <2> QED BY <2>1, <2>4, <2>7 DEF Before, After, Loaded, Running
<1>9. CASE WritesConfig \/ Ship \/ OrchSaves \/ OrchSaved
  BY <1>9 DEF WritesConfig, Ship, OrchSaves, OrchSaved, OneLineage, Snapshots, Before, After,
              Complete, Loaded, Running
<1>10. CASE OrchLoads
  <2> SUFFICES ASSUME ~ skewed', ~ rewound' PROVE Snapshots' /\ Before' /\ After'
    BY DEF OneLineage
  <2>1. /\ Snapshots /\ Before /\ After /\ Complete' = Complete
        /\ UNCHANGED <<trainerCkpt, broadcasts, base, model, tpc>>
        /\ OrchBase = base /\ version' = base /\ opc' = "collect"
    BY <1>10 DEF OrchLoads, OneLineage, Complete, TypeOK
  <2>2. /\ base = 0 => served' = <<>>
        /\ base # 0 => served' = broadcasts[base] /\ broadcasts[base] # Absent /\ base \in Steps
    BY <1>10, <2>1, StepTypes DEF OrchLoads, OrchCanLoad, WeightsOf, TypeOK, Steps
  <2>3. base \in Nat /\ model \in Seq(Batches) /\ Len(model) \in Nat
    BY DEF TypeOK
  <2>4. Snapshots'
    BY <2>1 DEF Snapshots
  <2>5. Before'
    <3>1. base \in Complete => base \in Steps /\ base # 0 /\ base <= base
      BY DEF Complete, Steps
    <3>2. base \in Complete => served' = Prefix(trainerCkpt[base], base)
      BY <2>1, <2>2, <3>1 DEF Snapshots
    <3> QED BY <2>1, <2>2, <2>3, <3>2 DEF Before, Running
  <2>6. After'
    <3> SUFFICES ASSUME Loaded PROVE base <= Len(model) /\ served' = Prefix(model, base)
      BY <2>1 DEF After, Loaded
    <3>1. CASE base = 0
      BY <2>2, <2>3, <3>1, SubSeqEmpty DEF Prefix
    <3>2. CASE base # 0
      BY <2>1, <2>2, <3>2 DEF After
    <3> QED BY <3>1, <3>2
  <2> QED BY <2>4, <2>5, <2>6
<1>11. CASE Adopt
  <2> SUFFICES ASSUME ~ skewed', ~ rewound' PROVE Snapshots' /\ Before' /\ After'
    BY DEF OneLineage
  <2>1. /\ Snapshots /\ Before /\ After /\ Complete' = Complete
        /\ UNCHANGED <<trainerCkpt, broadcasts, base, model, tpc, opc>>
    BY <1>11 DEF Adopt, OneLineage, Complete
  <2>2. version' \in Steps /\ broadcasts[version'] # Absent /\ served' = broadcasts[version']
    BY <1>11, StepTypes, NewestCorrect DEF Adopt, Published, TypeOK
  <2>3. base \in Nat
    BY DEF TypeOK
  <2>4. Snapshots'
    BY <2>1 DEF Snapshots
  <2>5. Before'
    <3> SUFFICES ASSUME tpc = "start"
                 PROVE  /\ version' <= base /\ base # 0
                        /\ base \in Complete => served' = Prefix(trainerCkpt[base], version')
      BY <2>1 DEF Before
    <3>1. version' <= base /\ base # 0
      BY <2>1, <2>2, <2>3 DEF Before, Steps
    <3> QED BY <2>1, <2>2, <3>1 DEF Snapshots
  <2>6. After'
    BY <2>1, <2>2 DEF After, Loaded
  <2> QED BY <2>4, <2>5, <2>6
<1>12. CASE UNCHANGED vars
  BY <1>12 DEF vars, OneLineage, Snapshots, Before, After, Complete, Loaded, Running
<1> QED
  BY <1>1, <1>2, <1>3, <1>4, <1>5, <1>6, <1>7, <1>8, <1>9, <1>10, <1>11, <1>12
  DEF Next, Trainer, Orchestrator

\* The servers sample from weights the trainer had on the way to its own,
\* through crashes, relaunches, retention and failed loads, as long as the
\* resolved steps agree and nobody rewinds the run.
THEOREM PolicyIsFromLineage == Spec => []PolicyFromLineage
<1>1. Init => OneLineage
  BY InitOne
<1>2. TypeOK /\ Control /\ FutureClean /\ Lineage /\ OneLineage /\ [Next]_vars => OneLineage'
  BY NextOne
<1>3. OneLineage => PolicyFromLineage
  BY DEF OneLineage, After, PolicyFromLineage, Prefix
<1> QED BY <1>1, <1>2, <1>3, LineageInvariant, PTL DEF Spec

-----------------------------------------------------------------------------
(* A step to resume from                                                   *)

OnInterval(k) == k % interval = 0 \/ k = MaxSteps

\* What is on the trainer's disk, and what it knows of it: checkpoints on the
\* interval; the ones it counts are past ones, complete from base on.
Kept ==
    /\ \A k \in TrainerSteps : OnInterval(k)
    /\ base % interval = 0
    /\ tpc \in {"ckpt", "saving"} => Saves
    /\ tpc = "start" /\ choice <= 0 => \A k \in TrainerSteps : k <= base
    /\ Loaded =>
        /\ base < tstep
        /\ \A j \in ckpt_steps : /\ base <= j => j \in Complete
                                 /\ j < tstep \/ (tpc = "done" /\ j = tstep)
        /\ base > 0 => \E j \in ckpt_steps : base <= j

\* Nothing is on the interval before the first launch.
LEMMA InitKept == Init => Kept
<1> SUFFICES ASSUME Init PROVE Kept
  OBVIOUS
<1>1. interval \in Nat \ {0} /\ 0 % interval = 0
  BY ResumeAssumption DEF Init
<1> QED BY <1>1 DEF Init, Kept, TrainerSteps, Loaded, Absent, Partial

\* The newest checkpoint is never removed.
LEMMA NewestRecent ==
    ASSUME NEW S, NEW t \in S, S \subseteq Int, \A j \in S : j <= t, keepLast \in Nat \ {0}
    PROVE  t \in Recent(S)
<1>1. {j \in S : j > t} = {}
  <2>1. \A j \in S : ~ (j > t)
    OBVIOUS
  <2> QED BY <2>1, Zenon
<1>2. Cardinality({}) = 0
  BY FS_EmptySet
<1> QED BY <1>1, <1>2 DEF Recent

\* Retention keeps the newest steps of the interval.
LEMMA NextKept ==
    ASSUME TypeOK, Control, Kept, [Next]_vars
    PROVE  Kept'
<1> USE DEF config, disk, launchVars, orchVars
<1>0. interval \in Nat \ {0} /\ 0 % interval = 0 /\ interval' = interval
  <2>1. interval \in Nat \ {0} /\ 0 % interval = 0
    BY ResumeAssumption DEF TypeOK
  <2>2. interval' = interval
    BY DEF Next, vars, Launch, Crash, Interrupt, LoadFails, Exit, Trainer, Orchestrator, Adopt,
           TrainerLoads, Discover, Train, Broadcast, TrainerSaves, TrainerSaved,
           WritesConfig, OrchLoads, Ship, OrchSaves, OrchSaved
  <2> QED BY <2>1, <2>2
<1>1. ASSUME NEW resume \in Steps \cup {Latest, Unset}, Launch(resume)
      PROVE  Kept'
  <2>1. /\ base' = Resolved(resume, TrainerSteps) /\ base' < MaxSteps
        /\ choice' = resume /\ TrainerSteps' = TrainerSteps
        /\ resume = Unset => TrainerSteps = {}
        /\ resume \notin {Unset, Latest} => resume \in TrainerSteps
        /\ tpc' = "start"
    BY <1>1 DEF Launch, TrainerSteps
  <2>2. \/ resume = Unset /\ base' = 0 /\ TrainerSteps = {}
        \/ resume = Latest /\ base' = NewestOf(TrainerSteps)
        \/ resume \in Steps /\ base' = resume /\ resume \in TrainerSteps
    BY <2>1 DEF Resolved, Latest, Unset, Steps
  <2>3. base' = 0 \/ base' \in TrainerSteps
    BY <2>2, StepTypes, NewestCorrect
  <2>4. base' % interval = 0
    BY <1>0, <2>1, <2>3, ResumeAssumption DEF Kept, OnInterval, TrainerSteps, Steps
  <2>5. choice' <= 0 => \A k \in TrainerSteps : k <= base'
    BY <2>1, <2>2, StepTypes, NewestCorrect DEF Steps
  <2> QED BY <1>0, <2>1, <2>4, <2>5 DEF Kept, OnInterval, Loaded
<1>2. CASE Crash \/ Interrupt \/ LoadFails \/ Exit
  BY <1>2 DEF Crash, Interrupt, LoadFails, Exit, Down, Kept, OnInterval, TrainerSteps, Loaded
<1>3. CASE TrainerLoads
  <2>1. /\ TrainerBase = base /\ base \in Nat /\ tstep' = base + 1 /\ tpc' = "discover"
        /\ TrainerSteps' = TrainerSteps /\ Complete' = Complete /\ base' = base
        /\ base = 0 \/ base \in Complete
        /\ ckpt_steps' = IF choice > 0 THEN {k \in TrainerSteps : k <= choice} ELSE TrainerSteps
    BY <1>3 DEF TrainerLoads, TrainerCanLoad, Control, TypeOK, TrainerSteps, Complete
  <2>2. choice \in Int /\ (choice > 0 => choice = base)
    <3>1. choice \in Int
      BY DEF TypeOK, Steps, Latest, Unset
    <3>2. choice > 0 => choice # Latest /\ choice # Unset
      BY <3>1 DEF Latest, Unset
    <3>3. choice > 0 => TrainerBase = choice
      BY <3>2 DEF TrainerBase, Resolved
    <3> QED BY <2>1, <3>1, <3>3
  <2>3. TrainerSteps \subseteq Nat \ {0} /\ Complete \subseteq TrainerSteps
    BY StepTypes DEF Steps
  <2>4. \A j \in ckpt_steps' : j \in TrainerSteps /\ j <= base
    BY <1>3, <2>1, <2>2, <2>3 DEF Kept, TrainerLoads
  <2>5. \A j \in ckpt_steps' : (base <= j => j \in Complete) /\ j < tstep'
    BY <2>1, <2>3, <2>4
  <2>6. base > 0 => base \in ckpt_steps'
    BY <2>1, <2>2, <2>3
  <2> QED BY <1>0, <2>1, <2>5, <2>6 DEF Kept, OnInterval, Loaded
<1>4. CASE Discover \/ Train
  BY <1>0, <1>4 DEF Discover, Train, Kept, OnInterval, TrainerSteps, Complete, Loaded
<1>5. CASE Broadcast
  <2>1. /\ tpc = "broadcast" /\ TrainerSteps' = TrainerSteps /\ Complete' = Complete
        /\ UNCHANGED <<ckpt_steps, base>> /\ tstep \in Nat /\ ckpt_steps \subseteq Nat
        /\ base \in Nat
        /\ \/ Saves /\ tpc' = "ckpt" /\ tstep' = tstep
           \/ tpc' = "wait" /\ tstep' = tstep + 1
    BY <1>5 DEF Broadcast, TrainerSteps, Complete, TypeOK, Steps
  <2>2. base < tstep /\ \A j \in ckpt_steps : j < tstep
    BY <2>1 DEF Kept, Loaded
  <2>3. base < tstep' /\ \A j \in ckpt_steps : j < tstep'
    BY <2>1, <2>2
  <2> QED BY <1>0, <2>1, <2>3 DEF Kept, OnInterval, Loaded, Saves
<1>6. CASE TrainerSaves
  <2>1. /\ tpc = "ckpt" /\ tpc' = "saving" /\ UNCHANGED <<ckpt_steps, base, tstep>>
        /\ \A k \in Steps : k # tstep => trainerCkpt'[k] = trainerCkpt[k]
        /\ tstep \in Nat /\ ckpt_steps \subseteq Nat
    BY <1>6 DEF TrainerSaves, TypeOK, Steps
  <2>2. OnInterval(tstep)
    BY <2>1 DEF Kept, Saves, OnInterval
  <2>3. \A k \in TrainerSteps' : k = tstep \/ k \in TrainerSteps
    BY <2>1 DEF TrainerSteps
  <2>4. \A j \in ckpt_steps : j < tstep /\ (base <= j => j \in Complete')
    BY <2>1 DEF Kept, Loaded, Complete
  <2> QED BY <1>0, <2>1, <2>2, <2>3, <2>4 DEF Kept, OnInterval, Loaded, Saves
<1>7. CASE TrainerSaved
  <2> DEFINE known == ckpt_steps \cup {tstep}
             gone == IF keepLast = 0 THEN {} ELSE known \ Recent(known)
  <2>1. /\ tpc = "saving" /\ base' = base /\ ckpt_steps' = known \ gone
        /\ \A k \in Steps : trainerCkpt'[k] = IF k \in gone THEN Absent
                              ELSE IF k = tstep THEN model ELSE trainerCkpt[k]
        /\ \/ tpc' = "done" /\ tstep' = tstep
           \/ tpc' = "wait" /\ tstep' = tstep + 1
    BY <1>7 DEF TrainerSaved
  <2>2. /\ tstep \in Steps /\ known \subseteq Int /\ base \in Nat /\ keepLast \in Nat
        /\ ckpt_steps \subseteq Steps /\ OnInterval(tstep)
        /\ base < tstep
        /\ \A j \in ckpt_steps : j < tstep /\ (base <= j => j \in Complete)
    BY <2>1, ResumeAssumption DEF Kept, Loaded, Control, TypeOK, Steps, Saves, OnInterval
  <2>3. \A j \in known : j <= tstep
    BY <2>2 DEF Steps
  <2>4. tstep \notin gone
    BY <2>2, <2>3, NewestRecent
  <2>5. model \notin {Absent, Partial}
    BY Markers DEF TypeOK
  <2> HIDE DEF gone
  <2>6. \A k \in TrainerSteps' : OnInterval(k)
    BY <2>1, <2>2 DEF TrainerSteps, Kept
  <2>7. \A j \in ckpt_steps' : (base <= j => j \in Complete')
                             /\ (j < tstep' \/ (tpc' = "done" /\ j = tstep'))
    <3> SUFFICES ASSUME NEW j \in known, j \notin gone
                 PROVE  /\ base <= j => j \in Complete'
                        /\ j < tstep' \/ (tpc' = "done" /\ j = tstep')
      BY <2>1
    <3>1. j < tstep' \/ (tpc' = "done" /\ j = tstep')
      <4>1. j \in Int /\ tstep \in Int /\ j <= tstep
        BY <2>2, <2>3 DEF Steps
      <4>2. CASE tpc' = "done" /\ tstep' = tstep
        BY <4>1, <4>2
      <4>3. CASE tstep' = tstep + 1
        BY <4>1, <4>3
      <4> QED BY <2>1, <4>2, <4>3
    <3>2. CASE j = tstep
      BY <2>1, <2>2, <2>4, <2>5, <3>1, <3>2 DEF Complete
    <3>3. CASE j \in ckpt_steps /\ j # tstep
      BY <2>1, <2>2, <3>1, <3>3 DEF Complete
    <3> QED BY <3>2, <3>3
  <2>8. base < tstep' /\ tstep \in ckpt_steps'
    BY <2>1, <2>2, <2>4 DEF Steps
  <2>9. \E j \in ckpt_steps' : base <= j
    BY <2>2, <2>8 DEF Steps
  <2> QED BY <1>0, <2>1, <2>6, <2>7, <2>8, <2>9 DEF Kept, OnInterval, Loaded
<1>8. CASE WritesConfig \/ OrchLoads \/ Ship \/ OrchSaves \/ OrchSaved \/ Adopt
  <2>1. UNCHANGED <<trainerCkpt, choice, base, tpc, tstep, ckpt_steps>>
    BY <1>8 DEF WritesConfig, OrchLoads, Ship, OrchSaves, OrchSaved, Adopt, trainVars
  <2> QED BY <1>0, <2>1 DEF Kept, OnInterval, TrainerSteps, Complete, Loaded, Saves
<1>9. CASE UNCHANGED vars
  BY <1>0, <1>9 DEF vars, trainVars, Kept, OnInterval, TrainerSteps, Complete, Loaded, Saves
<1> QED
  BY <1>1, <1>2, <1>3, <1>4, <1>5, <1>6, <1>7, <1>8, <1>9 DEF Next, Trainer, Orchestrator


\* Where the orchestrator and the trainer are past the resume step: each step
\* on the interval has its progress file before the batch of a later one is
\* sent, and its weights before the trainer's checkpoint of it.
Ahead ==
    ~ skewed =>
        /\ Running =>
            /\ base < ostep
            /\ opc \in {"ckpt", "saving"} => base < ostep - 1
            /\ base > 0 => orchCkpt[base] = "full" /\ broadcasts[base] # Absent
            /\ \A k \in Steps : base < k /\ batches[k] # 0 => k < ostep
            /\ \A k \in Steps : /\ base < k /\ k < ostep /\ k % interval = 0
                                /\ k = ostep - 1 => opc \notin {"ckpt", "saving"}
                    => orchCkpt[k] = "full"
        /\ Loaded =>
            /\ base < Len(model) => Running /\ Len(model) < ostep
            /\ \A k \in Steps : /\ base < k /\ k <= Len(model) /\ k % interval = 0
                                /\ k = Len(model) => tpc # "broadcast"
                    => broadcasts[k] # Absent

\* Neither process is past a resume step yet.
LEMMA InitAhead == Init => Ahead
BY DEF Init, Ahead, Running, Loaded

\* Files come before what depends on them.
LEMMA NextAhead ==
    ASSUME TypeOK, Control, FutureClean, Lineage, Kept, Ahead, [Next]_vars
    PROVE  Ahead'
<1> USE DEF config, disk, launchVars, orchVars
<1>0. /\ base \in Nat /\ base % interval = 0 /\ ostep \in Nat /\ tstep \in Nat
      /\ base > 0 => base \in Steps
  BY ResumeAssumption DEF TypeOK, Kept, Steps
<1>1. ASSUME NEW resume \in Steps \cup {Latest, Unset}, Launch(resume)
      PROVE  Ahead'
  BY <1>1 DEF Launch, Ahead, Running, Loaded
<1>2. CASE Crash \/ Interrupt \/ LoadFails \/ Exit
  BY <1>2 DEF Crash, Interrupt, LoadFails, Exit, Down, Ahead, Running, Loaded
<1>3. CASE TrainerLoads
  <2> SUFFICES ASSUME ~ skewed' PROVE Ahead'
    BY DEF Ahead
  <2>1. /\ TrainerBase = base /\ tpc' = "discover" /\ LineageExact /\ Ahead /\ ~ skewed
        /\ UNCHANGED <<config, batches, broadcasts, orchCkpt, base, opc, ostep>>
    BY <1>3 DEF TrainerLoads, Control, Lineage
  <2>2. Len(model') = base
    <3>1. CASE base = 0
      BY <1>3, <2>1, <3>1 DEF TrainerLoads
    <3>2. CASE base # 0
      BY <1>3, <2>1, <3>2 DEF TrainerLoads, TrainerCanLoad, LineageExact
    <3> QED BY <3>1, <3>2
  <2>3. \A k \in Steps : ~ (base < k /\ k <= Len(model'))
    BY <1>0, <2>2 DEF Steps
  <2>4. ~ (base < Len(model'))
    BY <1>0, <2>2
  <2> QED BY <2>1, <2>3, <2>4 DEF Ahead, Running, Loaded
<1>4. CASE Discover
  BY <1>4 DEF Discover, Ahead, Running, Loaded
<1>5. CASE Train
  <2> SUFFICES ASSUME ~ skewed' PROVE Ahead'
    BY DEF Ahead
  <2>1. /\ Ahead /\ ~ skewed /\ InStep /\ LineageExact
        /\ tpc = "wait" /\ tpc' = "broadcast" /\ next \in Steps /\ batches[next] # 0
        /\ model' = Append(model, <<next, batches[next]>>)
        /\ UNCHANGED <<config, batches, broadcasts, orchCkpt, base, opc, ostep>>
    BY <1>5 DEF Train, Lineage
  <2>2. /\ next = tstep /\ base < tstep /\ Len(model) = tstep - 1
    BY <2>1 DEF InStep, LineageExact, Kept, Loaded
  <2>3. Len(model') = tstep
    <3>1. model \in Seq(Batches) /\ <<next, batches[next]>> \in Batches
      BY <2>1 DEF TypeOK, Batches
    <3> QED BY <1>0, <2>1, <2>2, <3>1, AppendProperties
  <2>4. Running
    BY <2>1, <2>2 DEF FutureClean, Running, TypeOK
  <2>5. tstep < ostep
    BY <2>1, <2>2, <2>4 DEF Ahead
  <2>6. \A k \in Steps : k <= tstep /\ k # tstep => k <= tstep - 1
    BY <1>0 DEF Steps
  <2>7. \A k \in Steps : base < k /\ k <= tstep /\ k # tstep /\ k % interval = 0 => broadcasts[k] # Absent
    BY <2>1, <2>2, <2>6 DEF Ahead, Loaded
  <2> QED BY <2>1, <2>3, <2>4, <2>5, <2>7 DEF Ahead, Running, Loaded
<1>6. CASE Broadcast
  <2> SUFFICES ASSUME ~ skewed' PROVE Ahead'
    BY DEF Ahead
  <2>1. /\ Ahead /\ ~ skewed /\ InStep /\ LineageExact
        /\ tpc = "broadcast" /\ tpc' \in {"ckpt", "wait"} /\ next = tstep + 1
        /\ UNCHANGED <<config, batches, orchCkpt, base, opc, ostep, model>>
    BY <1>6 DEF Broadcast, Lineage, InStep
  <2>2. Len(model) = tstep
    BY <2>1 DEF LineageExact, Loaded
  <2>3. model # Absent
    BY Markers DEF TypeOK
  <2>4. ASSUME NEW k \in Steps, k % interval = 0, k = tstep \/ broadcasts[k] # Absent
        PROVE  broadcasts'[k] # Absent
    BY <1>0, <1>6, <2>1, <2>3, <2>4 DEF Broadcast, Outdated
  <2>5. base > 0 /\ Running => broadcasts'[base] # Absent
    BY <1>0, <2>1, <2>4 DEF Ahead
  <2>6. \A k \in Steps : base < k /\ k <= tstep /\ k % interval = 0 => broadcasts'[k] # Absent
    BY <2>1, <2>2, <2>4 DEF Ahead, Loaded
  <2> QED BY <2>1, <2>2, <2>5, <2>6 DEF Ahead, Running, Loaded
<1>7. CASE TrainerSaves \/ TrainerSaved
  BY <1>7 DEF TrainerSaves, TrainerSaved, Ahead, Running, Loaded
<1>8. CASE WritesConfig \/ Adopt
  BY <1>8 DEF WritesConfig, Adopt, trainVars, Ahead, Running, Loaded
<1>9. CASE OrchLoads
  <2> SUFFICES ASSUME ~ skewed' PROVE Ahead'
    BY DEF Ahead
  <2>1. /\ Ahead /\ ~ skewed /\ OrchBase = base /\ opc = "load" /\ opc' = "collect"
        /\ ostep' = base + 1 /\ OrchCanLoad
        /\ UNCHANGED <<config, batches, broadcasts, orchCkpt, base, model, tpc>>
    BY <1>9 DEF OrchLoads, trainVars, TypeOK
  <2>2. base > 0 => orchCkpt[base] = "full" /\ broadcasts[base] # Absent
    BY <2>1 DEF OrchCanLoad, WeightsOf
  <2>3. \A k \in Steps : base < k => batches[k] = 0
    BY <2>1 DEF FutureClean, Steps
  <2>4. \A k \in Steps : ~ (base < k /\ k < base + 1)
    BY <1>0 DEF Steps
  <2>5. ~ Running /\ (Loaded => ~ (base < Len(model)))
    BY <2>1 DEF Ahead, Running
  <2> QED BY <1>0, <2>1, <2>2, <2>3, <2>4, <2>5 DEF Ahead, Running, Loaded
<1>10. CASE Ship
  <2> SUFFICES ASSUME ~ skewed' PROVE Ahead'
    BY DEF Ahead
  <2>1. /\ Ahead /\ ~ skewed /\ opc = "collect" /\ ostep' = ostep + 1 /\ opc' \in {"ckpt", "collect"}
        /\ ostep % interval = 0 => opc' = "ckpt"
        /\ \A k \in Steps : k # ostep => batches'[k] = batches[k]
        /\ UNCHANGED <<config, broadcasts, orchCkpt, base, model, tpc>>
    BY <1>10 DEF Ship, trainVars, TypeOK
  <2>2. /\ base < ostep
        /\ base > 0 => orchCkpt[base] = "full" /\ broadcasts[base] # Absent
        /\ \A k \in Steps : base < k /\ batches[k] # 0 => k < ostep
        /\ \A k \in Steps : base < k /\ k < ostep /\ k % interval = 0 => orchCkpt[k] = "full"
        /\ Loaded /\ base < Len(model) => Len(model) < ostep
    BY <2>1 DEF Ahead, Running
  <2>3. base < ostep' - 1
    BY <1>0, <2>1, <2>2
  <2>4. \A k \in Steps : base < k /\ batches'[k] # 0 => k < ostep'
    BY <1>0, <2>1, <2>2 DEF Steps
  <2>5. \A k \in Steps : /\ base < k /\ k < ostep' /\ k % interval = 0
                         /\ k = ostep' - 1 => opc' \notin {"ckpt", "saving"}
              => orchCkpt[k] = "full"
    BY <1>0, <2>1, <2>2 DEF Steps
  <2>6. Loaded /\ base < Len(model) => Len(model) < ostep'
    BY <1>0, <2>1, <2>2 DEF TypeOK
  <2>7. base < ostep'
    BY <1>0, <2>1, <2>3
  <2> QED BY <2>1, <2>2, <2>3, <2>4, <2>5, <2>6, <2>7 DEF Ahead, Running, Loaded
<1>11. CASE OrchSaves \/ OrchSaved
  <2> SUFFICES ASSUME ~ skewed' PROVE Ahead'
    BY DEF Ahead
  <2>1. /\ Ahead /\ ~ skewed /\ opc \in {"ckpt", "saving"} /\ Running'
        /\ \A k \in Steps : k # ostep - 1 => orchCkpt'[k] = orchCkpt[k]
        /\ \/ opc' = "saving"
           \/ opc' \in {"done", "collect"} /\ (ostep - 1 \in Steps => orchCkpt'[ostep - 1] = "full")
        /\ UNCHANGED <<config, batches, broadcasts, base, model, tpc, ostep>>
    BY <1>11 DEF OrchSaves, OrchSaved, trainVars, TypeOK, Running
  <2>2. /\ base < ostep - 1
        /\ base < ostep
        /\ base > 0 => orchCkpt[base] = "full" /\ broadcasts[base] # Absent
        /\ \A k \in Steps : base < k /\ batches[k] # 0 => k < ostep
        /\ \A k \in Steps : base < k /\ k < ostep /\ k % interval = 0 /\ k # ostep - 1 => orchCkpt[k] = "full"
        /\ Loaded /\ base < Len(model) => Len(model) < ostep
    BY <2>1 DEF Ahead, Running
  <2>3. base > 0 => orchCkpt'[base] = "full"
    <3>1. base # ostep - 1
      BY <1>0, <2>2
    <3> QED BY <1>0, <2>1, <2>2, <3>1
  <2>4. \A k \in Steps : /\ base < k /\ k < ostep /\ k % interval = 0
                         /\ k = ostep - 1 => opc' \notin {"ckpt", "saving"}
              => orchCkpt'[k] = "full"
    BY <2>1, <2>2
  <2> QED BY <2>1, <2>2, <2>3, <2>4 DEF Ahead, Running, Loaded
<1>12. CASE UNCHANGED vars
  BY <1>12 DEF vars, trainVars, Ahead, Running, Loaded
<1> QED
  BY <1>1, <1>2, <1>3, <1>4, <1>5, <1>6, <1>7, <1>8, <1>9, <1>10, <1>11, <1>12
  DEF Next, Trainer, Orchestrator

\* What the trainer is about to save is past every complete checkpoint.
Below ==
    ~ skewed /\ ~ rewound /\ Loaded /\ tpc # "done" => \A k \in Complete : k < tstep

\* The trainer only goes forward from the newest complete one.
LEMMA NextBelow ==
    ASSUME TypeOK, Control, Lineage, OneLineage, Below, [Next]_vars
    PROVE  Below'
<1> USE DEF config, disk, launchVars, orchVars
<1> SUFFICES ASSUME ~ skewed', ~ rewound', Loaded', tpc' # "done", NEW k \in Complete'
             PROVE  k < tstep'
  BY DEF Below
<1>0. k \in Nat /\ tstep \in Nat /\ base \in Nat
  BY DEF Complete, TypeOK, Steps
<1>1. CASE (\E resume \in Steps \cup {Latest, Unset} : Launch(resume))
           \/ Crash \/ Interrupt \/ LoadFails \/ Exit
  BY <1>1 DEF Launch, Crash, Interrupt, LoadFails, Exit, Down, Loaded
<1>2. CASE TrainerLoads
  <2>1. TrainerBase = base /\ tstep' = base + 1 /\ k \in Complete /\ k <= base
    BY <1>2 DEF TrainerLoads, Control, OneLineage, Before, Complete
  <2> QED BY <1>0, <2>1
<1>3. CASE Discover \/ Train \/ TrainerSaves
  <2>1. tstep' = tstep /\ Loaded /\ tpc # "done" /\ ~ skewed /\ ~ rewound
    BY <1>3 DEF Discover, Train, TrainerSaves, Loaded, TypeOK
  <2>2. k \in Complete
    <3>1. CASE Discover \/ Train
      BY <3>1 DEF Discover, Train, Complete
    <3>2. CASE TrainerSaves
      BY <3>2 DEF TrainerSaves, Complete, TypeOK
    <3> QED BY <1>3, <3>1, <3>2
  <2> QED BY <2>1, <2>2 DEF Below
<1>4. CASE Broadcast
  <2>1. k \in Complete /\ k < tstep /\ tstep' \in {tstep, tstep + 1}
    BY <1>4 DEF Broadcast, Below, Complete, Loaded
  <2> QED BY <1>0, <2>1
<1>5. CASE TrainerSaved
  <2>1. tstep' = tstep + 1 /\ (k = tstep \/ (k \in Complete /\ k < tstep))
    BY <1>5 DEF TrainerSaved, Below, Complete, Loaded
  <2> QED BY <1>0, <2>1
<1>6. CASE Orchestrator \/ Adopt \/ UNCHANGED vars
  <2>1. UNCHANGED <<trainerCkpt, trainVars>> /\ ~ rewound
    BY <1>6 DEF Orchestrator, WritesConfig, OrchLoads, Ship, OrchSaves, OrchSaved, Adopt, vars
  <2>2. ~ skewed
    BY <1>6 DEF Orchestrator, WritesConfig, OrchLoads, Ship, OrchSaves, OrchSaved, Adopt, vars, TypeOK
  <2> QED BY <2>1, <2>2 DEF Below, Complete, Loaded, trainVars
<1> QED
  BY <1>1, <1>2, <1>3, <1>4, <1>5, <1>6 DEF Next, Trainer


\* A set with at most one element.
LEMMA AtMostOne ==
    ASSUME NEW T, NEW t, T \subseteq {t}
    PROVE  Cardinality(T) \in {0, 1}
<1>1. T = {} \/ T = {t}
  OBVIOUS
<1> QED BY <1>1, FS_EmptySet, FS_Singleton

\* The checkpoint before the one being saved is kept, if two are.
LEMMA OneBeforeKept ==
    ASSUME TypeOK, keepLast \in Nat, keepLast # 0, keepLast # 1,
           \A j \in ckpt_steps : j < tstep,
           NEW k \in ckpt_steps, k \notin Recent(ckpt_steps \cup {tstep})
    PROVE  \E n \in ckpt_steps : /\ k < n /\ n \in Recent(ckpt_steps \cup {tstep})
                                 /\ \A j \in ckpt_steps : j <= n
<1> DEFINE known == ckpt_steps \cup {tstep}
           n == NewestOf(ckpt_steps)
           Past(j) == {i \in known : i > j}
<1>1. ckpt_steps \in SUBSET Steps /\ ckpt_steps # {} /\ tstep \in Nat
  BY DEF TypeOK
<1>2. n \in ckpt_steps /\ \A j \in ckpt_steps : j <= n
  BY <1>1, NewestCorrect
<1>3. k \in ckpt_steps /\ ckpt_steps \subseteq Int
  BY <1>1 DEF Steps
<1> HIDE DEF n
<1>4. ASSUME NEW j \in known, Past(j) \subseteq {tstep} PROVE j \in Recent(known)
  <2>1. Cardinality(Past(j)) \in {0, 1}
    BY <1>4, AtMostOne
  <2>2. Cardinality(Past(j)) < keepLast
    BY <2>1
  <2> QED BY <2>2 DEF Recent
<1>5. Past(n) \subseteq {tstep}
  <2>1. \A j \in ckpt_steps : ~ (j > n)
    BY <1>2, <1>3
  <2> QED BY <2>1
<1>6. n \in Recent(known)
  BY <1>2, <1>4, <1>5
<1>7. k # n
  BY <1>6
<1>8. k < n
  BY <1>2, <1>3, <1>7
<1> QED BY <1>2, <1>6, <1>8

\* A checkpoint of the trainer's on the interval, behind it and not before
\* the resume step, has its progress file and its weights.
LEMMA BehindIsResumable ==
    ASSUME TypeOK, Control, Lineage, OneLineage, Kept, Ahead, ~ skewed, ~ rewound,
           Loaded, tpc = "saving", NEW n \in Complete, base <= n, n < tstep
    PROVE  orchCkpt[n] = "full" /\ broadcasts[n] = trainerCkpt[n]
<1>1. /\ n \in Steps /\ n \in Nat /\ base \in Nat /\ tstep \in Nat /\ ostep \in Nat
      /\ tstep <= MaxSteps /\ Len(model) = tstep
  <2>1. n \in Steps /\ base \in Nat /\ tstep \in Nat /\ ostep \in Nat
    BY DEF Complete, TypeOK
  <2>2. tstep \in Steps /\ Len(model) = tstep
    BY DEF Control, Lineage, LineageExact, Loaded
  <2> QED BY <2>1, <2>2 DEF Steps
<1>2. base < Len(model) /\ Running /\ Len(model) < ostep
  BY <1>1 DEF Kept, Ahead
<1>3. n % interval = 0
  <2>1. n # MaxSteps
    BY <1>1, ResumeAssumption
  <2>2. n \in TrainerSteps
    BY <1>1 DEF Complete, TrainerSteps
  <2> QED BY <2>1, <2>2 DEF Kept, OnInterval
<1>4. orchCkpt[n] = "full" /\ broadcasts[n] # Absent
  <2>1. CASE n = base
    BY <1>1, <1>2, <2>1 DEF Ahead, Steps
  <2>2. CASE base < n
    <3>1. n < ostep /\ n # ostep - 1 /\ n <= Len(model)
      BY <1>1, <1>2
    <3> QED BY <1>1, <1>2, <1>3, <2>2, <3>1 DEF Ahead
  <2> QED BY <1>1, <2>1, <2>2
<1>5. trainerCkpt[n] = Prefix(model, n) /\ broadcasts[n] = Prefix(model, n)
  BY <1>1, <1>4 DEF OneLineage, After
<1> QED BY <1>4, <1>5

\* A common step is left after every step of either process.
LEMMA NextResumable ==
    ASSUME TypeOK, Control, FutureClean, Lineage, OneLineage, Kept, Ahead, Below, [Next]_vars
    PROVE  [Resumable /\ keepLast # 1 /\ ~ skewed' /\ ~ rewound' /\ ~ Truncates
              => Resumable']_vars
<1> USE DEF config, disk, launchVars, orchVars
<1> SUFFICES ASSUME Resumable, keepLast # 1, ~ skewed', ~ rewound', ~ Truncates
             PROVE  Resumable'
  OBVIOUS
<1>0. PICK k \in Complete : orchCkpt[k] = "full" /\ broadcasts[k] = trainerCkpt[k]
  BY DEF Resumable
<1>1. k \in Steps /\ k \in Nat /\ tstep \in Nat
  BY DEF Complete, Steps, TypeOK
<1>2. ASSUME trainerCkpt'[k] = trainerCkpt[k], broadcasts'[k] = broadcasts[k], orchCkpt'[k] = "full"
      PROVE  Resumable'
  <2>1. k \in Complete'
    BY <1>1, <1>2 DEF Complete
  <2> QED BY <1>0, <1>2, <2>1 DEF Resumable
<1>3. ASSUME NEW resume \in Steps \cup {Latest, Unset}, Launch(resume)
      PROVE  Resumable'
  <2>1. ~ (k > base')
    BY <1>3 DEF Launch
  <2>2. /\ trainerCkpt' = trainerCkpt /\ orchCkpt' = orchCkpt
        /\ broadcasts'[k] = FutureBroadcasts(k, base')
    BY <1>1, <1>3 DEF Launch
  <2>3. broadcasts'[k] = broadcasts[k]
    BY <2>1, <2>2 DEF FutureBroadcasts
  <2> QED BY <1>0, <1>2, <2>2, <2>3
<1>4. CASE Crash \/ LoadFails \/ Exit
  BY <1>0, <1>2, <1>4 DEF Crash, LoadFails, Exit
<1>5. CASE Interrupt
  <2>1. orchCkpt'[k] # "partial"
    BY <1>0, <1>1 DEF Truncates
  <2>2. orchCkpt'[k] = "full"
    BY <1>0, <1>1, <1>5, <2>1 DEF Interrupt, TypeOK
  <2> QED BY <1>2, <1>5, <2>2 DEF Interrupt
<1>6. CASE TrainerLoads \/ Discover \/ Train
  BY <1>0, <1>2, <1>6 DEF TrainerLoads, Discover, Train
<1>7. CASE Broadcast
  <2>1. /\ ~ skewed /\ ~ rewound /\ tpc = "broadcast"
        /\ trainerCkpt' = trainerCkpt /\ orchCkpt' = orchCkpt
        /\ broadcasts'[k] = IF k = next - 1 THEN model ELSE IF Outdated(k) THEN Absent ELSE broadcasts[k]
    BY <1>1, <1>7 DEF Broadcast
  <2>2. k < tstep /\ next = tstep + 1 /\ tstep \in Steps
    BY <2>1 DEF Below, Lineage, InStep, Control, Loaded
  <2>3. k # next - 1
    BY <1>1, <2>2
  <2>4. k % interval = 0
    <3>1. k # MaxSteps /\ k \in TrainerSteps
      BY <1>1, <2>2 DEF Complete, TrainerSteps, Steps
    <3> QED BY <3>1 DEF Kept, OnInterval
  <2>5. broadcasts'[k] = broadcasts[k]
    BY <2>1, <2>3, <2>4 DEF Outdated
  <2> QED BY <1>0, <1>2, <2>1, <2>5
<1>8. CASE TrainerSaves
  <2>1. ~ skewed /\ ~ rewound /\ tpc = "ckpt"
    BY <1>8 DEF TrainerSaves
  <2>2. k # tstep
    BY <1>1, <2>1 DEF Below, Loaded
  <2>3. trainerCkpt'[k] = trainerCkpt[k]
    BY <1>1, <1>8, <2>2 DEF TrainerSaves, TypeOK
  <2> QED BY <1>0, <1>2, <1>8, <2>3 DEF TrainerSaves
<1>9. CASE TrainerSaved
  <2> DEFINE known == ckpt_steps \cup {tstep}
             gone == IF keepLast = 0 THEN {} ELSE known \ Recent(known)
  <2>1. /\ ~ skewed /\ ~ rewound /\ tpc = "saving" /\ Loaded
        /\ broadcasts' = broadcasts /\ orchCkpt' = orchCkpt
        /\ \A j \in Steps : trainerCkpt'[j] = IF j \in gone THEN Absent
                              ELSE IF j = tstep THEN model ELSE trainerCkpt[j]
    BY <1>9 DEF TrainerSaved, Loaded
  <2>2. keepLast \in Nat /\ ckpt_steps \subseteq Steps /\ base \in Nat
    BY ResumeAssumption DEF TypeOK
  <2>3. k < tstep /\ \A j \in ckpt_steps : j < tstep /\ (base <= j => j \in Complete)
    BY <2>1 DEF Below, Kept, Loaded
  <2>4. k # tstep
    BY <1>1, <2>3
  <2>5. CASE k \notin gone
    <3> HIDE DEF gone
    <3>1. trainerCkpt'[k] = trainerCkpt[k]
      BY <1>1, <2>1, <2>4, <2>5
    <3> QED BY <1>0, <1>2, <2>1, <3>1
  <2>6. CASE k \in gone
    <3>1. keepLast # 0 /\ k \in ckpt_steps /\ k \notin Recent(known)
      BY <2>4, <2>6
    <3>2. PICK n \in ckpt_steps : /\ k < n /\ n \in Recent(known)
                                  /\ \A j \in ckpt_steps : j <= n
      BY <2>2, <2>3, <3>1, OneBeforeKept
    <3>3. n \notin gone
      BY <3>2
    <3> HIDE DEF gone, known
    <3>4. n \in Nat /\ base <= n
      <4>1. n \in Nat
        BY <2>2 DEF Steps
      <4>2. CASE base = 0
        BY <4>1, <4>2
      <4>3. CASE base > 0
        <5>1. PICK j \in ckpt_steps : base <= j
          BY <2>1, <4>3 DEF Kept
        <5>2. j <= n /\ j \in Nat
          BY <2>2, <3>2 DEF Steps
        <5> QED BY <2>2, <4>1, <5>1, <5>2
      <4> QED BY <2>2, <4>1, <4>2, <4>3
    <3>5. n \in Complete /\ n < tstep /\ n \in Steps
      BY <2>2, <2>3, <3>4
    <3>6. orchCkpt[n] = "full" /\ broadcasts[n] = trainerCkpt[n]
      BY <2>1, <3>4, <3>5, BehindIsResumable
    <3>7. trainerCkpt'[n] = trainerCkpt[n]
      <4>1. n # tstep
        BY <1>1, <3>4, <3>5
      <4> QED BY <2>1, <3>3, <3>5, <4>1
    <3>8. n \in Complete'
      BY <3>5, <3>7 DEF Complete
    <3> QED BY <2>1, <3>6, <3>7, <3>8 DEF Resumable
  <2> QED BY <2>5, <2>6
<1>10. CASE WritesConfig \/ OrchLoads \/ Ship \/ Adopt
  BY <1>0, <1>2, <1>10 DEF WritesConfig, OrchLoads, Ship, Adopt
<1>11. CASE OrchSaves
  <2>1. orchCkpt'[k] # "partial"
    BY <1>0, <1>1 DEF Truncates
  <2>2. orchCkpt'[k] = "full"
    BY <1>0, <1>1, <1>11, <2>1 DEF OrchSaves, TypeOK
  <2> QED BY <1>2, <1>11, <2>2 DEF OrchSaves
<1>12. CASE OrchSaved
  <2>1. orchCkpt'[k] = "full"
    BY <1>0, <1>1, <1>12 DEF OrchSaved, TypeOK
  <2> QED BY <1>2, <1>12, <2>1 DEF OrchSaved
<1>13. CASE UNCHANGED vars
  BY <1>0, <1>2, <1>13 DEF vars
<1> QED
  BY <1>3, <1>4, <1>5, <1>6, <1>7, <1>8, <1>9, <1>10, <1>11, <1>12, <1>13
  DEF Next, Trainer, Orchestrator

\* Whenever the run goes down there is a step it can resume from, once there
\* is one: the trainer's retention and the broadcasts' cleaning, two processes
\* and any crash between their writes never leave a run without a step whose
\* checkpoint, progress file and weights agree (keep_last # 1, no rewind, no
\* progress file written anew).
THEOREM AlwaysResumable == Spec => StaysResumable
<1>1. Init => Kept /\ Ahead /\ OneLineage /\ Below
  BY InitKept, InitAhead, InitOne DEF Init, Below, Loaded
<1>2. TypeOK /\ Control /\ FutureClean /\ Lineage /\ OneLineage /\ Kept /\ Ahead /\ Below /\ [Next]_vars
        => OneLineage' /\ Kept' /\ Ahead' /\ Below'
  BY NextOne, NextKept, NextAhead, NextBelow
<1>3. TypeOK /\ Control /\ FutureClean /\ Lineage /\ OneLineage /\ Kept /\ Ahead /\ Below /\ [Next]_vars
        => [Resumable /\ keepLast # 1 /\ ~ skewed' /\ ~ rewound' /\ ~ Truncates
              => Resumable']_vars
  BY NextResumable
<1> QED BY <1>1, <1>2, <1>3, LineageInvariant, PTL DEF Spec, StaysResumable

-----------------------------------------------------------------------------
(* SftData: what a loader holds                                            *)

\* The samples of a sequence, without the dummies a stacked batch is padded with.
Real(samples) == ToSet(samples) \ {0}

\* No sample occurs twice.
Distinct(samples) ==
    \A i, j \in 1..Len(samples) : samples[i] = samples[j] /\ samples[i] # 0 => i = j

\* What state_dict returns.
Loaders == [step : 0..MaxPosition, buckets : [Buckets -> Seq(Samples)],
            timers : [Buckets -> Nat \cup {None}], batches : Nat]

\* Types; what is saved is typed like what it is a copy of.
SftTypes ==
    /\ packing \in Packings /\ length \in [1..MaxPosition -> Lengths]
    /\ restarts \in 0..MaxRestarts
    /\ loader \in [Ranks -> Loaders]
    /\ packed \in [Ranks -> Seq(Samples)]
    /\ batch \in [Ranks -> Seq(Samples)]
    /\ trained \in [Ranks -> Seq(Samples)]
    /\ yielded \in [Ranks -> 0..Len(Sizes)]
    /\ Len(saved) <= 1
    /\ saved # <<>> => /\ saved[1].loader \in [Ranks -> Loaders]
                       /\ saved[1].trained \in [Ranks -> Seq(Samples)]

\* What a packer holds while it is suspended, by the kind of packer.
Suspended(r) ==
    /\ packing = "cat" =>
          /\ yielded[r] = 0 /\ \A b \in Buckets : loader[r].buckets[b] = <<>>
          /\ batch[r] # <<>> => packed[r] = <<>>
          /\ packed[r] \in Seq(1..MaxPosition) /\ Area(packed[r]) < MaxArea
    /\ packing # "cat" =>
          /\ packed[r] = <<>>
          /\ batch[r] # <<>> => yielded[r] # 0 /\ batch[r] = loader[r].buckets[yielded[r]]

\* Only the bucket that is yielded is full.
Room(r) ==
    LoaderExact =>
        /\ \A b \in Buckets \ {yielded[r]} : Len(loader[r].buckets[b]) < Capacity(b)
        /\ yielded[r] # 0 => Len(loader[r].buckets[yielded[r]]) = Capacity(yielded[r])

\* What a rank has read of the stream up to a position.
ReadBefore(r, n) == {p \in Own(r) : p <= n}

\* The samples in some of the buckets.
InBuckets(buckets, bs) == UNION {Real(buckets[b]) : b \in bs}

\* The samples that wait in a bucket; one that is yielded is in the batch.
Waiting(r) == InBuckets(loader[r].buckets, Buckets \ {yielded[r]})

\* Trained, in the batch to come or held back: exactly what was read.
Conserved(r) ==
    Real(trained[r]) \cup Real(batch[r]) \cup Real(packed[r]) \cup Waiting(r)
        = ReadBefore(r, loader[r].step)

\* Buckets without repetitions and with nothing in common.
Apart(buckets, bs) ==
    /\ \A b \in bs : Distinct(buckets[b])
    /\ \A b, c \in bs : b # c => Real(buckets[b]) \cap Real(buckets[c]) = {}

\* No sample is in two of these places, or twice in one.
OnceEach(r) ==
    LoaderExact =>
        /\ Distinct(trained[r]) /\ Distinct(batch[r]) /\ Distinct(packed[r])
        /\ Apart(loader[r].buckets, Buckets \ {yielded[r]})
        /\ Real(trained[r]) \cap (Real(batch[r]) \cup Real(packed[r]) \cup Waiting(r)) = {}
        /\ Real(batch[r]) \cap (Real(packed[r]) \cup Waiting(r)) = {}
        /\ Real(packed[r]) \cap Waiting(r) = {}

WellAt(r) == Suspended(r) /\ Room(r) /\ Conserved(r) /\ OnceEach(r)

\* The same of what is saved, which holds the bucket that was yielded still.
SavedWhole ==
    saved # <<>> => \A r \in Ranks :
        LET ld == saved[1].loader[r]
            tr == saved[1].trained[r]
        IN  /\ Real(tr) \cup InBuckets(ld.buckets, Buckets) = ReadBefore(r, ld.step)
            /\ packing = "cat" => Distinct(tr) /\ \A b \in Buckets : ld.buckets[b] = <<>>

\* The inductive invariant.  SamplesOnce alone is not: it says nothing of what
\* is saved, nor that the batch to come is the bucket the generator yielded, so
\* that its reset, when the generator goes on, drops nothing that is not trained.
SftInv == SftTypes /\ SavedWhole /\ \A r \in Ranks : WellAt(r)

\* What a concatenation holds.
Joins(s, t) ==
    /\ Real(s \o t) = Real(s) \cup Real(t)
    /\ Distinct(s) /\ Distinct(t) /\ Real(s) \cap Real(t) = {} => Distinct(s \o t)

\* A concatenation holds what its parts hold, once each if they are apart.
LEMMA JoinReal ==
    ASSUME NEW S, NEW s \in Seq(S), NEW t \in Seq(S)
    PROVE  Joins(s, t)
<1> DEFINE m == Len(s)
           u == s \o t
<1>1. /\ Len(u) = m + Len(t) /\ m \in Nat /\ Len(t) \in Nat
      /\ \A i \in 1..m : u[i] = s[i]
      /\ \A i \in 1..Len(u) : i > m => i - m \in 1..Len(t) /\ u[i] = t[i - m]
      /\ u \in Seq(S)
  OBVIOUS
<1>2. Real(u) = Real(s) \cup Real(t)
  BY ToSetConcat DEF Real
<1>3. ASSUME Distinct(s), Distinct(t), Real(s) \cap Real(t) = {} PROVE Distinct(u)
  <2> SUFFICES ASSUME NEW i \in 1..Len(u), NEW j \in 1..Len(u), u[i] = u[j], u[i] # 0
               PROVE  i = j
    BY DEF Distinct
  <2>1. ASSUME NEW k \in 1..m PROVE s[k] # 0 => s[k] \in Real(s)
    BY DEF Real, ToSet
  <2>2. ASSUME NEW k \in 1..Len(t) PROVE t[k] # 0 => t[k] \in Real(t)
    BY DEF Real, ToSet
  <2>3. CASE i <= m /\ j <= m
    <3>1. i \in 1..m /\ j \in 1..m /\ s[i] = s[j] /\ s[i] # 0
      BY <1>1, <2>3
    <3> QED BY <3>1, <1>3 DEF Distinct
  <2>4. CASE i > m /\ j > m
    <3>1. i - m \in 1..Len(t) /\ j - m \in 1..Len(t) /\ t[i - m] = t[j - m] /\ t[i - m] # 0
      BY <1>1, <2>4
    <3>2. i - m = j - m
      BY <3>1, <1>3 DEF Distinct
    <3> QED BY <3>2, <1>1
  <2>5. CASE i <= m /\ j > m
    <3>1. i \in 1..m /\ j - m \in 1..Len(t) /\ s[i] = t[j - m] /\ s[i] # 0
      BY <1>1, <2>5
    <3> QED BY <3>1, <2>1, <2>2, <1>3
  <2>6. CASE i > m /\ j <= m
    <3>1. j \in 1..m /\ i - m \in 1..Len(t) /\ s[j] = t[i - m] /\ s[j] # 0
      BY <1>1, <2>6
    <3> QED BY <3>1, <2>1, <2>2, <1>3
  <2> QED BY <1>1, <2>3, <2>4, <2>5, <2>6
<1> QED BY <1>1, <1>2, <1>3 DEF Joins

\* The empty sequence holds nothing.
LEMMA EmptyReal == Real(<<>>) = {} /\ Distinct(<<>>)
BY DEF Real, Distinct, ToSet

\* What a sequence holds after an append.
Appends(s, x) ==
    /\ Real(Append(s, x)) = Real(s) \cup ({x} \ {0})
    /\ Distinct(s) /\ x \notin Real(s) => Distinct(Append(s, x))

\* An append adds its element.
LEMMA AppendReal ==
    ASSUME NEW S, NEW s \in Seq(S), NEW x \in S
    PROVE  Appends(s, x)
<1> DEFINE t == <<x>>
           u == Append(s, x)
<1>1. u = s \o t /\ t \in Seq(S) /\ u \in Seq(S) /\ Len(u) = Len(s) + 1
  OBVIOUS
<1>2. ToSet(t) = {x}
  BY DEF ToSet
<1>3. Real(t) = {x} \ {0} /\ Distinct(t)
  BY <1>2 DEF Real, Distinct
<1> HIDE DEF t
<1>4. x \notin Real(s) => Real(s) \cap Real(t) = {}
  BY <1>3
<1>5. Joins(s, t)
  BY <1>1, JoinReal
<1>6. Real(u) = Real(s) \cup Real(t)
  BY <1>1, <1>5, Zenon DEF Joins
<1>7. Distinct(s) /\ x \notin Real(s) => Distinct(u)
  BY <1>1, <1>3, <1>4, <1>5, Zenon DEF Joins
<1> QED BY <1>1, <1>3, <1>6, <1>7, Zenon DEF Appends

\* A flattened sequence of sequences holds what they hold, once each if they are apart.
LEMMA FlattenReal ==
    ASSUME NEW S, NEW q \in Seq(Seq(S)), q # <<>>
    PROVE  /\ FlattenSeq(q) \in Seq(S)
           /\ Real(FlattenSeq(q)) = UNION {Real(q[i]) : i \in 1..Len(q)}
           /\ (/\ \A i \in 1..Len(q) : Distinct(q[i])
               /\ \A i, j \in 1..Len(q) : i # j => Real(q[i]) \cap Real(q[j]) = {})
              => Distinct(FlattenSeq(q))
           /\ Len(q) = 1 => FlattenSeq(q) = q[1]
<1> DEFINE n == Len(q)
<1>1. PICK u \in [0..n -> Seq(S)] :
          /\ FlattenSeq(q) = u[n] /\ u[0] = <<>>
          /\ \A i \in 1..n : u[i] = u[i - 1] \o q[i]
  BY FlattenUnfolds
<1>2. n \in Nat /\ n >= 1 /\ \A i \in 1..n : q[i] \in Seq(S)
  OBVIOUS
<1> DEFINE Sep == /\ \A i \in 1..n : Distinct(q[i])
                  /\ \A i, j \in 1..n : i # j => Real(q[i]) \cap Real(q[j]) = {}
           Upto(k) == UNION {Real(q[i]) : i \in 1..k}
           T == {k \in 0..n : Real(u[k]) = Upto(k) /\ (Sep => Distinct(u[k]))}
<1>3. 0 \in T
  <2>1. Upto(0) = {}
    OBVIOUS
  <2> QED BY <1>1, <1>2, <2>1, EmptyReal
<1>4. ASSUME NEW k \in 0..(n - 1), k \in T PROVE k + 1 \in T
  <2>1. k + 1 \in 1..n /\ (k + 1) - 1 = k /\ k \in 0..n /\ k + 1 \in 0..n
    BY <1>2
  <2>2. u[k + 1] = u[k] \o q[k + 1] /\ u[k] \in Seq(S) /\ q[k + 1] \in Seq(S)
    BY <1>1, <1>2, <2>1
  <2>6. Joins(u[k], q[k + 1])
    BY <2>2, JoinReal
  <2>3. Upto(k + 1) = Upto(k) \cup Real(q[k + 1])
    <3>1. 1..(k + 1) = (1..k) \cup {k + 1}
      BY <2>1
    <3> QED BY <3>1
  <2>4. Real(u[k + 1]) = Real(u[k]) \cup Real(q[k + 1])
    BY <2>2, <2>6, Zenon DEF Joins
  <2>5. ASSUME Sep PROVE Distinct(u[k + 1])
    <3>1. Distinct(u[k]) /\ Distinct(q[k + 1]) /\ Real(u[k]) = Upto(k)
      BY <1>4, <2>1, <2>5
    <3>2. Upto(k) \cap Real(q[k + 1]) = {}
      <4>1. \A i \in 1..k : i \in 1..n /\ i # k + 1
        BY <1>2, <2>1
      <4>2. \A i \in 1..k : Real(q[i]) \cap Real(q[k + 1]) = {}
        BY <4>1, <2>1, <2>5
      <4> QED BY <4>2
    <3> QED BY <3>1, <3>2, <2>2, <2>6, Zenon DEF Joins
  <2> QED BY <1>4, <2>1, <2>3, <2>4, <2>5
<1>5. n \in T
  <2> HIDE DEF T
  <2>1. \A k \in 0..n : k \in T
    BY <1>2, <1>3, <1>4, UpToInduction
  <2> QED BY <2>1, <1>2
<1>6. ASSUME n = 1 PROVE FlattenSeq(q) = q[1]
  <2>1. 1 \in 1..n /\ 1 - 1 = 0 /\ q[1] \in Seq(S)
    BY <1>2
  <2>2. u[1] = <<>> \o q[1]
    BY <1>1, <2>1, Zenon
  <2>4. \A x \in Seq(S) : <<>> \o x = x
    OBVIOUS
  <2>3. u[1] = q[1]
    BY <2>1, <2>2, <2>4, Zenon
  <2> QED BY <1>1, <1>6, <2>3
<1> QED BY <1>1, <1>2, <1>5, <1>6

\* Bucket sizes double: every bucket has room for a sample.
LEMMA SizesGrow ==
    /\ Len(Sizes) \in Nat \ {0} /\ Buckets = 1..Len(Sizes) /\ MaxArea = Sizes[Len(Sizes)]
    /\ \A b \in Buckets : Sizes[b] \in Nat \ {0} /\ Capacity(b) \in Nat \ {0}
<1> DEFINE n == Len(Sizes)
<1>1. /\ n \in Nat \ {0} /\ MaxArea = Sizes[n] /\ Buckets = 1..n
      /\ \A b \in Buckets : Sizes[b] \in Nat \ {0}
  BY SftAssumption DEF MaxArea, Buckets, Last
<1> DEFINE T == {i \in 0..(n - 1) : Sizes[n - i] <= Sizes[n]}
<1>2. 0 \in T
  BY <1>1
<1>3. ASSUME NEW i \in 0..(n - 2), i \in T PROVE i + 1 \in T
  <2>1. n - (i + 1) \in 1..(n - 1) /\ n - (i + 1) \in Buckets /\ n - i \in Buckets /\ n - (i + 1) + 1 = n - i
    BY <1>1
  <2>2. Sizes[n - i] = 2 * Sizes[n - (i + 1)]
    BY <2>1, SftAssumption
  <2> QED BY <1>1, <1>3, <2>1, <2>2
<1>4. \A i \in 0..(n - 1) : i \in T
  <2> HIDE DEF T
  <2>1. n - 1 \in Nat /\ (n - 1) - 1 = n - 2
    BY <1>1
  <2> QED BY <2>1, <1>2, <1>3, UpToInduction
<1>5. ASSUME NEW b \in Buckets PROVE Capacity(b) \in Nat \ {0}
  <2>1. n - b \in 0..(n - 1) /\ n - (n - b) = b
    BY <1>1
  <2>2. Sizes[b] <= MaxArea /\ Sizes[b] \in Nat \ {0} /\ MaxArea \in Nat \ {0}
    <3>1. n - b \in T
      BY <1>4, <2>1, Zenon
    <3> QED BY <1>1, <2>1, <3>1
  <2>3. \A x, y \in Nat \ {0} : y <= x => x \div y \in Nat \ {0}
    OBVIOUS
  <2> QED BY <2>2, <2>3 DEF Capacity
<1> QED BY <1>1, <1>5

\* Merging buckets loses and repeats nothing.
LEMMA MergedReal ==
    ASSUME NEW buckets \in [Buckets -> Seq(Samples)], NEW b \in Buckets, NEW k \in b..Len(Sizes),
           NEW m, m = Merged(buckets, b, k)
    PROVE  /\ m \in Seq(Samples) /\ Real(m) = InBuckets(buckets, b..k)
           /\ Apart(buckets, b..k) => Distinct(m)
           /\ k = b => m = buckets[b]
<1> DEFINE n == k - b + 1
           q == [i \in 1..n |-> buckets[k + 1 - i]]
<1>1. n \in Nat \ {0} /\ \A i \in 1..n : k + 1 - i \in Buckets /\ k + 1 - i \in b..k
  BY SizesGrow
<1>2. q \in Seq(Seq(Samples)) /\ q # <<>> /\ Len(q) = n /\ \A i \in 1..n : q[i] = buckets[k + 1 - i]
  <2>1. \A i \in 1..n : q[i] = buckets[k + 1 - i] /\ q[i] \in Seq(Samples)
    BY <1>1
  <2>2. q \in [1..n -> Seq(Samples)]
    BY <2>1
  <2> HIDE DEF q
  <2>3. q \in Seq(Seq(Samples)) /\ Len(q) = n
    BY <1>1, <2>2
  <2> QED BY <1>1, <2>1, <2>3
<1>3. m = FlattenSeq(q)
  BY DEF Merged
<1> HIDE DEF q
<1>4. /\ m \in Seq(Samples)
      /\ Real(m) = UNION {Real(q[i]) : i \in 1..n}
      /\ (/\ \A i \in 1..n : Distinct(q[i])
          /\ \A i, j \in 1..n : i # j => Real(q[i]) \cap Real(q[j]) = {}) => Distinct(m)
      /\ n = 1 => m = q[1]
  BY <1>2, <1>3, FlattenReal, Zenon
<1>5. \A c \in b..k : k + 1 - c \in 1..n /\ k + 1 - (k + 1 - c) = c
  BY <1>1, SizesGrow
<1>6. UNION {Real(q[i]) : i \in 1..n} = InBuckets(buckets, b..k)
  <2>1. \A i \in 1..n : k + 1 - i \in b..k /\ Real(q[i]) = Real(buckets[k + 1 - i])
    BY <1>1, <1>2
  <2>2. \A c \in b..k : k + 1 - c \in 1..n /\ Real(q[k + 1 - c]) = Real(buckets[c])
    BY <1>5, <2>1
  <2> HIDE DEF n
  <2> QED BY <2>1, <2>2 DEF InBuckets
<1>7. ASSUME Apart(buckets, b..k) PROVE Distinct(m)
  <2>1. \A i \in 1..n : Distinct(q[i])
    BY <1>1, <1>2, <1>7 DEF Apart
  <2>2. \A i, j \in 1..n : i # j => Real(q[i]) \cap Real(q[j]) = {}
    <3> SUFFICES ASSUME NEW i \in 1..n, NEW j \in 1..n, i # j
                 PROVE  Real(q[i]) \cap Real(q[j]) = {}
      OBVIOUS
    <3>1. k + 1 - i # k + 1 - j /\ k + 1 - i \in b..k /\ k + 1 - j \in b..k
      BY <1>1, SizesGrow
    <3> QED BY <1>2, <1>7, <3>1 DEF Apart
  <2> QED BY <1>4, <2>1, <2>2
<1>8. k = b => m = buckets[b]
  <2>1. k = b => n = 1 /\ k + 1 - 1 = b
    BY SizesGrow
  <2> QED BY <1>1, <1>2, <1>4, <2>1
<1> QED BY <1>4, <1>6, <1>7, <1>8

\* An append is one longer.
LEMMA Appended ==
    \A S : \A s \in Seq(S), x \in S : Append(s, x) \in Seq(S) /\ Len(Append(s, x)) = Len(s) + 1
OBVIOUS

\* The elements of a sequence.
LEMMA Elements ==
    \A S : \A s \in Seq(S) : Len(s) \in Nat /\ \A i \in 1..Len(s) : s[i] \in S
OBVIOUS

\* A function with one value replaced.
LEMMA Replaced ==
    \A A, B : \A f \in [A -> B], a \in A, v \in B : [f EXCEPT ![a] = v] \in [A -> B]
OBVIOUS

\* The length of a concatenation.
LEMMA ConcatLen ==
    \A S : \A s, t \in Seq(S) : s \o t \in Seq(S) /\ Len(s \o t) = Len(s) + Len(t)
OBVIOUS

\* Padding adds dummies only, and fills the bucket.
LEMMA PaddedReal ==
    ASSUME NEW s \in Seq(Samples), NEW k \in Buckets, NEW c, c = Padded(s, k)
    PROVE  /\ c \in Seq(Samples) /\ Real(c) = Real(s) /\ (Distinct(s) => Distinct(c))
           /\ Len(s) <= Capacity(k) => Len(c) = Capacity(k)
<1> DEFINE n == Capacity(k) - Len(s)
           z == [i \in 1..n |-> 0]
<1>1. n \in Int /\ Capacity(k) \in Nat /\ Len(s) \in Nat
  BY SizesGrow
<1>2. z \in Seq(Samples) /\ (n >= 0 => Len(z) = n) /\ \A i \in 1..Len(z) : z[i] = 0
  <2>1. 0 \in Samples
    BY SftAssumption DEF Samples
  <2>2. CASE n >= 0
    <3>1. z \in [1..n -> Samples] /\ \A i \in 1..n : z[i] = 0
      BY <2>1
    <3> HIDE DEF z
    <3>2. z \in Seq(Samples) /\ Len(z) = n
      BY <1>1, <2>2, <3>1
    <3> QED BY <3>1, <3>2
  <2>3. CASE n < 0
    <3>1. 1..n = {}
      BY <1>1, <2>3
    <3>2. z = [i \in {} |-> 0]
      BY <3>1, Zenon
    <3>3. <<>> = [i \in {} |-> 0]
      OBVIOUS
    <3>4. z = <<>>
      BY <3>2, <3>3, Zenon
    <3>5. <<>> \in Seq(Samples) /\ Len(<<>>) = 0
      OBVIOUS
    <3> HIDE DEF z
    <3> QED BY <1>1, <2>3, <3>4, <3>5
  <2> HIDE DEF z
  <2> QED BY <1>1, <2>2, <2>3
<1>3. c = s \o z
  BY DEF Padded
<1> HIDE DEF z
<1>4. Real(z) = {} /\ Distinct(z)
  BY <1>2 DEF Real, Distinct, ToSet
<1>5. Joins(s, z)
  BY <1>2, JoinReal
<1>6. Real(c) = Real(s) \cup Real(z) /\ (Distinct(s) => Distinct(c))
  BY <1>3, <1>4, <1>5, Zenon DEF Joins
<1>7. c \in Seq(Samples) /\ (n >= 0 => Len(c) = Len(s) + n)
  BY <1>1, <1>2, <1>3, ConcatLen
<1> QED BY <1>1, <1>4, <1>6, <1>7

\* A rank whose own state does not change stays well.
LEMMA RankKept ==
    ASSUME NEW r \in Ranks, WellAt(r), UNCHANGED <<packing, length, restarts>>,
           loader'[r] = loader[r], packed'[r] = packed[r], batch'[r] = batch[r],
           yielded'[r] = yielded[r], trained'[r] = trained[r]
    PROVE  WellAt(r)'
<1>1. LoaderExact' = LoaderExact /\ Own(r)' = Own(r) /\ Waiting(r)' = Waiting(r)
  BY DEF LoaderExact, Own, Waiting, InBuckets
<1>2. Area(packed[r])' = Area(packed[r])
  BY DEF Area
<1>3. Suspended(r)'
  BY <1>2 DEF WellAt, Suspended
<1>4. Room(r)'
  BY <1>1 DEF WellAt, Room
<1>5. Conserved(r)'
  BY <1>1 DEF WellAt, Conserved, ReadBefore
<1>6. OnceEach(r)'
  BY <1>1 DEF WellAt, OnceEach, Apart
<1> QED BY <1>3, <1>4, <1>5, <1>6 DEF WellAt

\* The next sample is new, and the only one between the two positions.
LEMMA NextSample ==
    ASSUME SftTypes, NEW r \in Ranks, Unread(r) # {}, NEW p, p = Min(Unread(r))
    PROVE  /\ p \in Own(r) /\ p \in 1..MaxPosition /\ p \in Samples /\ p > loader[r].step
           /\ ReadBefore(r, p) = ReadBefore(r, loader[r].step) \cup {p}
           /\ p \notin ReadBefore(r, loader[r].step)
<1>1. Unread(r) \in SUBSET Nat /\ MaxPosition \in Nat
  BY SftAssumption DEF Unread, Own
<1>2. p \in Unread(r) /\ \A q \in Unread(r) : p <= q
  BY <1>1, MinOf
<1>3. loader[r].step \in Nat
  BY DEF SftTypes, Loaders
<1>4. p \in Own(r) /\ p \in 1..MaxPosition /\ p \in Samples /\ p > loader[r].step
  <2>1. p \in Own(r) /\ p > loader[r].step
    BY <1>2 DEF Unread
  <2> QED BY <1>1, <2>1 DEF Own, Samples
<1>5. \A q \in Own(r) : q \in Nat /\ (q > loader[r].step => p <= q)
  BY <1>2, <1>1 DEF Unread, Own
<1>6. \A q \in Own(r) : q <= p <=> q <= loader[r].step \/ q = p
  BY <1>1, <1>3, <1>4, <1>5
<1>7. ReadBefore(r, p) = ReadBefore(r, loader[r].step) \cup {p}
  BY <1>1, <1>4, <1>6 DEF ReadBefore
<1>8. p \notin ReadBefore(r, loader[r].step)
  BY <1>1, <1>3, <1>4 DEF ReadBefore
<1> QED BY <1>4, <1>7, <1>8

\* CatDataset reads a sample: it joins the packed samples or completes the batch.
LEMMA CatStep ==
    ASSUME SftTypes, NEW r \in Ranks, WellAt(r), packing = "cat", batch[r] = <<>>,
           Unread(r) # {}, NEW p, p = Min(Unread(r)), ReadCat(r, p),
           UNCHANGED <<packing, length, saved, trained, restarts>>
    PROVE  /\ WellAt(r)' /\ loader' \in [Ranks -> Loaders]
           /\ packed' \in [Ranks -> Seq(Samples)] /\ batch' \in [Ranks -> Seq(Samples)]
           /\ yielded' = yielded
           /\ \A q \in Ranks \ {r} : /\ loader'[q] = loader[q] /\ packed'[q] = packed[q]
                                    /\ batch'[q] = batch[q]
<1> DEFINE samples == Append(packed[r], p)
           full == Area(samples) >= MaxArea
<1>1. /\ loader' = [loader EXCEPT ![r].step = p]
      /\ packed' = [packed EXCEPT ![r] = IF full THEN <<>> ELSE samples]
      /\ batch' = [batch EXCEPT ![r] = IF full THEN samples ELSE <<>>]
      /\ yielded' = yielded
  BY DEF ReadCat
<1>2. /\ p \in Own(r) /\ p \in 1..MaxPosition /\ p \in Samples /\ p > loader[r].step
      /\ ReadBefore(r, p) = ReadBefore(r, loader[r].step) \cup {p}
      /\ p \notin ReadBefore(r, loader[r].step)
  BY NextSample
<1>3. packed[r] \in Seq(Samples) /\ loader[r] \in Loaders
  BY DEF SftTypes
<1>4. /\ samples \in Seq(Samples) /\ Real(samples) = Real(packed[r]) \cup {p}
      /\ Distinct(packed[r]) /\ p \notin Real(packed[r]) => Distinct(samples)
  <2>1. {p} \ {0} = {p}
    BY <1>2
  <2> HIDE DEF samples
  <2>2. samples = Append(packed[r], p)
    BY DEF samples
  <2>3. Appends(packed[r], p)
    BY <1>2, <1>3, AppendReal
  <2>4. Real(samples) = Real(packed[r]) \cup ({p} \ {0})
        /\ (Distinct(packed[r]) /\ p \notin Real(packed[r]) => Distinct(samples))
    BY <2>2, <2>3, Zenon DEF Appends
  <2>5. samples \in Seq(Samples)
    BY <1>2, <1>3, <2>2
  <2> QED BY <2>1, <2>4, <2>5
<1> HIDE DEF samples, full
<1>5. /\ loader'[r] = [loader[r] EXCEPT !.step = p] /\ loader' \in [Ranks -> Loaders]
      /\ \A q \in Ranks \ {r} : loader'[q] = loader[q]
  <2>1. loader \in [Ranks -> Loaders]
    BY DEF SftTypes
  <2>2. loader'[r] = [loader[r] EXCEPT !.step = p] /\ \A q \in Ranks \ {r} : loader'[q] = loader[q]
    BY <1>1, <2>1
  <2>3. [loader[r] EXCEPT !.step = p] \in Loaders
    BY <1>2, <1>3 DEF Loaders, Samples
  <2>4. loader' = [loader EXCEPT ![r] = [loader[r] EXCEPT !.step = p]]
    BY <1>1
  <2> QED BY <2>1, <2>2, <2>3, <2>4
<1>6. /\ packed'[r] = IF full THEN <<>> ELSE samples
      /\ batch'[r] = IF full THEN samples ELSE <<>>
      /\ packed' \in [Ranks -> Seq(Samples)] /\ batch' \in [Ranks -> Seq(Samples)]
      /\ \A q \in Ranks \ {r} : packed'[q] = packed[q] /\ batch'[q] = batch[q]
  BY <1>1, <1>4 DEF SftTypes
<1>7. loader'[r].buckets = loader[r].buckets /\ loader'[r].step = p
  BY <1>3, <1>5 DEF Loaders
<1>8. LoaderExact /\ LoaderExact' /\ Waiting(r)' = Waiting(r) /\ Own(r)' = Own(r)
      /\ Waiting(r) = {}
  BY <1>1, <1>7, EmptyReal DEF LoaderExact, Own, Waiting, InBuckets, WellAt, Suspended
<1>9. Real(packed'[r]) \cup Real(batch'[r]) = Real(packed[r]) \cup {p}
      /\ (Real(packed'[r]) = {} \/ Real(batch'[r]) = {})
  BY <1>4, <1>6, EmptyReal
<1>10. Real(batch[r]) = {}
  BY EmptyReal
<1>11. Conserved(r)'
  BY <1>2, <1>7, <1>8, <1>9, <1>10 DEF WellAt, Conserved, ReadBefore
<1>12. OnceEach(r)'
  <2>1. p \notin Real(packed[r]) /\ p \notin Real(trained[r])
    BY <1>2 DEF WellAt, Conserved
  <2>2. Distinct(packed'[r]) /\ Distinct(batch'[r])
    BY <1>4, <1>6, <1>8, <2>1, EmptyReal DEF WellAt, OnceEach
  <2>3. Real(trained[r]) \cap (Real(packed'[r]) \cup Real(batch'[r])) = {}
    BY <1>8, <1>9, <2>1 DEF WellAt, OnceEach
  <2>4. Apart(loader[r].buckets, Buckets \ {yielded[r]})'
    BY <1>1, <1>7, <1>8 DEF WellAt, OnceEach, Apart
  <2> QED BY <1>8, <1>9, <2>2, <2>3, <2>4 DEF WellAt, OnceEach
<1>13. Room(r)'
  BY <1>1, <1>7, <1>8 DEF WellAt, Room
<1>14. Suspended(r)'
  <2>1. Area(<<>>)' = 0 /\ MaxArea > 0
    <3>1. [i \in 1..Len(<<>>) |-> length'[<<>>[i]]] = <<>>
      OBVIOUS
    <3>2. MaxArea \in Nat \ {0}
      BY SizesGrow
    <3> QED BY <3>1, <3>2, SumSeqEmpty DEF Area
  <2>2. packed'[r] \in Seq(1..MaxPosition)
    <3>1. samples \in Seq(1..MaxPosition)
      BY <1>2 DEF WellAt, Suspended, samples
    <3> QED BY <1>6, <3>1
  <2>3. Area(packed[r])' < MaxArea
    <3> DEFINE z == packed'[r]
               sizes == [i \in 1..Len(z) |-> length[z[i]]]
    <3>1. Area(packed[r])' = SumSeq(sizes)
      BY DEF Area
    <3>2. CASE full
      BY <1>6, <2>1, <3>2
    <3>3. CASE ~full
      <4>1. z = samples /\ ~(SumSeq(sizes) >= MaxArea)
        BY <1>6, <3>3 DEF full, Area
      <4>2. sizes \in Seq(Nat)
        <5>1. Len(z) \in Nat /\ \A i \in 1..Len(z) : z[i] \in 1..MaxPosition
          BY <2>2, Elements, Zenon
        <5>2. length \in [1..MaxPosition -> Lengths] /\ Lengths \subseteq Nat
          BY SftAssumption DEF SftTypes
        <5>3. sizes \in [1..Len(z) -> Nat]
          BY <5>1, <5>2
        <5> HIDE DEF sizes, z
        <5> QED BY <5>1, <5>3
      <4>3. SumSeq(sizes) \in Nat
        BY <4>2, SumSeqType
      <4>4. MaxArea \in Nat
        BY SizesGrow
      <4> HIDE DEF sizes
      <4> QED BY <3>1, <4>1, <4>3, <4>4
    <3> QED BY <3>2, <3>3
  <2> QED BY <1>1, <1>6, <1>7, <2>2, <2>3 DEF WellAt, Suspended
<1> QED BY <1>1, <1>5, <1>6, <1>11, <1>12, <1>13, <1>14 DEF WellAt

\* The code after the yield, in a rank that waits for its next batch.
LEMMA ResumedWell ==
    ASSUME SftTypes, NEW r \in Ranks, WellAt(r),
           NEW before, before = Resumed(loader[r], yielded[r])
    PROVE  /\ before \in Loaders
           /\ InBuckets(before.buckets, Buckets) = Waiting(r)
           /\ LoaderExact => /\ Apart(before.buckets, Buckets)
                             /\ \A b \in Buckets : Len(before.buckets[b]) < Capacity(b)
<1> DEFINE y == yielded[r]
           old == loader[r].buckets
           new == before.buckets
<1>1. y \in 0..Len(Sizes) /\ loader[r] \in Loaders /\ old \in [Buckets -> Seq(Samples)]
      /\ Buckets = 1..Len(Sizes) /\ Len(Sizes) \in Nat
  BY SizesGrow DEF SftTypes, Loaders
<1>2. before \in Loaders /\ \A b \in Buckets : new[b] = IF b = y THEN <<>> ELSE old[b]
  <2>1. CASE y = 0
    BY <1>1, <2>1 DEF Resumed
  <2>2. CASE y # 0
    <3>1. before = [loader[r] EXCEPT !.batches = @ + 1, !.buckets[y] = <<>>, !.timers[y] = None]
      BY <2>2 DEF Resumed
    <3>2. <<>> \in Seq(Samples) /\ y \in Buckets
      BY <1>1, <2>2
    <3>3. /\ new = [old EXCEPT ![y] = <<>>] /\ before.step = loader[r].step
          /\ before.batches = loader[r].batches + 1
          /\ before.timers = [loader[r].timers EXCEPT ![y] = None]
      BY <1>1, <3>1 DEF Loaders
    <3>4. new \in [Buckets -> Seq(Samples)] /\ \A b \in Buckets : new[b] = IF b = y THEN <<>> ELSE old[b]
      BY <1>1, <3>2, <3>3
    <3>5. before.timers \in [Buckets -> Nat \cup {None}] /\ before.batches \in Nat
          /\ before.step \in 0..MaxPosition
      <4>1. loader[r].timers \in [Buckets -> Nat \cup {None}] /\ loader[r].batches \in Nat
            /\ loader[r].step \in 0..MaxPosition
        BY <1>1 DEF Loaders
      <4>2. None \in Nat \cup {None}
        OBVIOUS
      <4>3. before.timers \in [Buckets -> Nat \cup {None}]
        BY <3>2, <3>3, <4>1, <4>2, Replaced, Zenon
      <4>4. before.batches \in Nat
        BY <3>3, <4>1
      <4>5. before.step \in 0..MaxPosition
        BY <3>3, <4>1, Zenon
      <4> QED BY <4>3, <4>4, <4>5
    <3>6. before = [step |-> before.step, buckets |-> before.buckets,
                    timers |-> before.timers, batches |-> before.batches]
      BY <1>1, <3>1 DEF Loaders
    <3> QED BY <3>4, <3>5, <3>6 DEF Loaders
  <2> QED BY <2>1, <2>2
<1>3. \A b \in Buckets : Real(new[b]) = IF b = y THEN {} ELSE Real(old[b])
  BY <1>2, EmptyReal
<1>4. InBuckets(new, Buckets) = Waiting(r)
  BY <1>3 DEF InBuckets, Waiting
<1>5. ASSUME LoaderExact PROVE Apart(new, Buckets)
  BY <1>2, <1>3, <1>5, EmptyReal DEF WellAt, OnceEach, Apart
<1>6. ASSUME LoaderExact, NEW b \in Buckets PROVE Len(new[b]) < Capacity(b)
  BY <1>2, <1>6, SizesGrow DEF WellAt, Room
<1> QED BY <1>2, <1>4, <1>5, <1>6

\* What the buckets hold once a sample has joined one of them.
BucketedAt(old, b, p, new) ==
    /\ new \in [Buckets -> Seq(Samples)] /\ Len(new[b]) = Len(old[b]) + 1
    /\ \A c \in Buckets \ {b} : new[c] = old[c]
    /\ InBuckets(new, Buckets) = InBuckets(old, Buckets) \cup {p}
    /\ Apart(old, Buckets) /\ p \notin InBuckets(old, Buckets) => Apart(new, Buckets)

\* A sample joins its bucket.
LEMMA BucketedWell ==
    ASSUME NEW old \in [Buckets -> Seq(Samples)], NEW b \in Buckets, NEW p \in Samples, p # 0,
           NEW new, new = [old EXCEPT ![b] = Append(@, p)]
    PROVE  BucketedAt(old, b, p, new)
<1> DEFINE s == Append(old[b], p)
<1>1. s \in Seq(Samples) /\ Len(s) = Len(old[b]) + 1 /\ new[b] = s
      /\ new \in [Buckets -> Seq(Samples)] /\ \A c \in Buckets \ {b} : new[c] = old[c]
  BY Appended
<1>2. Appends(old[b], p)
  BY AppendReal
<1>3. Real(s) = Real(old[b]) \cup {p} /\ (Distinct(old[b]) /\ p \notin Real(old[b]) => Distinct(s))
  <2>1. {p} \ {0} = {p}
    OBVIOUS
  <2> QED BY <1>2, <2>1, Zenon DEF Appends
<1> HIDE DEF s
<1>4. Real(new[b]) = Real(old[b]) \cup {p} /\ \A c \in Buckets \ {b} : Real(new[c]) = Real(old[c])
  BY <1>1, <1>3, Zenon
<1>5. InBuckets(new, Buckets) = InBuckets(old, Buckets) \cup {p}
  <2>1. \A x : x \in InBuckets(new, Buckets) => x \in InBuckets(old, Buckets) \cup {p}
    BY <1>4, Zenon DEF InBuckets
  <2>2. \A x : x \in InBuckets(old, Buckets) => x \in InBuckets(new, Buckets)
    BY <1>4, Zenon DEF InBuckets
  <2>3. p \in InBuckets(new, Buckets)
    BY <1>4, Zenon DEF InBuckets
  <2> QED BY <2>1, <2>2, <2>3
<1>6. ASSUME Apart(old, Buckets), p \notin InBuckets(old, Buckets) PROVE Apart(new, Buckets)
  <2>1. \A c \in Buckets : p \notin Real(old[c])
    BY <1>6 DEF InBuckets
  <2>2. \A c \in Buckets : Distinct(new[c])
    BY <1>1, <1>3, <1>6, <2>1 DEF Apart
  <2>3. ASSUME NEW c \in Buckets, NEW d \in Buckets, c # d PROVE Real(new[c]) \cap Real(new[d]) = {}
    <3>1. Real(old[c]) \cap Real(old[d]) = {} /\ p \notin Real(old[c]) /\ p \notin Real(old[d])
      BY <1>6, <2>1, <2>3 DEF Apart
    <3>2. CASE c = b
      BY <1>4, <2>3, <3>1, <3>2
    <3>3. CASE d = b
      BY <1>4, <2>3, <3>1, <3>3
    <3>4. CASE c # b /\ d # b
      BY <1>4, <3>1, <3>4
    <3> QED BY <3>2, <3>3, <3>4
  <2> QED BY <2>2, <2>3 DEF Apart
<1> QED BY <1>1, <1>5, <1>6 DEF BucketedAt

\* A bucket that is merged into has room for all that is merged.
LEMMA YieldedFromBounds ==
    ASSUME NEW buckets \in [Buckets -> Seq(Samples)], NEW b \in Buckets,
           NEW k, k = YieldedFrom(buckets, b)
    PROVE  k \in b..Len(Sizes) /\ (k > b => Len(Merged(buckets, b, k)) < Capacity(k))
<1> DEFINE n == Len(Sizes)
           S == {l \in b..n : \A j \in (b + 1)..l : Len(Merged(buckets, b, j)) < Capacity(j)}
<1>1. n \in Nat /\ b \in 1..n
  BY SizesGrow
<1>2. b \in S /\ S \in SUBSET Nat /\ \A l \in S : l <= n
  BY <1>1
<1>3. Max(S) \in S
  <2> HIDE DEF S
  <2> QED BY <1>1, <1>2, MaxOf
<1>4. k = Max(S)
  BY DEF YieldedFrom
<1> HIDE DEF n
<1>5. k \in b..n /\ \A j \in (b + 1)..k : Len(Merged(buckets, b, j)) < Capacity(j)
  BY <1>3, <1>4
<1>6. k > b => k \in (b + 1)..k
  BY <1>1, <1>5
<1> QED BY <1>5, <1>6 DEF n

\* Fields set in a loader's state.
LEMMA FieldsSet ==
    \A l \in Loaders :
        /\ \A p \in 0..MaxPosition, bs \in [Buckets -> Seq(Samples)] :
              [l EXCEPT !.step = p, !.buckets = bs] \in Loaders
        /\ \A bs \in [Buckets -> Seq(Samples)], ts \in [Buckets -> Nat \cup {None}] :
              [l EXCEPT !.buckets = bs, !.timers = ts] \in Loaders
        /\ \A ts \in [Buckets -> Nat \cup {None}] : [l EXCEPT !.timers = ts] \in Loaders
BY DEF Loaders

\* StackDataset reads a sample: it waits in its bucket, or a bucket is yielded,
\* because it is full or, with what it is merged with, because it timed out.
LEMMA StackStep ==
    ASSUME SftTypes, NEW r \in Ranks, WellAt(r), packing # "cat", batch[r] = <<>>,
           Unread(r) # {}, NEW p, p = Min(Unread(r)), ReadStack(r, p),
           UNCHANGED <<packing, length, saved, trained, restarts>>
    PROVE  /\ WellAt(r)' /\ loader' \in [Ranks -> Loaders]
           /\ packed' = packed /\ batch' \in [Ranks -> Seq(Samples)]
           /\ yielded' \in [Ranks -> 0..Len(Sizes)]
           /\ \A q \in Ranks \ {r} : /\ loader'[q] = loader[q] /\ yielded'[q] = yielded[q]
                                    /\ batch'[q] = batch[q]
<1> DEFINE before == Resumed(loader[r], yielded[r])
           b == BucketOf(p)
           ld == [before EXCEPT !.step = p, !.buckets[b] = Append(@, p)]
           timedOut == ld.timers[b] # None /\ ld.timers[b] + Timeout < ld.batches
           full == Len(ld.buckets[b]) >= Capacity(b)
           k == IF timedOut THEN YieldedFrom(ld.buckets, b) ELSE b
           samples == Merged(ld.buckets, b, k)
           content == IF timedOut THEN Padded(samples, k) ELSE samples
           yields == [ld EXCEPT
                         !.buckets = [j \in Buckets |->
                             IF j = k THEN content ELSE IF j \in b..k THEN <<>> ELSE @[j]],
                         !.timers = [j \in Buckets |->
                             IF j \in b..(k - 1) THEN None ELSE @[j]]]
           waits == [ld EXCEPT !.timers[b] = IF @ = None THEN ld.batches ELSE @]
<1>1. /\ IF full \/ timedOut
         THEN /\ loader' = [loader EXCEPT ![r] = yields]
              /\ batch' = [batch EXCEPT ![r] = content]
              /\ yielded' = [yielded EXCEPT ![r] = k]
         ELSE /\ loader' = [loader EXCEPT ![r] = waits]
              /\ yielded' = [yielded EXCEPT ![r] = 0]
              /\ batch' = batch
      /\ packed' = packed
  BY Zenon DEF ReadStack
<1>2. /\ p \in Own(r) /\ p \in 1..MaxPosition /\ p \in Samples /\ p > loader[r].step
      /\ ReadBefore(r, p) = ReadBefore(r, loader[r].step) \cup {p}
      /\ p \notin ReadBefore(r, loader[r].step)
  BY NextSample
<1>3. /\ before \in Loaders /\ before.buckets \in [Buckets -> Seq(Samples)]
      /\ InBuckets(before.buckets, Buckets) = Waiting(r)
      /\ LoaderExact => /\ Apart(before.buckets, Buckets)
                        /\ \A c \in Buckets : Len(before.buckets[c]) < Capacity(c)
  BY ResumedWell DEF Loaders
<1>4. b \in Buckets
  <2> DEFINE S == {c \in Buckets : Sizes[c] >= length[p]} \cup {Len(Sizes)}
  <2>1. S \in SUBSET Nat /\ S # {} /\ S \subseteq Buckets
    BY SizesGrow
  <2> HIDE DEF S
  <2>2. Min(S) \in S
    BY <2>1, MinOf
  <2> QED BY <2>1, <2>2 DEF BucketOf, S
<1> HIDE DEF before, b
<1>5. /\ ld \in Loaders /\ ld.step = p /\ ld.batches = before.batches /\ ld.timers = before.timers
      /\ ld.buckets = [before.buckets EXCEPT ![b] = Append(@, p)]
  <2>1. p \in 0..MaxPosition
    BY <1>2
  <2>2. /\ ld.step = p /\ ld.batches = before.batches /\ ld.timers = before.timers
        /\ ld.buckets = [before.buckets EXCEPT ![b] = Append(@, p)]
    BY <1>3 DEF Loaders
  <2>3. ld.buckets \in [Buckets -> Seq(Samples)]
    BY <1>2, <1>3, <1>4, <2>2, Appended
  <2>4. ld = [before EXCEPT !.step = p, !.buckets = [before.buckets EXCEPT ![b] = Append(@, p)]]
    BY <1>3 DEF Loaders
  <2>5. [before EXCEPT !.step = p, !.buckets = ld.buckets] \in Loaders
    <3> HIDE DEF ld
    <3> QED BY <1>3, <2>1, <2>3, FieldsSet
  <2> QED BY <2>2, <2>4, <2>5, Zenon
<1> DEFINE new == ld.buckets
<1>6. /\ new \in [Buckets -> Seq(Samples)] /\ Len(new[b]) = Len(before.buckets[b]) + 1
      /\ \A c \in Buckets \ {b} : new[c] = before.buckets[c]
      /\ InBuckets(new, Buckets) = Waiting(r) \cup {p}
      /\ LoaderExact => Apart(new, Buckets)
  <2>1. p # 0 /\ p \notin Waiting(r)
    BY <1>2 DEF WellAt, Conserved
  <2>2. /\ new \in [Buckets -> Seq(Samples)] /\ Len(new[b]) = Len(before.buckets[b]) + 1
        /\ \A c \in Buckets \ {b} : new[c] = before.buckets[c]
        /\ InBuckets(new, Buckets) = InBuckets(before.buckets, Buckets) \cup {p}
        /\ Apart(before.buckets, Buckets) /\ p \notin InBuckets(before.buckets, Buckets) => Apart(new, Buckets)
    <3> DEFINE old == before.buckets
    <3>1. old \in [Buckets -> Seq(Samples)] /\ new = [old EXCEPT ![b] = Append(old[b], p)]
      BY <1>3, <1>5, Zenon
    <3> HIDE DEF ld, old
    <3>2. BucketedAt(old, b, p, new)
      BY <1>2, <1>4, <2>1, <3>1, BucketedWell, ZenonT(60)
    <3> QED BY <3>2, Zenon DEF BucketedAt, old
  <2> QED BY <1>3, <2>1, <2>2
<1> HIDE DEF ld
<1>7. LoaderExact => /\ \A c \in Buckets \ {b} : Len(new[c]) < Capacity(c)
                     /\ Len(new[b]) <= Capacity(b)
  BY <1>3, <1>4, <1>6, SizesGrow
<1>8. k \in b..Len(Sizes) /\ k \in Buckets /\ (k > b => Len(Merged(new, b, k)) < Capacity(k))
  <2>1. CASE timedOut
    <3>1. k = YieldedFrom(new, b)
      BY <2>1
    <3> HIDE DEF k
    <3> QED BY <1>4, <1>6, <3>1, SizesGrow, YieldedFromBounds
  <2>2. CASE ~timedOut
    <3>1. k = b
      BY <2>2
    <3> HIDE DEF k
    <3> QED BY <1>4, <3>1, SizesGrow
  <2> QED BY <2>1, <2>2
<1> HIDE DEF k
<1>9. /\ samples \in Seq(Samples) /\ Real(samples) = InBuckets(new, b..k)
      /\ Apart(new, b..k) => Distinct(samples)
      /\ k = b => samples = new[b]
  BY <1>4, <1>6, <1>8, MergedReal
<1>10. LoaderExact => Len(samples) <= Capacity(k)
  BY <1>4, <1>6, <1>7, <1>8, <1>9, SizesGrow
<1> HIDE DEF samples
<1>11. /\ content \in Seq(Samples) /\ Real(content) = InBuckets(new, b..k)
       /\ LoaderExact => Distinct(content)
       /\ LoaderExact /\ (full \/ timedOut) => Len(content) = Capacity(k)
  <2>1. Apart(new, Buckets) => Apart(new, b..k)
    <3>1. b..k \subseteq Buckets
      BY <1>4, <1>8, SizesGrow
    <3> QED BY <3>1, Zenon DEF Apart
  <2>2. CASE timedOut
    BY <1>6, <1>8, <1>9, <1>10, <2>1, <2>2, PaddedReal
  <2>3. CASE ~timedOut
    <3>1. k = b /\ content = new[b]
      BY <1>9, <2>3 DEF k
    <3>2. LoaderExact /\ full => Len(content) = Capacity(k)
      <4>1. Len(new[b]) \in Nat /\ Capacity(b) \in Nat
        BY <1>4, <1>6, SizesGrow
      <4> QED BY <1>7, <3>1, <4>1
    <3> QED BY <1>6, <1>9, <2>1, <2>3, <3>1, <3>2
  <2> QED BY <2>2, <2>3
<1>12. LoaderExact' = LoaderExact /\ Own(r)' = Own(r) /\ packed'[r] = <<>> /\ packed[r] = <<>>
  BY <1>1 DEF LoaderExact, Own, WellAt, Suspended
<1>13. Real(trained[r]) \cup Waiting(r) = ReadBefore(r, loader[r].step) /\ Real(batch[r]) = {} /\ Real(<<>>) = {}
  BY <1>12, EmptyReal DEF WellAt, Conserved
<1>14. CASE full \/ timedOut
  <2> DEFINE after == loader'[r].buckets
  <2>1. /\ loader' = [loader EXCEPT ![r] = yields]
        /\ batch' = [batch EXCEPT ![r] = content]
        /\ yielded' = [yielded EXCEPT ![r] = k]
    BY <1>1, <1>14
  <2>2. /\ yields.step = p /\ yields \in Loaders
        /\ \A j \in Buckets : yields.buckets[j] =
              IF j = k THEN content ELSE IF j \in b..k THEN <<>> ELSE new[j]
    <3> HIDE DEF content
    <3> DEFINE bs == [j \in Buckets |-> IF j = k THEN content ELSE IF j \in b..k THEN <<>> ELSE new[j]]
               ts == [j \in Buckets |-> IF j \in b..(k - 1) THEN None ELSE ld.timers[j]]
    <3>1. yields.step = ld.step /\ yields.buckets = bs
      BY <1>5 DEF Loaders
    <3>2. bs \in [Buckets -> Seq(Samples)]
      <4>1. <<>> \in Seq(Samples)
        OBVIOUS
      <4> QED BY <4>1, <1>6, <1>11
    <3>3. ts \in [Buckets -> Nat \cup {None}] /\ ld.batches \in Nat /\ ld.step \in 0..MaxPosition
      BY <1>5 DEF Loaders
    <3>4. yields \in Loaders
      <4>1. yields = [ld EXCEPT !.buckets = bs, !.timers = ts]
        BY Zenon
      <4>2. [ld EXCEPT !.buckets = bs, !.timers = ts] \in Loaders
        <5> HIDE DEF bs, ts
        <5> QED BY <1>5, <3>2, <3>3, FieldsSet
      <4> QED BY <4>1, <4>2, Zenon
    <3> HIDE DEF yields
    <3> QED BY <1>5, <3>1, <3>4
  <2> HIDE DEF yields, content
  <2>3. /\ loader' \in [Ranks -> Loaders] /\ batch' \in [Ranks -> Seq(Samples)]
        /\ yielded' \in [Ranks -> 0..Len(Sizes)]
        /\ loader'[r] = yields /\ batch'[r] = content /\ yielded'[r] = k
        /\ \A q \in Ranks \ {r} : /\ loader'[q] = loader[q] /\ yielded'[q] = yielded[q]
                                 /\ batch'[q] = batch[q]
    <3>1. k \in 0..Len(Sizes)
      BY <1>8, SizesGrow
    <3> QED BY <2>1, <2>2, <1>11, <3>1 DEF SftTypes
  <2>4. /\ after[k] = content /\ k # 0
        /\ \A j \in Buckets \ {k} : after[j] = IF j \in b..k THEN <<>> ELSE new[j]
    BY <1>8, <2>2, <2>3, SizesGrow
  <2>5. Waiting(r)' = InBuckets(new, Buckets \ (b..k))
    <3>1. Waiting(r)' = InBuckets(after, Buckets \ {k})
      BY <2>3 DEF Waiting, InBuckets
    <3>2. \A j \in Buckets \ {k} : Real(after[j]) = IF j \in b..k THEN {} ELSE Real(new[j])
      BY <1>13, <2>4
    <3>3. k \in b..k
      BY <1>4, <1>8, SizesGrow
    <3> QED BY <3>1, <3>2, <3>3 DEF InBuckets
  <2>6. Real(content) \cup Waiting(r)' = Waiting(r) \cup {p}
    <3>1. b..k \subseteq Buckets
      BY <1>4, <1>8, SizesGrow
    <3>2. InBuckets(new, b..k) \cup InBuckets(new, Buckets \ (b..k)) = InBuckets(new, Buckets)
      BY <3>1 DEF InBuckets
    <3> QED BY <1>6, <1>11, <2>5, <3>2
  <2>7. Conserved(r)'
    <3>1. Real(trained[r]) \cup Real(content) \cup {} \cup Waiting(r)' = ReadBefore(r, p)
      BY <1>2, <1>13, <2>6
    <3> QED BY <1>12, <1>13, <2>2, <2>3, <3>1 DEF Conserved, ReadBefore
  <2>8. OnceEach(r)'
    <3> SUFFICES ASSUME LoaderExact PROVE OnceEach(r)'
      BY <1>12 DEF OnceEach
    <3>1. Apart(new, Buckets)
      BY <1>6
    <3>2. Real(content) \cap Waiting(r)' = {}
      <4>1. \A i \in b..k, j \in Buckets \ (b..k) : Real(new[i]) \cap Real(new[j]) = {}
        <5>1. b..k \subseteq Buckets
          BY <1>4, <1>8, SizesGrow
        <5> QED BY <3>1, <5>1, Zenon DEF Apart
      <4>2. ASSUME NEW x, x \in Real(content), x \in Waiting(r)' PROVE FALSE
        <5>1. PICK i \in b..k : x \in Real(new[i])
          BY <1>11, <4>2, Zenon DEF InBuckets
        <5>2. PICK j \in Buckets \ (b..k) : x \in Real(new[j])
          BY <2>5, <4>2, Zenon DEF InBuckets
        <5> QED BY <4>1, <5>1, <5>2
      <4> QED BY <4>2
    <3>3. Real(trained[r]) \cap (Real(content) \cup Waiting(r)') = {}
      <4>1. p \notin Real(trained[r]) /\ Real(trained[r]) \cap Waiting(r) = {}
        BY <1>2, <1>13 DEF WellAt, OnceEach
      <4> QED BY <2>6, <4>1
    <3>4. Apart(after, Buckets \ {k})
      <4>1. \A j \in Buckets \ {k} : (after[j] = <<>> /\ Real(after[j]) = {}) \/ after[j] = new[j]
        BY <1>13, <2>4
      <4> QED BY <3>1, <4>1, EmptyReal DEF Apart
    <3>5. Distinct(trained[r]) /\ Distinct(content) /\ Distinct(<<>>)
      BY <1>11, EmptyReal DEF WellAt, OnceEach
    <3>6. Apart(loader[r].buckets, Buckets \ {yielded[r]})'
      BY <2>3, <3>4 DEF Apart
    <3> QED BY <1>12, <1>13, <2>3, <3>2, <3>3, <3>5, <3>6 DEF OnceEach
  <2>9. Room(r)'
    <3> SUFFICES ASSUME LoaderExact PROVE Room(r)'
      BY <1>12 DEF Room
    <3>1. Len(after[k]) = Capacity(k)
      BY <1>11, <1>14, <2>4
    <3>2. b \in b..k /\ Len(<<>>) = 0 /\ \A j \in Buckets : Capacity(j) \in Nat \ {0}
      BY <1>4, <1>8, SizesGrow
    <3>3. \A j \in Buckets \ {k} : Len(after[j]) < Capacity(j)
      BY <1>7, <2>4, <3>2
    <3> QED BY <2>3, <3>1, <3>3 DEF Room
  <2>10. Suspended(r)'
    BY <1>12, <2>3, <2>4 DEF Suspended
  <2> QED BY <1>1, <2>3, <2>7, <2>8, <2>9, <2>10 DEF WellAt
<1>15. CASE ~(full \/ timedOut)
  <2>1. loader' = [loader EXCEPT ![r] = waits] /\ yielded' = [yielded EXCEPT ![r] = 0] /\ batch' = batch
    BY <1>1, <1>15
  <2>2. waits \in Loaders /\ waits.buckets = new /\ waits.step = p
    <3> DEFINE ts == [ld.timers EXCEPT ![b] = IF @ = None THEN ld.batches ELSE @]
    <3>1. waits.step = ld.step /\ waits.buckets = ld.buckets
      BY <1>5 DEF Loaders
    <3>2. ts \in [Buckets -> Nat \cup {None}]
      BY <1>5 DEF Loaders
    <3>3. waits = [ld EXCEPT !.timers = ts]
      BY Zenon
    <3>4. [ld EXCEPT !.timers = ts] \in Loaders
      <4> HIDE DEF ts
      <4> QED BY <1>5, <3>2, FieldsSet
    <3> QED BY <1>5, <3>1, <3>3, <3>4, Zenon
  <2> HIDE DEF waits
  <2>3. /\ loader' \in [Ranks -> Loaders] /\ batch' \in [Ranks -> Seq(Samples)]
        /\ yielded' \in [Ranks -> 0..Len(Sizes)]
        /\ loader'[r] = waits /\ batch'[r] = <<>> /\ yielded'[r] = 0
        /\ \A q \in Ranks \ {r} : /\ loader'[q] = loader[q] /\ yielded'[q] = yielded[q]
                                 /\ batch'[q] = batch[q]
    <3>1. 0 \in 0..Len(Sizes)
      BY SizesGrow
    <3> QED BY <2>1, <2>2, <3>1 DEF SftTypes
  <2>4. Buckets \ {0} = Buckets
    BY SizesGrow
  <2>5. Waiting(r)' = Waiting(r) \cup {p}
    <3>1. Waiting(r)' = InBuckets(new, Buckets)
      BY <2>2, <2>3, <2>4 DEF Waiting, InBuckets
    <3> QED BY <1>6, <3>1
  <2>6. Conserved(r)'
    BY <1>2, <1>12, <1>13, <2>2, <2>3, <2>5 DEF Conserved, ReadBefore
  <2>7. OnceEach(r)'
    <3> SUFFICES ASSUME LoaderExact PROVE OnceEach(r)'
      BY <1>12 DEF OnceEach
    <3>1. Real(trained[r]) \cap Waiting(r)' = {}
      BY <1>2, <1>13, <2>5 DEF WellAt, OnceEach
    <3>2. Apart(loader[r].buckets, Buckets \ {yielded[r]})'
      BY <1>6, <2>2, <2>3, <2>4 DEF Apart
    <3>3. Distinct(trained[r]) /\ Distinct(<<>>)
      BY EmptyReal DEF WellAt, OnceEach
    <3> QED BY <1>12, <1>13, <2>3, <3>1, <3>2, <3>3 DEF OnceEach
  <2>8. Room(r)'
    <3> SUFFICES ASSUME LoaderExact PROVE Room(r)'
      BY <1>12 DEF Room
    <3>1. Len(new[b]) < Capacity(b)
      <4>1. Len(new[b]) \in Nat /\ Capacity(b) \in Nat
        BY <1>4, <1>6, SizesGrow
      <4> QED BY <1>15, <4>1
    <3>2. \A j \in Buckets : Len(new[j]) < Capacity(j)
      BY <1>7, <3>1
    <3> QED BY <2>2, <2>3, <2>4, <3>2 DEF Room
  <2>9. Suspended(r)'
    BY <1>12, <2>3 DEF Suspended
  <2> QED BY <1>1, <2>3, <2>6, <2>7, <2>8, <2>9 DEF WellAt
<1> QED BY <1>14, <1>15

\* The invariant holds initially.
LEMMA SftInitInv == SftInit => SftInv
<1> SUFFICES ASSUME SftInit PROVE SftInv
  OBVIOUS
<1>1. /\ 0 \in 0..MaxRestarts /\ 0 \in 0..MaxPosition /\ 0 \in 0..Len(Sizes) /\ 0 \in Nat
      /\ None \in Nat \cup {None} /\ <<>> \in Seq(Samples) /\ Len(<<>>) = 0
  BY SftAssumption, SizesGrow
<1>2. FreshLoader \in Loaders /\ FreshLoader.step = 0 /\ \A b \in Buckets : FreshLoader.buckets[b] = <<>>
  BY <1>1 DEF FreshLoader, Loaders
<1>3. SftTypes
  BY <1>1, <1>2 DEF SftInit, SftTypes
<1>4. SavedWhole
  BY DEF SftInit, SavedWhole
<1>5. ASSUME NEW r \in Ranks PROVE WellAt(r)
  <2>1. /\ loader[r].step = 0 /\ \A b \in Buckets : loader[r].buckets[b] = <<>>
        /\ packed[r] = <<>> /\ batch[r] = <<>> /\ trained[r] = <<>> /\ yielded[r] = 0
    BY <1>2 DEF SftInit
  <2>2. Real(<<>>) = {} /\ Distinct(<<>>) /\ Waiting(r) = {}
    BY <2>1, EmptyReal DEF Waiting, InBuckets
  <2>3. ReadBefore(r, 0) = {}
    <3>1. \A p \in Own(r) : p \in 1..MaxPosition
      BY DEF Own
    <3> QED BY <3>1 DEF ReadBefore
  <2>4. Area(<<>>) < MaxArea
    <3>1. [i \in 1..Len(<<>>) |-> length[<<>>[i]]] = <<>>
      OBVIOUS
    <3>2. MaxArea \in Nat \ {0}
      BY SizesGrow
    <3> QED BY <3>1, <3>2, SumSeqEmpty DEF Area
  <2>5. Suspended(r)
    BY <2>1, <2>4 DEF Suspended
  <2>6. Room(r)
    BY <1>1, <2>1, SizesGrow DEF Room
  <2>7. Conserved(r)
    BY <2>1, <2>2, <2>3 DEF Conserved
  <2>8. OnceEach(r)
    BY <2>1, <2>2 DEF OnceEach, Apart
  <2> QED BY <2>5, <2>6, <2>7, <2>8 DEF WellAt
<1> QED BY <1>3, <1>4, <1>5 DEF SftInv

\* Reading keeps the invariant: the other ranks are not affected.
LEMMA ReadInv ==
    ASSUME SftInv, NEW r \in Ranks, Read(r)
    PROVE  SftInv'
<1> DEFINE p == Min(Unread(r))
<1>1. /\ batch[r] = <<>> /\ Unread(r) # {} /\ UNCHANGED <<packing, length, saved, trained, restarts>>
      /\ IF packing = "cat" THEN ReadCat(r, p) ELSE ReadStack(r, p)
  BY DEF Read
<1>2. SftTypes /\ SavedWhole /\ \A q \in Ranks : WellAt(q)
  BY DEF SftInv
<1> HIDE DEF p
<1>3. /\ WellAt(r)' /\ loader' \in [Ranks -> Loaders]
      /\ packed' \in [Ranks -> Seq(Samples)] /\ batch' \in [Ranks -> Seq(Samples)]
      /\ yielded' \in [Ranks -> 0..Len(Sizes)]
      /\ \A q \in Ranks \ {r} : /\ loader'[q] = loader[q] /\ packed'[q] = packed[q]
                               /\ batch'[q] = batch[q] /\ yielded'[q] = yielded[q]
  <2>1. CASE packing = "cat"
    BY <1>1, <1>2, <2>1, CatStep DEF SftTypes, p
  <2>2. CASE packing # "cat"
    BY <1>1, <1>2, <2>2, StackStep DEF SftTypes, p
  <2> QED BY <2>1, <2>2
<1>4. SftTypes'
  BY <1>1, <1>2, <1>3 DEF SftTypes, Loaders
<1>5. \A q \in Ranks : WellAt(q)'
  <2>1. ASSUME NEW q \in Ranks \ {r} PROVE WellAt(q)'
    BY <1>1, <1>2, <1>3, RankKept
  <2> QED BY <1>3, <2>1
<1>6. SavedWhole'
  BY <1>1, <1>2 DEF SavedWhole, ReadBefore, Own
<1> QED BY <1>4, <1>5, <1>6 DEF SftInv

\* A step moves every batch into the weights; a checkpoint may save that.
LEMMA TrainInv ==
    ASSUME SftInv, TrainStep
    PROVE  SftInv'
<1>1. /\ \A r \in Ranks : batch[r] # <<>>
      /\ trained' = [r \in Ranks |-> trained[r] \o batch[r]]
      /\ batch' = [r \in Ranks |-> <<>>]
      /\ saved' = saved \/ saved' = <<[loader |-> loader, trained |-> trained']>>
      /\ UNCHANGED <<packing, length, loader, packed, yielded, restarts>>
  BY DEF TrainStep
<1>2. SftTypes /\ SavedWhole /\ \A q \in Ranks : WellAt(q)
  BY DEF SftInv
<1>3. trained' \in [Ranks -> Seq(Samples)] /\ batch' \in [Ranks -> Seq(Samples)]
  <2>1. \A r \in Ranks : trained[r] \o batch[r] \in Seq(Samples)
    BY <1>2, ConcatLen DEF SftTypes
  <2>2. <<>> \in Seq(Samples)
    OBVIOUS
  <2> QED BY <1>1, <2>1, <2>2
<1>4. SftTypes'
  <2>1. CASE saved' = saved
    BY <1>1, <1>2, <1>3, <2>1 DEF SftTypes, Loaders
  <2>2. CASE saved' = <<[loader |-> loader, trained |-> trained']>>
    <3>1. saved'[1].loader = loader /\ saved'[1].trained = trained' /\ Len(saved') = 1
      BY <2>2
    <3> QED BY <1>1, <1>2, <1>3, <3>1 DEF SftTypes, Loaders
  <2> QED BY <1>1, <2>1, <2>2
<1>5. ASSUME NEW r \in Ranks
      PROVE  /\ trained'[r] = trained[r] \o batch[r] /\ batch'[r] = <<>>
             /\ Real(trained'[r]) = Real(trained[r]) \cup Real(batch[r])
             /\ LoaderExact => Distinct(trained'[r])
  <2>1. trained'[r] = trained[r] \o batch[r] /\ batch'[r] = <<>>
    BY <1>1
  <2>2. Joins(trained[r], batch[r])
    BY <1>2, JoinReal DEF SftTypes
  <2>3. Real(trained'[r]) = Real(trained[r]) \cup Real(batch[r])
    BY <2>1, <2>2, Zenon DEF Joins
  <2>4. ASSUME LoaderExact PROVE Distinct(trained'[r])
    <3>1. Distinct(trained[r]) /\ Distinct(batch[r]) /\ Real(trained[r]) \cap Real(batch[r]) = {}
      BY <1>2, <2>4 DEF WellAt, OnceEach
    <3> QED BY <2>1, <2>2, <3>1, Zenon DEF Joins
  <2> QED BY <2>1, <2>3, <2>4
<1>6. ASSUME NEW r \in Ranks PROVE WellAt(r)'
  <2>1. LoaderExact' = LoaderExact /\ Own(r)' = Own(r) /\ Waiting(r)' = Waiting(r)
        /\ Area(packed[r])' = Area(packed[r])
    BY <1>1 DEF LoaderExact, Own, Waiting, InBuckets, Area
  <2>2. Suspended(r)'
    BY <1>1, <1>2, <1>5, <2>1 DEF WellAt, Suspended
  <2>3. Room(r)'
    BY <1>1, <1>2, <2>1 DEF WellAt, Room
  <2>4. Conserved(r)'
    <3>1. Real(trained'[r]) \cup Real(batch'[r]) \cup Real(packed[r]) \cup Waiting(r)
              = ReadBefore(r, loader[r].step)
      BY <1>2, <1>5, EmptyReal DEF WellAt, Conserved
    <3> QED BY <1>1, <2>1, <3>1 DEF Conserved, ReadBefore
  <2>5. OnceEach(r)'
    <3> SUFFICES ASSUME LoaderExact PROVE OnceEach(r)'
      BY <2>1 DEF OnceEach
    <3>1. OnceEach(r) /\ Apart(loader[r].buckets, Buckets \ {yielded[r]})'
      BY <1>1, <1>2 DEF WellAt, OnceEach, Apart
    <3>2. Distinct(trained'[r]) /\ Distinct(batch'[r]) /\ Real(batch'[r]) = {}
      BY <1>5, EmptyReal
    <3>3. Distinct(packed[r])
      BY <3>1 DEF OnceEach
    <3>4. Real(trained'[r]) \cap (Real(packed[r]) \cup Waiting(r)) = {} /\ Real(packed[r]) \cap Waiting(r) = {}
      BY <1>5, <3>1 DEF OnceEach
    <3> QED BY <1>1, <2>1, <3>1, <3>2, <3>3, <3>4 DEF OnceEach
  <2> QED BY <2>2, <2>3, <2>4, <2>5 DEF WellAt
<1>7. SavedWhole'
  <2>1. CASE saved' = saved
    BY <1>1, <1>2, <2>1 DEF SavedWhole, ReadBefore, Own
  <2>2. CASE saved' = <<[loader |-> loader, trained |-> trained']>>
    <3>1. saved'[1].loader = loader /\ saved'[1].trained = trained'
      BY <2>2
    <3>2. ASSUME NEW r \in Ranks
          PROVE  /\ Real(trained'[r]) \cup InBuckets(loader[r].buckets, Buckets)
                        = ReadBefore(r, loader[r].step)'
                 /\ packing = "cat" => /\ Distinct(trained'[r])
                                       /\ \A b \in Buckets : loader[r].buckets[b] = <<>>
      <4>1. ReadBefore(r, loader[r].step)' = ReadBefore(r, loader[r].step)
        BY <1>1 DEF ReadBefore, Own
      <4>2. Real(packed[r]) = {}
        BY <1>1, <1>2, EmptyReal DEF WellAt, Suspended
      <4>3. Real(batch[r]) \cup Waiting(r) = Real(batch[r]) \cup InBuckets(loader[r].buckets, Buckets)
        <5>1. CASE packing = "cat"
          <6>1. yielded[r] = 0
            BY <1>2, <5>1 DEF WellAt, Suspended
          <6>2. Buckets \ {0} = Buckets
            BY SizesGrow
          <6> QED BY <6>1, <6>2 DEF Waiting
        <5>2. CASE packing # "cat"
          <6>1. yielded[r] # 0 /\ batch[r] = loader[r].buckets[yielded[r]]
            BY <1>1, <1>2, <5>2 DEF WellAt, Suspended
          <6>2. yielded[r] \in Buckets
            BY <1>2, <6>1, SizesGrow DEF SftTypes
          <6> QED BY <6>1, <6>2 DEF Waiting, InBuckets
        <5> QED BY <5>1, <5>2
      <4>4. Real(trained'[r]) \cup InBuckets(loader[r].buckets, Buckets) = ReadBefore(r, loader[r].step)
        BY <1>2, <1>5, <4>2, <4>3 DEF WellAt, Conserved
      <4>5. packing = "cat" => LoaderExact
        BY DEF LoaderExact
      <4>6. packing = "cat" => \A b \in Buckets : loader[r].buckets[b] = <<>>
        BY <1>2 DEF WellAt, Suspended
      <4> QED BY <1>5, <4>1, <4>4, <4>5, <4>6
    <3> QED BY <1>1, <3>1, <3>2 DEF SavedWhole, ReadBefore
  <2> QED BY <1>1, <2>1, <2>2
<1> QED BY <1>4, <1>6, <1>7 DEF SftInv

\* A restart restores what was saved: what was read since then is read again.
\* No sample is packed at a checkpoint, but the bucket whose batch was trained
\* last is still in a StackDataset's state, and is trained again.
LEMMA RestartInv ==
    ASSUME SftInv, Restart
    PROVE  SftInv'
<1>1. /\ restarts < MaxRestarts /\ restarts' = restarts + 1 /\ saved # <<>>
      /\ loader' = [r \in Ranks |-> saved[1].loader[r]]
      /\ trained' = saved[1].trained
      /\ packed' = [r \in Ranks |-> <<>>]
      /\ batch' = [r \in Ranks |-> <<>>]
      /\ yielded' = [r \in Ranks |-> 0]
      /\ UNCHANGED <<packing, length, saved>>
  BY DEF Restart, LoadedState
<1>2. SftTypes /\ SavedWhole
  BY DEF SftInv
<1>3. /\ loader' = saved[1].loader /\ loader' \in [Ranks -> Loaders] /\ trained' \in [Ranks -> Seq(Samples)]
  BY <1>1, <1>2 DEF SftTypes
<1>4. SftTypes'
  <2>1. <<>> \in Seq(Samples) /\ 0 \in 0..Len(Sizes)
    BY SizesGrow
  <2>2. restarts' \in 0..MaxRestarts
    BY <1>1, <1>2, SftAssumption DEF SftTypes
  <2>3. packed' \in [Ranks -> Seq(Samples)] /\ batch' \in [Ranks -> Seq(Samples)]
        /\ yielded' \in [Ranks -> 0..Len(Sizes)]
    BY <1>1, <2>1
  <2> QED BY <1>1, <1>2, <1>3, <2>2, <2>3 DEF SftTypes, Loaders
<1>5. ASSUME NEW r \in Ranks PROVE WellAt(r)'
  <2>1. /\ packed'[r] = <<>> /\ batch'[r] = <<>> /\ yielded'[r] = 0 /\ Own(r)' = Own(r)
        /\ Real(<<>>) = {} /\ Distinct(<<>>)
    BY <1>1, EmptyReal DEF Own
  <2>2. /\ Real(trained'[r]) \cup InBuckets(loader'[r].buckets, Buckets) = ReadBefore(r, loader'[r].step)
        /\ packing = "cat" => Distinct(trained'[r]) /\ \A b \in Buckets : loader'[r].buckets[b] = <<>>
    BY <1>1, <1>2, <1>3 DEF SavedWhole
  <2>3. Buckets \ {0} = Buckets
    BY SizesGrow
  <2>4. Waiting(r)' = InBuckets(loader'[r].buckets, Buckets)
    BY <2>1, <2>3 DEF Waiting, InBuckets
  <2>5. LoaderExact' => packing = "cat"
    BY <1>1, <1>2, SftAssumption DEF LoaderExact, SftTypes
  <2>6. packing = "cat" => InBuckets(loader'[r].buckets, Buckets) = {}
    BY <2>1, <2>2 DEF InBuckets
  <2>7. Suspended(r)'
    <3>1. Area(<<>>)' = 0 /\ MaxArea > 0
      <4>1. [i \in 1..Len(<<>>) |-> length'[<<>>[i]]] = <<>>
        OBVIOUS
      <4>2. MaxArea \in Nat \ {0}
        BY SizesGrow
      <4> QED BY <4>1, <4>2, SumSeqEmpty DEF Area
    <3>2. Area(packed[r])' = Area(<<>>)'
      BY <2>1 DEF Area
    <3>3. <<>> \in Seq(1..MaxPosition)
      OBVIOUS
    <3> QED BY <1>1, <2>1, <2>2, <3>1, <3>2, <3>3 DEF Suspended
  <2>8. Room(r)'
    <3>1. Len(<<>>) = 0 /\ \A b \in Buckets : Capacity(b) \in Nat \ {0}
      BY SizesGrow
    <3>2. packing = "cat" => \A b \in Buckets : Len(loader'[r].buckets[b]) < Capacity(b)
      BY <2>2, <3>1
    <3> QED BY <2>1, <2>5, <3>2 DEF Room
  <2>9. Conserved(r)'
    <3>1. Real(trained'[r]) \cup Real(batch'[r]) \cup Real(packed'[r]) \cup Waiting(r)'
              = ReadBefore(r, loader'[r].step)
      BY <2>1, <2>2, <2>4
    <3> QED BY <2>1, <3>1 DEF Conserved, ReadBefore
  <2>10. OnceEach(r)'
    <3> SUFFICES ASSUME packing = "cat" PROVE OnceEach(r)'
      BY <2>5 DEF OnceEach
    <3>1. Waiting(r)' = {} /\ Distinct(trained'[r])
      BY <2>2, <2>4, <2>6
    <3>2. Apart(loader[r].buckets, Buckets \ {yielded[r]})'
      BY <2>1, <2>2 DEF Apart
    <3> QED BY <2>1, <3>1, <3>2 DEF OnceEach
  <2> QED BY <2>7, <2>8, <2>9, <2>10 DEF WellAt
<1>6. SavedWhole'
  BY <1>1, <1>2 DEF SavedWhole, ReadBefore, Own
<1> QED BY <1>4, <1>5, <1>6 DEF SftInv

\* Every step keeps the invariant.
LEMMA SftNextInv ==
    ASSUME SftInv, [SftNext]_sftVars
    PROVE  SftInv'
<1>1. CASE TrainStep
  BY <1>1, TrainInv
<1>2. CASE Restart
  BY <1>2, RestartInv
<1>3. ASSUME NEW r \in Ranks, Read(r) PROVE SftInv'
  BY <1>3, ReadInv
<1>4. CASE UNCHANGED sftVars
  <2>1. SftTypes' /\ SavedWhole'
    BY <1>4 DEF sftVars, SftInv, SftTypes, Loaders, SavedWhole, ReadBefore, Own
  <2>2. \A r \in Ranks : WellAt(r)'
    BY <1>4, RankKept DEF sftVars, SftInv
  <2> QED BY <2>1, <2>2 DEF SftInv
<1> QED BY <1>1, <1>2, <1>3, <1>4 DEF SftNext

\* Pairs of one value with the elements of a non-empty set.
LEMMA PairedNonEmpty == ASSUME NEW x, NEW S, S # {} PROVE {x} \X S # {}
<1>1. PICK e \in S : TRUE
  OBVIOUS
<1>2. <<x, e>> \in {x} \X S
  BY <1>1
<1> QED BY <1>2

\* The invariant implies the properties that are checked.
LEMMA SftInvImplies == SftInv => SftTypeOK /\ SamplesOnce
<1> SUFFICES ASSUME SftInv PROVE SftTypeOK /\ SamplesOnce
  OBVIOUS
<1>1. SftTypes /\ \A r \in Ranks : WellAt(r)
  BY DEF SftInv
<1>2. SftTypeOK
  <2>1. ASSUME LoaderExact, NEW r \in Ranks
        PROVE  /\ \A b \in Buckets : Len(loader[r].buckets[b]) <= Capacity(b)
               /\ packing = "stack" /\ batch[r] # <<>> => Len(batch[r]) = Capacity(yielded[r])
               /\ Area(packed[r]) < MaxArea
    <3>1. Suspended(r) /\ Room(r)
      BY <1>1 DEF WellAt
    <3>2. \A b \in Buckets : Len(loader[r].buckets[b]) \in Nat /\ Capacity(b) \in Nat
      BY <1>1, SizesGrow DEF SftTypes, Loaders
    <3>3. \A b \in Buckets : Len(loader[r].buckets[b]) <= Capacity(b)
      <4>1. \A b \in Buckets \ {yielded[r]} : Len(loader[r].buckets[b]) < Capacity(b)
        BY <2>1, <3>1 DEF Room
      <4>2. yielded[r] # 0 => Len(loader[r].buckets[yielded[r]]) = Capacity(yielded[r])
        BY <2>1, <3>1 DEF Room
      <4>3. 0 \notin Buckets
        BY SizesGrow
      <4> QED BY <3>2, <4>1, <4>2, <4>3
    <3>4. packing = "stack" /\ batch[r] # <<>> => Len(batch[r]) = Capacity(yielded[r])
      BY <2>1, <3>1 DEF Room, Suspended
    <3>5. Area(packed[r]) < MaxArea
      <4>1. CASE packing = "cat"
        BY <3>1, <4>1 DEF Suspended
      <4>2. CASE packing # "cat"
        <5>1. packed[r] = <<>>
          BY <3>1, <4>2 DEF Suspended
        <5>2. [i \in 1..Len(<<>>) |-> length[<<>>[i]]] = <<>>
          OBVIOUS
        <5>3. MaxArea \in Nat \ {0}
          BY SizesGrow
        <5> QED BY <5>1, <5>2, <5>3, SumSeqEmpty DEF Area
      <4> QED BY <4>1, <4>2
    <3> QED BY <3>3, <3>4, <3>5
  <2> QED BY <1>1, <2>1 DEF SftTypeOK, SftTypes, Loaders
<1>3. ASSUME NEW r \in Ranks, NEW p \in Own(r), p <= loader[r].step
      PROVE  IF LoaderExact THEN Cardinality(Places(r, p)) = 1 ELSE Places(r, p) # {}
  <2>1. p # 0 /\ p \in ReadBefore(r, loader[r].step)
    BY <1>3 DEF Own, ReadBefore
  <2>2. \A s : p \in Real(s) <=> Positions(p, s) # {}
    BY <2>1 DEF Real, Positions, ToSet
  <2>3. \A s : Distinct(s) => \A i, j \in Positions(p, s) : i = j
    BY <2>1 DEF Distinct, Positions
  <2> DEFINE T == {<<"trained", 0>>} \X Positions(p, trained[r])
             B == {<<"batch", 0>>} \X Positions(p, batch[r])
             P == {<<"packed", 0>>} \X Positions(p, packed[r])
             W(b) == {<<"bucket", b>>} \X Positions(p, loader[r].buckets[b])
             bs == Buckets \ {yielded[r]}
  <2>4. Places(r, p) = T \cup B \cup P \cup UNION {W(b) : b \in bs}
    BY DEF Places
  <2>5. p \in Real(trained[r]) \cup Real(batch[r]) \cup Real(packed[r]) \cup Waiting(r)
    BY <1>1, <2>1 DEF WellAt, Conserved
  <2>6. Places(r, p) # {}
    <3>0. \A x, S : S # {} => {x} \X S # {}
      BY PairedNonEmpty
    <3>1. p \in Real(trained[r]) => T # {}
      BY <2>2, <3>0
    <3>2. p \in Real(batch[r]) => B # {}
      BY <2>2, <3>0
    <3>3. p \in Real(packed[r]) => P # {}
      BY <2>2, <3>0
    <3>4. p \in Waiting(r) => UNION {W(b) : b \in bs} # {}
      <4>1. ASSUME p \in Waiting(r) PROVE \E b \in bs : W(b) # {}
        <5>1. PICK b \in bs : p \in Real(loader[r].buckets[b])
          BY <4>1 DEF Waiting, InBuckets
        <5>2. Positions(p, loader[r].buckets[b]) # {}
          BY <2>2, <5>1
        <5>3. W(b) # {}
          BY <3>0, <5>2
        <5> HIDE DEF W, bs
        <5> QED BY <5>3
      <4> HIDE DEF W
      <4> QED BY <4>1
    <3> HIDE DEF T, B, P, W
    <3> QED BY <2>4, <2>5, <3>1, <3>2, <3>3, <3>4
  <2>7. ASSUME LoaderExact, NEW x \in Places(r, p), NEW z \in Places(r, p) PROVE x = z
    <3>1. OnceEach(r) /\ p # 0
      BY <1>1, <2>1 DEF WellAt
    <3>2. /\ \A s \in {trained[r], batch[r], packed[r]} : Distinct(s)
          /\ \A b \in bs : Distinct(loader[r].buckets[b])
      BY <2>7, <3>1 DEF OnceEach, Apart
    <3>3. /\ T # {} => p \in Real(trained[r])
          /\ B # {} => p \in Real(batch[r])
          /\ P # {} => p \in Real(packed[r])
          /\ \A b \in bs : W(b) # {} => p \in Real(loader[r].buckets[b])
      BY <2>2
    <3>4. \A b \in bs : W(b) # {} => p \in Waiting(r)
      BY <3>3 DEF Waiting, InBuckets
    <3>5. /\ \A u, v \in T : u = v
          /\ \A u, v \in B : u = v
          /\ \A u, v \in P : u = v
          /\ \A b \in bs : \A u, v \in W(b) : u = v
      BY <2>3, <3>2
    <3>6. \A b, c \in bs : W(b) # {} /\ W(c) # {} => b = c
      <4>1. \A b, c \in bs : b # c => Real(loader[r].buckets[b]) \cap Real(loader[r].buckets[c]) = {}
        BY <2>7, <3>1 DEF OnceEach, Apart
      <4> HIDE DEF W
      <4> QED BY <3>3, <4>1
    <3>7. /\ Real(trained[r]) \cap (Real(batch[r]) \cup Real(packed[r]) \cup Waiting(r)) = {}
          /\ Real(batch[r]) \cap (Real(packed[r]) \cup Waiting(r)) = {}
          /\ Real(packed[r]) \cap Waiting(r) = {}
      BY <2>7, <3>1 DEF OnceEach
    <3> HIDE DEF T, B, P, W
    <3>8. \A u \in UNION {W(b) : b \in bs}, v \in UNION {W(b) : b \in bs} : u = v
      BY <3>5, <3>6
    <3>9. UNION {W(b) : b \in bs} # {} => p \in Waiting(r)
      BY <3>4
    <3> HIDE DEF bs
    <3> QED BY <2>4, <3>3, <3>5, <3>7, <3>8, <3>9
  <2>8. LoaderExact => Cardinality(Places(r, p)) = 1
    <3>1. PICK x : x \in Places(r, p)
      BY <2>6
    <3>2. LoaderExact => Places(r, p) = {x}
      BY <2>7, <3>1
    <3> QED BY <3>2, FS_Singleton
  <2> QED BY <2>6, <2>8
<1>4. SamplesOnce
  BY <1>3 DEF SamplesOnce
<1> QED BY <1>2, <1>4

\* SftData is typed, no bucket of a loader outgrows its area before a restart,
\* and every batch that is yielded fills it (StackDataset.__iter__, CatDataset).
THEOREM SftTypesCorrect == SftSpec => []SftTypeOK
BY SftInitInv, SftNextInv, SftInvImplies, PTL DEF SftSpec

\* Through restarts of the SFT trainer from its last checkpoint, every sample a
\* rank has read is trained exactly once or waits to be, whatever the lengths,
\* bucket sizes, timeouts and data ranks; after a restart of a StackDataset, at
\* least once (SFTDataset.__iter__, state_dict, load_state_dict).
THEOREM SamplesTrainedOnce == SftSpec => []SamplesOnce
BY SftInitInv, SftNextInv, SftInvImplies, PTL DEF SftSpec
=================================================================================
