---------------------------- MODULE PipelineProofs ----------------------------
(***************************************************************************)
(* Proofs about Pipeline, for every value of its constants.  The inductive *)
(* invariant is built from named parts: what the program counters imply    *)
(* (Control), the order of batches, steps and versions (Order), and what   *)
(* the gate has let through (WorkBound).                                   *)
(*                                                                         *)
(* The last part is about ElasticPool, the servers the watcher's updates   *)
(* reach: for any number of servers, updates and events.  The two          *)
(* specifications share no variable.                                       *)
(***************************************************************************)
EXTENDS Pipeline, ElasticPool, TLAPS

\* What a program counter implies about the data beside it.
Control ==
    /\ opc \in {"ship", "sent"} => step <= MaxSteps
    /\ opc \notin {"failing", "failed"} => empties < MaxEmpty
    /\ tpc \in {"broadcast", "transfer", "clean"} => trained >= 1
    /\ wpc \in {"check", "pending", "load"} => target > version
    /\ tpc = "wait" => trained < MaxSteps

LEMMA InitTypes == Init => TypeOK /\ Control
BY SizeAssumption, ConfigAssumption DEF Init, TypeOK, Control

\* The type invariant is inductive together with Control.
LEMMA NextTypes ==
    ASSUME TypeOK, Control, [Next]_vars
    PROVE  TypeOK' /\ Control'
<1> USE SizeAssumption, ConfigAssumption
        DEF TypeOK, Control, config, orchVars, watchVars, trainVars, dirVars
<1>1. CASE Dispatch
  BY <1>1 DEF Dispatch, Collecting
<1>2. CASE TakeBatch
  BY <1>2 DEF TakeBatch
<1>3. CASE TakeEmptyBatch
  BY <1>3 DEF TakeEmptyBatch
<1>4. CASE Send
  BY <1>4 DEF Send
<1>5. CASE Advance
  BY <1>5 DEF Advance, GateFor
<1>6. CASE Drain
  BY <1>6 DEF Drain
<1>7. CASE Exit
  BY <1>7 DEF Exit
<1>8. CASE Stop
  BY <1>8 DEF Stop
<1>9. ASSUME NEW v \in 1..MaxSteps, Poll(v) PROVE TypeOK' /\ Control'
  BY <1>9 DEF Poll
<1>10. CASE AnnounceVersion
  BY <1>10 DEF AnnounceVersion
<1>11. CASE StartUpdate
  BY <1>11 DEF StartUpdate
<1>12. CASE FinishUpdate
  BY <1>12 DEF FinishUpdate
<1>13. CASE UpdateFails
  BY <1>13 DEF UpdateFails
<1>14. CASE NewVersion
  BY <1>14 DEF NewVersion, GateFor
<1>15. CASE TrainStep
  BY <1>15 DEF TrainStep, Continue
<1>16. CASE Publish
  BY <1>16 DEF Publish
<1>17. CASE PublishFails
  BY <1>17 DEF PublishFails
<1>18. CASE Transfer
  BY <1>18 DEF Transfer, Continue
<1>19. CASE Clean
  <2>1. stable' \subseteq stable /\ ready' \subseteq ready
    BY <1>19, Zenon DEF Clean
  <2>2. TypeOK'
    BY <1>19, <2>1 DEF Clean, Continue
  <2>3. Control'
    BY <1>19 DEF Clean, Continue
  <2> QED
    BY <2>2, <2>3
<1>20. CASE Terminate
  BY <1>20 DEF Terminate
<1>21. CASE UNCHANGED vars
  BY <1>21 DEF vars
<1> QED
  BY <1>1, <1>2, <1>3, <1>4, <1>5, <1>6, <1>7, <1>8, <1>9, <1>10, <1>11,
     <1>12, <1>13, <1>14, <1>15, <1>16, <1>17, <1>18, <1>19, <1>20, <1>21
     DEF Next, Orchestrator, Watcher, Trainer

\* Every state of Pipeline is well typed (TypeOK).
THEOREM TypeCorrect == Spec => []TypeOK
<1>1. TypeOK /\ Control /\ [Next]_vars => TypeOK' /\ Control'
  BY NextTypes
<1> QED
  BY InitTypes, <1>1, PTL DEF Spec

-----------------------------------------------------------------------------
(* The order of batches, training steps and policy versions                *)

Order ==
    /\ sent = IF opc = "sent" THEN step ELSE step - 1
    /\ trained <= sent
    /\ \A v \in stable : v <= trained
    /\ target <= trained
    /\ version <= target

LEMMA InitOrder == Init => Order /\ Loop!Init
BY SizeAssumption DEF Init, Order, Loop!Init

\* Order is inductive, and a step of the pipeline is a step of PolicyLoop or
\* leaves its variables alone.
LEMMA NextOrder ==
    ASSUME TypeOK, Control, Order, [Next]_vars
    PROVE  Order' /\ [Loop!Next]_(Loop!vars)
<1> USE SizeAssumption
        DEF Order, config, orchVars, watchVars, trainVars, dirVars, Loop!vars
<1>1. CASE Dispatch
  BY <1>1 DEF Dispatch
<1>2. CASE TakeBatch
  BY <1>2 DEF TakeBatch
<1>3. CASE TakeEmptyBatch
  BY <1>3 DEF TakeEmptyBatch
<1>4. CASE Send
  <2>1. sent = step - 1 /\ sent' = step /\ step <= MaxSteps
    BY <1>4 DEF Send, Control
  <2>2. Loop!Send
    BY <1>4, <2>1 DEF Send, TypeOK, Loop!Send
  <2>3. Order'
    BY <1>4, <2>1 DEF Send, TypeOK
  <2> QED
    BY <2>2, <2>3 DEF Loop!Next
<1>5. CASE Advance
  BY <1>5 DEF Advance, TypeOK
<1>6. CASE Drain
  BY <1>6 DEF Drain
<1>7. CASE Exit
  BY <1>7 DEF Exit
<1>8. CASE Stop
  BY <1>8 DEF Stop
<1>9. ASSUME NEW v \in 1..MaxSteps, Poll(v)
      PROVE  Order' /\ [Loop!Next]_(Loop!vars)
  BY <1>9 DEF Poll, TypeOK
<1>10. CASE AnnounceVersion
  BY <1>10 DEF AnnounceVersion
<1>11. CASE StartUpdate
  BY <1>11 DEF StartUpdate
<1>12. CASE FinishUpdate
  <2>1. Loop!Adopt(target) /\ target \in 1..MaxSteps
    BY <1>12 DEF FinishUpdate, TypeOK, Control, Loop!Adopt
  <2>2. Order'
    BY <1>12 DEF FinishUpdate, TypeOK
  <2> QED
    BY <2>1, <2>2 DEF Loop!Next
<1>13. CASE UpdateFails
  BY <1>13 DEF UpdateFails
<1>14. CASE NewVersion
  BY <1>14 DEF NewVersion
<1>15. CASE TrainStep
  <2>1. Loop!Train
    BY <1>15 DEF TrainStep, Loop!Train
  <2>2. Order'
    BY <1>15 DEF TrainStep, TypeOK
  <2> QED
    BY <2>1, <2>2 DEF Loop!Next
<1>16. CASE Publish
  BY <1>16 DEF Publish, TypeOK
<1>17. CASE PublishFails
  BY <1>17 DEF PublishFails
<1>18. CASE Transfer
  BY <1>18 DEF Transfer
<1>19. CASE Clean
  <2>1. stable' \subseteq stable
    BY <1>19, Zenon DEF Clean
  <2> QED
    BY <1>19, <2>1 DEF Clean
<1>20. CASE Terminate
  BY <1>20 DEF Terminate
<1>21. CASE UNCHANGED vars
  BY <1>21 DEF vars
<1> QED
  BY <1>1, <1>2, <1>3, <1>4, <1>5, <1>6, <1>7, <1>8, <1>9, <1>10, <1>11,
     <1>12, <1>13, <1>14, <1>15, <1>16, <1>17, <1>18, <1>19, <1>20, <1>21
     DEF Next, Orchestrator, Watcher, Trainer

\* Pipeline implements PolicyLoop (LoopSpec): batches are sent in order and
\* one at a time, nothing is trained before it is sent, and inference moves
\* forward only, to versions that have been trained.
THEOREM ImplementsLoop == Spec => LoopSpec
<1>1. Init => TypeOK /\ Control /\ Order /\ Loop!Init
  BY InitTypes, InitOrder
<1>2. TypeOK /\ Control /\ Order /\ [Next]_vars
          => TypeOK' /\ Control' /\ Order' /\ [Loop!Next]_(Loop!vars)
  BY NextTypes, NextOrder
<1> QED
  BY <1>1, <1>2, PTL DEF Spec, LoopSpec, Loop!Spec

-----------------------------------------------------------------------------
(* The gate, and the lead it allows                                        *)

\* GateTracksLead is inductive as it stands: every action that moves the
\* step or the version recomputes the gate, or leaves it to NewVersion.
LEMMA NextGate ==
    ASSUME TypeOK, GateTracksLead, [Next]_vars
    PROVE  GateTracksLead'
<1> USE DEF GateTracksLead, Collecting, GateFor, Lead, TypeOK, config,
            orchVars, watchVars, trainVars, dirVars
<1>1. CASE Dispatch
  BY <1>1 DEF Dispatch
<1>2. CASE Orchestrator
  BY <1>2 DEF Orchestrator, TakeBatch, TakeEmptyBatch, Send, Advance, Drain,
              Exit, Stop
<1>3. CASE Watcher
  BY <1>3 DEF Watcher, Poll, AnnounceVersion, StartUpdate, FinishUpdate,
              UpdateFails, NewVersion
<1>4. CASE Trainer \/ Terminate
  BY <1>4 DEF Trainer, TrainStep, Publish, PublishFails, Transfer, Clean,
              Terminate
<1>5. CASE UNCHANGED vars
  BY <1>5 DEF vars
<1> QED
  BY <1>1, <1>2, <1>3, <1>4, <1>5 DEF Next

\* Whatever the interleaving of shipping and adopting, the gate says what the
\* current lead says whenever no adoption is half done (GateTracksLead).
THEOREM GateCorrect == Spec => []GateTracksLead
<1>1. Init => GateTracksLead
  BY SizeAssumption DEF Init, GateTracksLead, GateFor, Lead, MaxLead
<1>2. TypeOK /\ GateTracksLead /\ [Next]_vars => GateTracksLead'
  BY NextGate
<1> QED
  BY <1>1, <1>2, TypeCorrect, PTL DEF Spec

\* What LeadBound needs to be inductive: an open gate means a small lead, so
\* work is only added below the bound; and every batch shipped beyond it, the
\* one being shipped included, was filled from work already past the gate.
InHand(c) == IF c \in {"ship", "sent"} THEN BatchSize ELSE 0
Excess(s, v) == Lead(s, v) - (MaxLead + 1)

WorkBound ==
    /\ gate => Excess(step, version) < 0
    /\ Excess(step, version) >= 0 =>
         work + InHand(opc) + BatchSize * Excess(step, version) <= MaxWork

LEMMA Monotone ==
    ASSUME NEW n \in Nat, NEW x \in Int, NEW y \in Int, x <= y
    PROVE  n * x <= n * y
OBVIOUS

LEMMA OneMore ==
    ASSUME NEW n \in Nat, NEW x \in Int
    PROVE  n * (x + 1) = n * x + n
OBVIOUS

LEMMA MaxLeadType == MaxLead \in Nat
BY SizeAssumption DEF MaxLead

\* Only Advance raises the lead, by the batch that was in hand; a new version
\* lowers it; the work past the gate grows only while the gate is open.
LEMMA NextWork ==
    ASSUME TypeOK, Control, WorkBound, [Next]_vars
    PROVE  WorkBound'
<1> USE SizeAssumption, MaxLeadType
        DEF config, orchVars, watchVars, trainVars, dirVars
<1>1. Excess(step, version) \in Int
  BY DEF Excess, Lead, TypeOK
<1>2. ASSUME step' = step, version' = version, work' + InHand(opc') <= work + InHand(opc),
             gate' => gate \/ GateFor(step, version)
      PROVE  WorkBound'
  <2>1. Excess(step', version') = Excess(step, version)
    BY <1>2 DEF Excess, Lead
  <2>2. InHand(opc) \in Nat /\ InHand(opc') \in Nat /\ work \in Nat /\ work' \in Nat
    BY NextTypes DEF InHand, TypeOK
  <2>3. gate' => Excess(step, version) < 0
    BY <1>2 DEF WorkBound, GateFor, Excess, Lead, TypeOK
  <2>4. Excess(step', version') >= 0 => work' + InHand(opc') + BatchSize * Excess(step', version') <= MaxWork
    <3> DEFINE owed == BatchSize * Excess(step, version)
    <3>1. owed \in Int /\ (Excess(step, version) >= 0 => work + InHand(opc) + owed <= MaxWork)
      BY <1>1 DEF WorkBound
    <3> SUFFICES Excess(step, version) >= 0 => work' + InHand(opc') + owed <= MaxWork
      BY <2>1
    <3>2. work' + InHand(opc') <= work + InHand(opc)
      BY <1>2
    <3> HIDE DEF owed
    <3> QED
      BY <2>2, <3>1, <3>2
  <2> QED
    BY <2>1, <2>3, <2>4 DEF WorkBound
<1>3. CASE Dispatch
  <2>1. Excess(step', version') = Excess(step, version) /\ Excess(step, version) < 0 /\ gate' = gate
    BY <1>3 DEF Dispatch, Excess, Lead, WorkBound
  <2> QED
    BY <2>1, <1>1 DEF WorkBound
<1>4. CASE Advance
  <2>1. Excess(step', version') = Excess(step, version) + 1
    BY <1>4 DEF Advance, Excess, Lead, TypeOK
  <2>2. gate' => Excess(step', version') < 0
    <3>1. gate' <=> GateFor(step + 1, version)
      BY <1>4, Zenon DEF Advance
    <3> QED
      BY <1>4, <3>1 DEF Advance, GateFor, Excess, Lead, TypeOK
  <2>3. InHand(opc) = BatchSize /\ InHand(opc') = 0 /\ work' = work
    BY <1>4 DEF Advance, InHand
  <2>4. BatchSize * Excess(step', version') = BatchSize * Excess(step, version) + BatchSize
    BY <1>1, <2>1, OneMore
  <2>5. CASE Excess(step, version) >= 0
    <3>1. BatchSize * Excess(step, version) \in Int
      BY <1>1
    <3> QED
      BY <1>1, <2>1, <2>2, <2>3, <2>4, <2>5, <3>1 DEF WorkBound, TypeOK
  <2>6. CASE Excess(step, version) = -1
    <3>1. BatchSize * Excess(step', version') = 0
      BY <2>1, <2>6
    <3> QED
      BY <2>1, <2>2, <2>3, <2>6, <3>1 DEF WorkBound, TypeOK
  <2>7. CASE Excess(step, version) < -1
    BY <1>1, <2>1, <2>7, <2>2 DEF WorkBound
  <2> QED
    BY <1>1, <2>5, <2>6, <2>7
<1>5. CASE FinishUpdate
  <2>1. Excess(step', version') \in Int /\ Excess(step', version') <= Excess(step, version)
    BY <1>5 DEF FinishUpdate, Control, Excess, Lead, TypeOK
  <2>2. gate' = gate /\ work' = work /\ InHand(opc') = InHand(opc)
    BY <1>5 DEF FinishUpdate, InHand
  <2>3. gate' => Excess(step', version') < 0
    BY <1>1, <2>1, <2>2 DEF WorkBound
  <2>4. Excess(step', version') >= 0 => work' + InHand(opc') + BatchSize * Excess(step', version') <= MaxWork
    <3> DEFINE owed == BatchSize * Excess(step, version)
               owedNext == BatchSize * Excess(step', version')
    <3>1. owed \in Int /\ (Excess(step, version) >= 0 => work + InHand(opc) + owed <= MaxWork)
      BY <1>1 DEF WorkBound
    <3>2. owedNext \in Int /\ owedNext <= owed
      <4>1. BatchSize \in Nat
        OBVIOUS
      <4>2. owedNext <= owed
        BY <1>1, <2>1, <4>1, Monotone
      <4> QED
        BY <2>1, <4>1, <4>2
    <3>3. work \in Nat /\ InHand(opc) \in Nat
      BY DEF TypeOK, InHand
    <3> HIDE DEF owed
    <3> SUFFICES Excess(step', version') >= 0 => work + InHand(opc) + owedNext <= MaxWork
      BY <2>2
    <3> HIDE DEF owedNext
    <3> QED
      BY <1>1, <2>1, <3>1, <3>2, <3>3
  <2> QED
    BY <2>3, <2>4 DEF WorkBound
<1>6. CASE TakeBatch
  BY <1>6, <1>2 DEF TakeBatch, InHand, TypeOK
<1>7. CASE TakeEmptyBatch
  BY <1>7, <1>2 DEF TakeEmptyBatch, InHand, TypeOK
<1>8. CASE Send
  BY <1>8, <1>2 DEF Send, InHand, TypeOK
<1>9. CASE Drain \/ Exit \/ Stop
  BY <1>9, <1>2 DEF Drain, Exit, Stop, InHand, TypeOK
<1>10. ASSUME NEW v \in 1..MaxSteps, Poll(v) PROVE WorkBound'
  BY <1>10, <1>2 DEF Poll, InHand, TypeOK
<1>11. CASE AnnounceVersion
  BY <1>11, <1>2 DEF AnnounceVersion, InHand, TypeOK
<1>12. CASE StartUpdate \/ UpdateFails \/ NewVersion
  BY <1>12, <1>2 DEF StartUpdate, UpdateFails, NewVersion, InHand, TypeOK
<1>13. CASE Trainer \/ Terminate
  <2>1. UNCHANGED <<orchVars, watchVars>>
    BY <1>13 DEF Trainer, TrainStep, Publish, PublishFails, Transfer, Clean,
                 Terminate
  <2> QED
    BY <2>1, <1>2 DEF InHand, TypeOK
<1>14. CASE UNCHANGED vars
  BY <1>14, <1>2 DEF vars, InHand, TypeOK
<1> QED
  BY <1>3, <1>4, <1>5, <1>6, <1>7, <1>8, <1>9, <1>10, <1>11, <1>12, <1>13,
     <1>14 DEF Next, Orchestrator, Watcher

\* The trainer is never further ahead of the policy than the gate, and the
\* batches that work already past it can fill, allow (LeadBound).
THEOREM LeadBounded == Spec => []LeadBound
<1>1. Init => WorkBound
  BY SizeAssumption, MaxLeadType
     DEF Init, WorkBound, InHand, Excess, Lead
<1>2. TypeOK /\ Control /\ WorkBound /\ [Next]_vars => WorkBound'
  BY NextWork
<1>3. TypeOK /\ Order /\ WorkBound => LeadBound
  <2> SUFFICES ASSUME TypeOK, Order, WorkBound
               PROVE  BatchSize * ((sent - version) - (MaxLead + 1)) <= MaxWork
    BY DEF LeadBound
  <2> USE SizeAssumption, MaxLeadType
  <2>1. Excess(step, version) \in Int /\ work \in Nat
    BY DEF Excess, Lead, TypeOK
  <2>2. CASE opc = "sent"
    <3>1. (sent - version) - (MaxLead + 1) = Excess(step, version) + 1
      BY <2>2 DEF Order, Excess, Lead, TypeOK
    <3>2. BatchSize * (Excess(step, version) + 1) = BatchSize * Excess(step, version) + BatchSize
      BY <2>1, OneMore
    <3>3. CASE Excess(step, version) >= 0
      BY <2>1, <2>2, <3>1, <3>2, <3>3 DEF WorkBound, InHand
    <3>4. CASE Excess(step, version) < 0
      <4>1. BatchSize * (Excess(step, version) + 1) <= BatchSize * 0 /\ BatchSize * 0 = 0
        BY <2>1, <3>4, Monotone
      <4>2. BatchSize * (Excess(step, version) + 1) \in Int
        BY <2>1
      <4> QED
        BY <3>1, <4>1, <4>2
    <3> QED
      BY <2>1, <3>3, <3>4
  <2>3. CASE opc # "sent"
    <3>1. (sent - version) - (MaxLead + 1) = Excess(step, version)
      BY <2>3 DEF Order, Excess, Lead, TypeOK
    <3>2. BatchSize * Excess(step, version) \in Int /\ InHand(opc) \in Nat
      BY <2>1 DEF InHand
    <3>3. CASE Excess(step, version) >= 0
      BY <2>1, <3>1, <3>2, <3>3 DEF WorkBound
    <3>4. CASE Excess(step, version) < 0
      <4>1. BatchSize * Excess(step, version) <= BatchSize * 0 /\ BatchSize * 0 = 0
        BY <2>1, <3>4, Monotone
      <4> QED
        BY <3>1, <3>2, <4>1
    <3> QED
      BY <2>1, <3>3, <3>4
  <2> QED
    BY <2>2, <2>3
<1>4. Init => TypeOK /\ Control /\ Order
  BY InitTypes, InitOrder
<1>5. TypeOK /\ Control /\ Order /\ [Next]_vars => TypeOK' /\ Control' /\ Order'
  BY NextTypes, NextOrder
<1> QED
  BY <1>1, <1>2, <1>3, <1>4, <1>5, PTL DEF Spec

-----------------------------------------------------------------------------
(* The NCCL handshake                                                      *)

\* What NcclPairs needs to be inductive.  A marker is left only for a version
\* adopted or being loaded; a version published is marked or still being
\* sent; and the trainer goes past a version only when it is marked.
Handshake ==
    /\ tpc = "killed" => opc = "failed"
    /\ opc = "failed" => wpc = "stopped"
    /\ transport = "nccl" =>
        /\ tpc # "clean" /\ wpc # "dead"
        /\ tpc \in {"broadcast", "transfer"} =>
             trained < MaxSteps - 1 /\ (trained > 1 => trained - 1 \in ready)
        /\ tpc = "wait" /\ trained \in 1..(MaxSteps - 2) => trained \in ready
        /\ \A v \in stable :
             v \in ready \/ (v = trained /\ tpc \in {"transfer", "killed"})
        /\ wpc # "stopped" =>
             \A v \in ready : v <= version \/ (wpc = "load" /\ v = target)
        /\ wpc \in {"check", "pending", "load"} =>
             target \in stable /\ target = version + 1

LEMMA NextHandshake ==
    ASSUME TypeOK, Control, Handshake, [Next]_vars
    PROVE  Handshake'
<1> USE SizeAssumption
        DEF Handshake, TypeOK, config, orchVars, watchVars, trainVars, dirVars
<1>1. CASE Dispatch
  BY <1>1 DEF Dispatch
<1>2. CASE TakeBatch \/ TakeEmptyBatch \/ Send \/ Advance \/ Drain \/ Exit
  BY <1>2 DEF TakeBatch, TakeEmptyBatch, Send, Advance, Drain, Exit
<1>3. CASE Stop
  BY <1>3 DEF Stop
<1>4. ASSUME NEW v \in 1..MaxSteps, Poll(v) PROVE Handshake'
  <2>1. ASSUME transport = "nccl" PROVE v = version + 1
    <3>1. v = trained /\ tpc = "transfer"
      BY <1>4, <2>1 DEF Poll
    <3>2. trained > 1 => trained - 1 <= version
      BY <1>4, <2>1, <3>1 DEF Poll
    <3> QED
      BY <1>4, <3>1, <3>2 DEF Poll
  <2> QED
    BY <1>4, <2>1 DEF Poll
<1>5. CASE AnnounceVersion
  BY <1>5 DEF AnnounceVersion
<1>6. CASE StartUpdate
  BY <1>6 DEF StartUpdate
<1>7. CASE FinishUpdate
  BY <1>7 DEF FinishUpdate
<1>8. CASE UpdateFails
  BY <1>8 DEF UpdateFails
<1>9. CASE NewVersion
  BY <1>9 DEF NewVersion
<1>10. CASE TrainStep
  BY <1>10 DEF TrainStep, Skips, Continue
<1>11. CASE Publish
  BY <1>11 DEF Publish
<1>12. CASE PublishFails
  BY <1>12 DEF PublishFails
<1>13. CASE Transfer
  BY <1>13 DEF Transfer, Continue
<1>14. CASE Clean
  BY <1>14 DEF Clean, Continue
<1>15. CASE Terminate
  BY <1>15 DEF Terminate
<1>16. CASE UNCHANGED vars
  BY <1>16 DEF vars
<1> QED
  BY <1>1, <1>2, <1>3, <1>4, <1>5, <1>6, <1>7, <1>8, <1>9, <1>10, <1>11,
     <1>12, <1>13, <1>14, <1>15, <1>16 DEF Next, Orchestrator, Watcher, Trainer

\* In an NCCL run the servers and the trainer always meet at the same version
\* (NcclPairs): no version is skipped, and the servers never enter the
\* collective for a version the trainer is not sending.
THEOREM NcclPaired == Spec => []NcclPairs
<1>1. Init => TypeOK /\ Control /\ Handshake
  BY InitTypes DEF Init, Handshake
<1>2. TypeOK /\ Control /\ Handshake /\ [Next]_vars
          => TypeOK' /\ Control' /\ Handshake'
  BY NextTypes, NextHandshake
<1>3. TypeOK /\ Handshake => NcclPairs
  BY DEF TypeOK, Handshake, NcclPairs
<1> QED
  BY <1>1, <1>2, <1>3, PTL DEF Spec

-----------------------------------------------------------------------------
(* ElasticPool                                                             *)

\* What lock and phase imply; the step wanted stays within the bound.
PoolControl ==
    /\ desired <= MaxStep
    /\ asked => adopted < MaxStep
    /\ lock = "update" => asked /\ todo = {}
    /\ lock = "sync" /\ phase = "remove" => Busy = {}
    /\ lock = "sync" /\ phase = "check" => todo \subseteq Known

LEMMA PoolInitTypes == PoolInit => PoolTypeOK /\ PoolControl
<1> SUFFICES ASSUME PoolInit PROVE PoolTypeOK /\ PoolControl
  OBVIOUS
<1>1. Busy = {} /\ Known = {}
  BY DEF PoolInit, Busy, Known
<1>2. /\ server \in [IPs -> {"up", "down", "hung"}]
      /\ adapter \in [IPs -> 0..MaxStep] /\ unseen \in [IPs -> BOOLEAN]
      /\ status \in [IPs -> {"unknown", "discovering", "syncing", "ready", "unhealthy"}]
      /\ job \in [IPs -> {"none", "query", "load", "verify"}]
      /\ events \in 0..MaxEvents /\ adopted \in 0..MaxStep /\ desired = 0 /\ desired <= MaxStep
  BY PoolAssumption DEF PoolInit
<1> QED BY <1>1, <1>2 DEF PoolInit, PoolTypeOK, PoolControl

\* What a step of _sync_server_adapter does to the set of busy servers.
LEMMA MovesBusy ==
    ASSUME PoolTypeOK, NEW ip \in IPs, ip \in Busy,
           NEW s \in {"discovering", "syncing", "ready", "unhealthy"},
           NEW j \in {"none", "query", "load", "verify"},
           Moves(ip, s, j)
    PROVE  /\ status' \in [IPs -> {"unknown", "discovering", "syncing", "ready", "unhealthy"}]
           /\ job' \in [IPs -> {"none", "query", "load", "verify"}]
           /\ Busy' \subseteq Busy /\ Known' = Known
BY DEF PoolTypeOK, Moves, Busy, Known

\* The type invariant is inductive together with Control.
LEMMA PoolNextTypes ==
    ASSUME PoolTypeOK, PoolControl, [PoolNext]_poolVars
    PROVE  PoolTypeOK' /\ PoolControl'
<1> USE PoolAssumption DEF serverVars, syncVars, askVars
<1>1. ASSUME NEW ip \in IPs, JoinOrLeave(ip) \/ Fails(ip) \/ Recovers(ip)
      PROVE  PoolTypeOK' /\ PoolControl'
  <2>1. /\ dns' \subseteq IPs /\ server' \in [IPs -> {"up", "down", "hung"}]
        /\ adapter' \in [IPs -> 0..MaxStep] /\ unseen' \in [IPs -> BOOLEAN]
        /\ events' \in 0..MaxEvents
    <3>1. CASE JoinOrLeave(ip)
      BY <3>1 DEF JoinOrLeave, Event, PoolTypeOK
    <3>2. CASE Fails(ip)
      BY <3>2 DEF Fails, Event, PoolTypeOK
    <3>3. CASE Recovers(ip)
      <4>1. unseen' \in {unseen, [unseen EXCEPT ![ip] = TRUE]}
        BY <3>3 DEF Recovers
      <4>2. adapter' \in {adapter, [adapter EXCEPT ![ip] = 0]}
        BY <3>3 DEF Recovers
      <4>3. dns' = dns /\ events' = events /\ server' = [server EXCEPT ![ip] = "up"]
        BY <3>3 DEF Recovers
      <4>4. unseen' \in [IPs -> BOOLEAN]
        BY <4>1 DEF PoolTypeOK
      <4>5. adapter' \in [IPs -> 0..MaxStep]
        <5>1. 0 \in 0..MaxStep
          OBVIOUS
        <5> QED BY <4>2, <5>1 DEF PoolTypeOK
      <4>6. dns' \subseteq IPs /\ server' \in [IPs -> {"up", "down", "hung"}] /\ events' \in 0..MaxEvents
        BY <4>3 DEF PoolTypeOK
      <4> QED BY <4>4, <4>5, <4>6
    <3> QED BY <1>1, <3>1, <3>2, <3>3
  <2>2. UNCHANGED <<status, desired, lock, job, syncVars, askVars, stopped>>
    BY <1>1 DEF JoinOrLeave, Fails, Recovers
  <2>3. Busy' = Busy /\ Known' = Known
    BY <2>2 DEF Busy, Known
  <2>4. PoolTypeOK'
    BY <2>1, <2>2, <2>3 DEF PoolTypeOK
  <2>5. PoolControl'
    BY <2>2, <2>3 DEF PoolControl
  <2> QED BY <2>4, <2>5
<1>2. ASSUME NEW ip \in IPs, Sync(ip) PROVE PoolTypeOK' /\ PoolControl'
  <2>1. ip \in Busy /\ UNCHANGED <<dns, server, desired, lock, syncVars, askVars, stopped>>
    BY <1>2 DEF Sync, Query, Load, Verify, Busy
  <2>2. adapter' \in [IPs -> 0..MaxStep]
    <3>1. desired \in 0..MaxStep
      BY DEF PoolTypeOK, PoolControl
    <3> QED BY <1>2, <3>1 DEF Sync, Query, Load, Verify, PoolTypeOK
  <2>3. unseen' \in [IPs -> BOOLEAN] /\ events' \in 0..MaxEvents
    <3>1. ASSUME NEW loaded, ReadsAdapter(ip, loaded)
          PROVE  unseen' \in [IPs -> BOOLEAN] /\ events' \in 0..MaxEvents
      <4>1. unseen' \in {unseen, [unseen EXCEPT ![ip] = FALSE]}
        BY <3>1 DEF ReadsAdapter
      <4>2. UNCHANGED events \/ Event
        BY <3>1 DEF ReadsAdapter, Answers, Raises
      <4>3. unseen' \in [IPs -> BOOLEAN]
        BY <4>1 DEF PoolTypeOK
      <4> QED BY <4>2, <4>3 DEF Event, PoolTypeOK
    <3>2. CASE Load(ip)
      <4>1. unseen' = unseen
        BY <3>2 DEF Load
      <4>2. UNCHANGED events \/ Event
        BY <3>2 DEF Load, Answers, Raises
      <4> QED BY <4>1, <4>2 DEF Event, PoolTypeOK
    <3> QED BY <1>2, <3>1, <3>2 DEF Sync, Query, Verify
  <2>4. \E s \in {"discovering", "syncing", "ready", "unhealthy"} :
            \E j \in {"none", "query", "load", "verify"} : Moves(ip, s, j)
    <3>1. CASE Query(ip)
      BY <3>1 DEF Query
    <3>2. CASE Verify(ip)
      BY <3>2 DEF Verify
    <3>3. CASE Load(ip)
      <4>1. status' = [status EXCEPT ![ip] = status[ip]] \/ Moves(ip, "unhealthy", "none")
        BY <3>3 DEF Load, PoolTypeOK
      <4>2. status[ip] \in {"discovering", "syncing", "ready", "unhealthy"}
        BY <2>1 DEF PoolTypeOK, Known, Busy
      <4> QED BY <3>3, <4>1, <4>2 DEF Load, Moves
    <3> QED BY <1>2, <3>1, <3>2, <3>3 DEF Sync
  <2>5. /\ status' \in [IPs -> {"unknown", "discovering", "syncing", "ready", "unhealthy"}]
        /\ job' \in [IPs -> {"none", "query", "load", "verify"}]
        /\ Busy' \subseteq Busy /\ Known' = Known
    BY <2>1, <2>4, MovesBusy
  <2>6. PoolTypeOK'
    BY <2>1, <2>2, <2>3, <2>5 DEF PoolTypeOK
  <2> QED BY <2>1, <2>5, <2>6 DEF PoolControl
<1>3. ASSUME NEW ip \in IPs, Add(ip) PROVE PoolTypeOK' /\ PoolControl'
  <2>1. events' \in 0..MaxEvents
    BY <1>3 DEF Add, Checks, Answers, Raises, Event, PoolTypeOK
  <2>2. /\ status' \in [IPs -> {"unknown", "discovering", "syncing", "ready", "unhealthy"}]
        /\ job' \in [IPs -> {"none", "query", "load", "verify"}]
        /\ Busy' \subseteq {ip} /\ Busy' \subseteq Known'
    BY <1>3 DEF Add, Moves, PoolTypeOK, Busy, Known
  <2>3. PoolTypeOK'
    BY <1>3, <2>1, <2>2 DEF Add, PoolTypeOK
  <2> QED BY <1>3, <2>3 DEF Add, PoolControl
<1>4. ASSUME NEW ip \in IPs, Remove(ip) PROVE PoolTypeOK' /\ PoolControl'
  <2>1. Busy = {} /\ Busy' = {}
    BY <1>4 DEF Remove, PoolControl, Busy
  <2>2. PoolTypeOK'
    BY <1>4, <2>1 DEF Remove, PoolTypeOK
  <2> QED BY <1>4, <2>1, <2>2 DEF Remove, PoolControl
<1>5. ASSUME NEW ip \in IPs, Check(ip) PROVE PoolTypeOK' /\ PoolControl'
  <2>1. events' \in 0..MaxEvents
    BY <1>5 DEF Check, Checks, Answers, Raises, Event, PoolTypeOK
  <2>2. ip \in Known
    BY <1>5 DEF Check, PoolControl
  <2>3. /\ status' \in [IPs -> {"unknown", "discovering", "syncing", "ready", "unhealthy"}]
        /\ job' \in [IPs -> {"none", "query", "load", "verify"}]
        /\ Busy' \subseteq {ip} /\ Busy' \subseteq Known' /\ Known \ {ip} \subseteq Known'
    BY <1>5, <2>2 DEF Check, Moves, PoolTypeOK, Busy, Known
  <2>4. PoolTypeOK'
    BY <1>5, <2>1, <2>3 DEF Check, PoolTypeOK
  <2> QED BY <1>5, <2>3, <2>4 DEF Check, PoolControl
<1>6. CASE SyncBegin
  BY <1>6 DEF SyncBegin, Event, PoolTypeOK, PoolControl, Busy, Known
<1>7. CASE SyncNext
  <2>1. Busy' = {} /\ Busy = {} /\ Known' = Known /\ Known \subseteq IPs
    BY <1>7 DEF SyncNext, Busy, Known
  <2>2. PoolTypeOK'
    BY <1>7, <2>1 DEF SyncNext, PoolTypeOK
  <2> QED BY <1>7, <2>1, <2>2 DEF SyncNext, PoolControl
<1>8. CASE UpdateAsked
  BY <1>8 DEF UpdateAsked, PoolTypeOK, PoolControl, Busy, Known
<1>9. CASE UpdateBegin
  <2>1. Busy' \subseteq Known' /\ job' \in [IPs -> {"none", "query", "load", "verify"}]
    BY <1>9 DEF UpdateBegin, Busy, Known, PoolTypeOK
  <2>2. PoolTypeOK'
    BY <1>9, <2>1 DEF UpdateBegin, PoolTypeOK
  <2> QED BY <1>9, <2>2 DEF UpdateBegin, PoolTypeOK, PoolControl
<1>10. CASE UpdateEnd
  <2>1. Busy' = {} /\ Busy = {} /\ Known' = Known /\ todo' = todo
    BY <1>10 DEF UpdateEnd, Busy, Known
  <2>2. lock' = "free" /\ asked' = FALSE /\ adopted' = desired /\ todo' = {}
    BY <1>10, <2>1 DEF UpdateEnd, PoolControl
  <2>3. adopted' \in 0..MaxStep /\ desired' = adopted'
    BY <1>10, <2>2 DEF UpdateEnd, PoolControl, PoolTypeOK
  <2>4. PoolTypeOK'
    BY <1>10, <2>1, <2>2, <2>3 DEF UpdateEnd, PoolTypeOK
  <2>5. PoolControl'
    BY <1>10, <2>2, <2>3 DEF UpdateEnd, PoolControl
  <2> QED BY <2>4, <2>5
<1>11. CASE StopPool
  BY <1>11 DEF StopPool, PoolTypeOK, PoolControl, Busy, Known
<1>12. CASE UNCHANGED poolVars
  BY <1>12 DEF poolVars, PoolTypeOK, PoolControl, Busy, Known
<1> QED
  BY <1>1, <1>2, <1>3, <1>4, <1>5, <1>6, <1>7, <1>8, <1>9, <1>10, <1>11, <1>12 DEF PoolNext

\* Every reachable state is well typed: the lock serialises adapter work.
THEOREM PoolTypeCorrect == PoolSpec => []PoolTypeOK
<1>1. PoolSpec => [](PoolTypeOK /\ PoolControl)
  BY PoolInitTypes, PoolNextTypes, PTL DEF PoolSpec
<1> QED BY <1>1, PTL

\* The adapter of a server that is handed out, and what keeps it: only a busy
\* server is loaded, and a new version makes every known server busy.
LEMMA NextFresh ==
    ASSUME PoolTypeOK, PoolControl, AdapterFresh, [PoolNext]_poolVars
    PROVE  AdapterFresh'
<1> USE DEF serverVars, syncVars, askVars
<1> SUFFICES ASSUME NEW ip \in IPs, status'[ip] = "ready", job'[ip] = "none",
                    desired' > 0, ~ unseen'[ip]
             PROVE  adapter'[ip] = desired'
  BY DEF AdapterFresh, Ready, Busy
<1>0. status[ip] = "ready" /\ job[ip] = "none" /\ desired > 0 /\ ~ unseen[ip] => adapter[ip] = desired
  BY DEF AdapterFresh, Ready, Busy
<1>1. ASSUME NEW jp \in IPs, JoinOrLeave(jp) \/ Fails(jp) \/ Remove(jp)
      PROVE  adapter'[ip] = desired'
  BY <1>0, <1>1 DEF JoinOrLeave, Fails, Remove, PoolTypeOK
<1>2. ASSUME NEW jp \in IPs, Recovers(jp) PROVE adapter'[ip] = desired'
  BY <1>0, <1>2 DEF Recovers, PoolTypeOK
<1>3. ASSUME NEW jp \in IPs, Query(jp) \/ Verify(jp) PROVE adapter'[ip] = desired'
  <2>1. desired' = desired /\ adapter' = adapter
    BY <1>3 DEF Query, Verify
  <2>2. CASE jp # ip
    <3>1. status'[ip] = status[ip] /\ job'[ip] = job[ip]
      BY <1>3, <2>2 DEF Query, Verify, Moves, PoolTypeOK
    <3>2. unseen'[ip] = unseen[ip]
      BY <1>3, <2>2 DEF Query, Verify, ReadsAdapter, PoolTypeOK
    <3> QED BY <1>0, <2>1, <3>1, <3>2
  <2>3. CASE jp = ip
    <3>1. PICK loaded \in 0..MaxStep : ReadsAdapter(ip, loaded) /\ Matches(loaded)
      BY <1>3, <2>3 DEF Query, Verify, Moves, PoolTypeOK
    <3>2. loaded = desired
      BY <2>1, <3>1 DEF Matches
    <3>3. loaded = adapter[ip]
      BY <2>1, <3>1, <3>2 DEF ReadsAdapter
    <3> QED BY <2>1, <3>2, <3>3
  <2> QED BY <2>2, <2>3
<1>4. ASSUME NEW jp \in IPs, Load(jp) PROVE adapter'[ip] = desired'
  <2>1. jp # ip
    BY <1>4 DEF Load, Moves, PoolTypeOK
  <2>2. adapter'[ip] = adapter[ip] /\ status'[ip] = status[ip] /\ job'[ip] = job[ip]
    BY <1>4, <2>1 DEF Load, Moves, PoolTypeOK
  <2> QED BY <1>0, <1>4, <2>2 DEF Load
<1>5. ASSUME NEW jp \in IPs, Add(jp) \/ Check(jp) PROVE adapter'[ip] = desired'
  <2>1. /\ UNCHANGED <<adapter, unseen, desired>>
        /\ \/ UNCHANGED <<status, job>>
           \/ Moves(jp, "discovering", "query")
           \/ Moves(jp, "unknown", "none")
           \/ Moves(jp, status[jp], "query")
    BY <1>5 DEF Add, Check
  <2>2. status[ip] = "ready" /\ job[ip] = "none"
    BY <2>1 DEF Moves, PoolTypeOK
  <2> QED BY <1>0, <2>1, <2>2
<1>6. CASE SyncBegin \/ SyncNext \/ UpdateAsked \/ UpdateEnd
  BY <1>0, <1>6 DEF SyncBegin, SyncNext, UpdateAsked, UpdateEnd
<1>7. CASE UpdateBegin
  BY <1>7 DEF UpdateBegin, Known
<1>8. CASE StopPool
  BY <1>8 DEF StopPool
<1>9. CASE UNCHANGED poolVars
  BY <1>0, <1>9 DEF poolVars
<1> QED
  BY <1>1, <1>2, <1>3, <1>4, <1>5, <1>6, <1>7, <1>8, <1>9 DEF PoolNext, Sync

\* A server that the pool hands out has the adopted version's adapter, however
\* many servers join, crash, hang and fail to load it, unless it restarted
\* after the pool last read its adapter.
THEOREM ReadyIsFresh == PoolSpec => []AdapterFresh
<1>1. PoolInit => AdapterFresh
  BY DEF PoolInit, AdapterFresh, Ready
<1>2. PoolTypeOK /\ PoolControl /\ AdapterFresh /\ [PoolNext]_poolVars => AdapterFresh'
  BY NextFresh
<1>3. PoolInit => PoolTypeOK /\ PoolControl
  BY PoolInitTypes
<1>4. PoolTypeOK /\ PoolControl /\ [PoolNext]_poolVars => (PoolTypeOK /\ PoolControl)'
  BY PoolNextTypes
<1> QED BY <1>1, <1>2, <1>3, <1>4, PTL DEF PoolSpec
=============================================================================
