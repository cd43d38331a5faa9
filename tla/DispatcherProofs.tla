--------------------------- MODULE DispatcherProofs ---------------------------
(***************************************************************************)
(* Proofs about Dispatcher, for every value of its constants.  The         *)
(* inductive invariant is built from named parts: what the program         *)
(* counters imply (Flow), where a rollout may be (Tasks, Plan), and what   *)
(* the permits pay for (Permits).  On it rest the accounting of a group's  *)
(* rollouts, delivered and left, which always balance, and from that the   *)
(* refinement of RolloutLedger.                                            *)
(***************************************************************************)
EXTENDS Dispatcher, FiniteSetTheorems, TLAPS

-----------------------------------------------------------------------------
(* Rollouts and their tasks                                                *)

Closed(S) == \A r \in S : TaskOf(r) \subseteq S

\* A rollout belongs to its group, and its task to the same group.
LEMMA RolloutFacts ==
    ASSUME NEW r \in Rollouts
    PROVE  /\ r[1] \in Groups /\ r[2] \in 1..Size[r[1]]
           /\ r = <<r[1], r[2]>>
           /\ r \in Members(r[1]) /\ r \in TaskOf(r)
           /\ TaskOf(r) \subseteq Members(r[1])
BY DEF Rollouts, Members, TaskOf

LEMMA MemberFacts ==
    ASSUME NEW g \in Groups
    PROVE  /\ Members(g) \subseteq Rollouts
           /\ \A r \in Members(g) : r[1] = g
           /\ \A r \in Rollouts : r[1] = g => r \in Members(g)
BY DEF Rollouts, Members

\* Tasks partition the rollouts.
LEMMA TaskPartition ==
    ASSUME NEW r \in Rollouts, NEW s \in TaskOf(r)
    PROVE  s \in Rollouts /\ s[1] = r[1] /\ TaskOf(s) = TaskOf(r)
<1>1. s \in Members(r[1]) /\ r[1] \in Groups
  BY RolloutFacts
<1>2. s \in Rollouts /\ s[1] = r[1]
  BY <1>1, MemberFacts
<1> QED
  BY <1>2 DEF TaskOf

LEMMA TaskClosed == \A r \in Rollouts : Closed(TaskOf(r))
BY TaskPartition DEF Closed

LEMMA ClosedDifference ==
    ASSUME NEW S \in SUBSET Rollouts, Closed(S), NEW T \in SUBSET S, Closed(T)
    PROVE  Closed(S \ T)
<1> SUFFICES ASSUME NEW r \in S \ T, NEW s \in TaskOf(r) PROVE s \in S \ T
  BY DEF Closed
<1>1. s \in S
  BY DEF Closed
<1>2. TaskOf(s) = TaskOf(r) /\ r \in TaskOf(r)
  BY TaskPartition, RolloutFacts
<1>3. s \notin T
  BY <1>2 DEF Closed
<1> QED
  BY <1>1, <1>3

\* n rollouts of a group.
LEMMA SliceFacts ==
    ASSUME NEW g \in Groups, NEW n \in Nat, n <= Size[g]
    PROVE  /\ {g} \X (1..n) \subseteq Members(g)
           /\ IsFiniteSet({g} \X (1..n))
           /\ Cardinality({g} \X (1..n)) = n
<1>1. Size[g] \in Nat
  BY GroupAssumption
<1>2. {g} \X (1..n) \subseteq Members(g)
  BY <1>1 DEF Members
<1>3. IsFiniteSet(1..n) /\ Cardinality(1..n) = n
  BY FS_Interval
<1>4. IsFiniteSet({g}) /\ Cardinality({g}) = 1
  BY FS_Singleton
<1>5. /\ IsFiniteSet({g} \X (1..n))
      /\ Cardinality({g} \X (1..n)) = Cardinality({g}) * Cardinality(1..n)
  BY <1>3, <1>4, FS_Product
<1> QED
  BY <1>2, <1>3, <1>4, <1>5

LEMMA GroupFacts ==
    ASSUME NEW g \in Groups
    PROVE  /\ Size[g] \in Nat /\ Size[g] > 0
           /\ IsFiniteSet(Members(g)) /\ Cardinality(Members(g)) = Size[g]
BY GroupAssumption, SliceFacts DEF Members

LEMMA TaskCardinality ==
    ASSUME NEW r \in Rollouts
    PROVE  IsFiniteSet(TaskOf(r)) /\ Cardinality(TaskOf(r)) \in Nat \ {0}
<1>1. r[1] \in Groups
  BY RolloutFacts
<1>2. CASE r[1] \in Scored
  <2>1. TaskOf(r) = Members(r[1])
    BY <1>2 DEF TaskOf
  <2> QED
    BY <1>1, <2>1, GroupFacts
<1>3. CASE r[1] \notin Scored
  <2>1. TaskOf(r) = {r}
    BY <1>3 DEF TaskOf
  <2> QED
    BY <2>1, FS_Singleton
<1> QED
  BY <1>2, <1>3

-----------------------------------------------------------------------------
(* The inductive invariant for types and permits                           *)

\* What a program counter implies about the data beside it.
Flow ==
    /\ pc \in {"pin", "acquire", "put"} => cur \in opened
    /\ pc = "put" => dLeft > 0
    /\ wpc = "put" => wGroup \in opened /\ wLeft > 0
    /\ stale \subseteq opened
    /\ evalQueue \cap opened = {}
    /\ wpc # "idle" => version < MaxVersion
    /\ wpc \in {"idle", "update"} => stale = {}

\* A rollout is in flight or being dispatched, not both, and with it the
\* whole of its task.
Tasks ==
    /\ IsFiniteSet(inflight) /\ IsFiniteSet(batch)
    /\ Closed(inflight) /\ Closed(batch)
    /\ inflight \cap batch = {}
    /\ \A r \in inflight \cup batch : r[1] \in opened

\* Rollouts are dispatched from the highest index down, a scored group at once.
Plan ==
    \A g \in groups :
        /\ toSchedule[g] <= Size[g]
        /\ g \in Scored => toSchedule[g] \in {0, Size[g]}
        /\ \A r \in inflight \cup batch : r[1] = g => r[2] > toSchedule[g]

\* The loop pays for a batch one permit at a time, from permits that were
\* free when it chose the group and that nobody else takes.
Permits ==
    /\ permits = Cardinality(inflight) + got
    /\ permits <= MaxInflight
    /\ pc = "acquire" =>
        /\ got < Cardinality(batch)
        /\ Cardinality(inflight) + Cardinality(batch) <= MaxInflight
    /\ pc \notin {"acquire", "stopped"} => got = 0 /\ batch = {}
    /\ pc = "pin" /\ cur \in groups =>
        /\ toSchedule[cur] = Size[cur]
        /\ permits + FreshCost(cur) <= MaxInflight

Inv == TypeOK /\ Flow /\ Tasks /\ Plan /\ Permits

LEMMA InitInv == Init => Inv
<1> SUFFICES ASSUME Init PROVE Inv
  OBVIOUS
<1>1. IsFiniteSet({}) /\ Cardinality({}) = 0
  BY FS_EmptySet
<1>2. OutCap \in Nat /\ 0 \in 0..OutCap /\ 0 \in 0..MaxVersion
  BY BoundAssumption DEF OutCap
<1>3. TypeOK
  <2>1. /\ toSchedule \in [Groups -> Nat] /\ emitted \in [Groups -> Nat]
        /\ delivered \in [Groups -> Nat]
        /\ age \in [Rollouts -> Nat] /\ swaps \in [Rollouts -> Nat]
    BY DEF Init
  <2>2. /\ permits \in Nat /\ got \in Nat /\ dLeft \in Nat /\ wLeft \in Nat
        /\ version \in 0..MaxVersion /\ outLen \in 0..OutCap
    BY <1>2 DEF Init
  <2>3. /\ main \in {"run", "drain", "drained", "stopping", "stopped"}
        /\ mode \in {"train", "eval"}
        /\ gate \in BOOLEAN /\ disabled \in BOOLEAN
    BY Zenon DEF Init
  <2>4. /\ pc \in {"fill", "pin", "acquire", "wait", "handle", "put", "stopped"}
        /\ wpc \in {"idle", "drop", "put", "update"}
        /\ cur \in Groups \cup {NoGroup} /\ wGroup \in Live \cup {NoGroup}
    BY Zenon DEF Init
  <2>5. /\ evalQueue \subseteq EvalGroups
        /\ opened \subseteq Groups /\ groups \subseteq opened
        /\ inflight \subseteq Rollouts /\ batch \subseteq Rollouts
        /\ doneList \subseteq Rollouts
        /\ stale \subseteq Live /\ dropped \subseteq Groups
    BY Zenon DEF Init
  <2> QED
    BY <2>1, <2>2, <2>3, <2>4, <2>5 DEF TypeOK
<1>4. Flow
  BY DEF Init, Flow
<1>5. Tasks
  BY <1>1 DEF Init, Tasks, Closed
<1>6. Plan
  BY Zenon DEF Init, Plan
<1>7. Permits
  BY <1>1, BoundAssumption DEF Init, Permits
<1> QED
  BY <1>3, <1>4, <1>5, <1>6, <1>7 DEF Inv

-----------------------------------------------------------------------------
(* What the helpers do to the state                                        *)

\* Whole tasks leave self.inflight, with their permits.
LEMMA ClaimEffect ==
    ASSUME Inv, NEW S \in SUBSET inflight, Closed(S),
           NEW ages \in [Rollouts -> Nat], ClaimTasks(S, ages)
    PROVE  /\ inflight' = inflight \ S /\ inflight' \subseteq Rollouts
           /\ IsFiniteSet(inflight') /\ Closed(inflight')
           /\ IsFiniteSet(S) /\ Cardinality(S) \in Nat
           /\ Cardinality(inflight') = Cardinality(inflight) - Cardinality(S)
           /\ Cardinality(inflight') \in Nat
           /\ permits' = permits - Cardinality(S)
           /\ age' \in [Rollouts -> Nat] /\ swaps' \in [Rollouts -> Nat]
<1>1. inflight' = inflight \ S /\ permits' = permits - Cardinality(S)
  BY DEF ClaimTasks
<1>2. inflight \subseteq Rollouts /\ IsFiniteSet(inflight) /\ Closed(inflight)
  BY DEF Inv, TypeOK, Tasks
<1>3. inflight \cap S = S
  OBVIOUS
<1>4. /\ IsFiniteSet(S) /\ IsFiniteSet(inflight \ S)
      /\ Cardinality(inflight \ S) = Cardinality(inflight) - Cardinality(S)
  BY <1>2, <1>3, FS_Difference, FS_Subset
<1>5. Cardinality(S) \in Nat /\ Cardinality(inflight \ S) \in Nat
  BY <1>4, FS_CardinalityType
<1>6. Closed(inflight \ S)
  BY <1>2, ClosedDifference
<1>7. age' \in [Rollouts -> Nat] /\ swaps' \in [Rollouts -> Nat]
  BY DEF ClaimTasks, Inv, TypeOK
<1> QED
  BY <1>1, <1>2, <1>4, <1>5, <1>6, <1>7

\* Groups leave self.groups; what is scheduled of the others stays.
LEMMA PopEffect ==
    ASSUME Inv, NEW G, PopGroups(G)
    PROVE  /\ groups' = groups \ G
           /\ toSchedule' \in [Groups -> Nat] /\ emitted' \in [Groups -> Nat]
           /\ \A g \in groups' : toSchedule'[g] = toSchedule[g]
BY DEF Inv, TypeOK, PopGroups

LEMMA CountEffect ==
    ASSUME Inv, NEW g \in Groups, NEW k \in Nat, CountEmitted(g, k)
    PROVE  /\ groups' \subseteq groups
           /\ toSchedule' \in [Groups -> Nat] /\ emitted' \in [Groups -> Nat]
           /\ \A h \in groups' : toSchedule'[h] = toSchedule[h]
<1>1. CASE PopGroups({g})
  BY <1>1, PopEffect
<1>2. CASE UNCHANGED <<groups, toSchedule, emitted>>
  BY <1>2 DEF Inv, TypeOK
<1>3. CASE /\ emitted' = [emitted EXCEPT ![g] = @ + k]
           /\ UNCHANGED <<groups, toSchedule>>
  BY <1>3 DEF Inv, TypeOK
<1> QED
  BY <1>1, <1>2, <1>3, Zenon DEF CountEmitted

\* A run of puts fits, and stops short only with something left.
LEMMA PutEffect ==
    ASSUME Inv, NEW g \in Groups, NEW n \in Nat, PutBurst(g, n)
    PROVE  /\ Sent(n) \in Nat /\ n - Sent(n) \in Nat
           /\ outLen' \in 0..OutCap /\ delivered' \in [Groups -> Nat]
           /\ outLen < OutCap /\ n > 0 => Sent(n) > 0
<1>1. OutCap \in Nat /\ outLen \in Nat /\ outLen <= OutCap
  BY BoundAssumption DEF OutCap, Inv, TypeOK
<1>2. /\ Sent(n) \in Nat /\ n - Sent(n) \in Nat
      /\ outLen + Sent(n) <= OutCap
      /\ outLen < OutCap /\ n > 0 => Sent(n) > 0
  BY <1>1 DEF Sent
<1>3. outLen' \in 0..OutCap
  BY <1>1, <1>2 DEF PutBurst
<1>4. delivered' \in [Groups -> Nat]
  BY <1>2 DEF PutBurst, Inv, TypeOK
<1> QED
  BY <1>2, <1>3, <1>4

\* What a call of schedule_group_rollout dispatches.
LEMMA BatchEffect ==
    ASSUME Inv, NEW g \in groups, toSchedule[g] > 0
    PROVE  /\ NextBatch(g) \subseteq Members(g) /\ Closed(NextBatch(g))
           /\ IsFiniteSet(NextBatch(g)) /\ Cardinality(NextBatch(g)) = Cost(g)
           /\ Cost(g) \in Nat /\ Cost(g) > 0
           /\ NextBatch(g) \cap inflight = {}
           /\ \A r \in NextBatch(g) :
                 r[2] > (IF g \in Scored THEN 0 ELSE toSchedule[g] - 1)
<1>1. /\ g \in Groups /\ toSchedule[g] \in Nat /\ toSchedule[g] <= Size[g]
      /\ Size[g] \in Nat
      /\ inflight \subseteq Rollouts
      /\ \A r \in inflight : r[1] = g => r[2] > toSchedule[g]
  BY GroupFacts DEF Inv, TypeOK, Plan
<1>2. CASE g \in Scored
  <2>1. toSchedule[g] = Size[g]
    BY <1>2 DEF Inv, Plan
  <2>2. NextBatch(g) = Members(g) /\ Cost(g) = Size[g]
    BY <1>2, <2>1 DEF NextBatch, Members, Cost
  <2>3. Closed(Members(g))
    BY <1>1, <1>2, MemberFacts DEF Closed, TaskOf
  <2>4. Members(g) \cap inflight = {}
    BY <1>1, <2>1 DEF Members
  <2>5. \A r \in Members(g) : r[2] > 0
    BY <1>1 DEF Members
  <2> QED
    BY <1>1, <1>2, <2>2, <2>3, <2>4, <2>5, GroupFacts
<1>3. CASE g \notin Scored
  <2> DEFINE r == <<g, toSchedule[g]>>
  <2>1. NextBatch(g) = {r} /\ Cost(g) = 1
    BY <1>3 DEF NextBatch, Cost
  <2>2. r \in Members(g) /\ r[1] = g /\ r[2] = toSchedule[g]
    BY <1>1 DEF Members
  <2>3. TaskOf(r) = {r}
    BY <1>3, <2>2 DEF TaskOf
  <2>4. r \notin inflight
    BY <1>1, <2>2
  <2>5. IsFiniteSet({r}) /\ Cardinality({r}) = 1
    BY FS_Singleton
  <2>6. Closed({r})
    BY <2>3 DEF Closed
  <2>7. \A s \in {r} : s[2] > toSchedule[g] - 1
    BY <1>1, <2>2
  <2> HIDE DEF r
  <2> QED
    BY <1>3, <2>1, <2>2, <2>4, <2>5, <2>6, <2>7
<1> QED
  BY <1>2, <1>3

\* When tasks only leave, what remains is still disjoint and planned.
LEMMA TasksShrink ==
    ASSUME Inv, inflight' \subseteq inflight, IsFiniteSet(inflight'),
           Closed(inflight'), batch' = batch, opened' = opened,
           groups' \subseteq groups,
           \A g \in groups' : toSchedule'[g] = toSchedule[g]
    PROVE  Tasks' /\ Plan'
<1>1. Tasks'
  BY DEF Inv, Tasks, Closed
<1>2. Plan'
  BY DEF Inv, Plan
<1> QED
  BY <1>1, <1>2

\* Permits released with their tasks, beside whatever the loop is doing.
LEMMA PermitsShrink ==
    ASSUME Inv,
           Cardinality(inflight') \in Nat,
           Cardinality(inflight') <= Cardinality(inflight),
           Cardinality(inflight) \in Nat,
           permits' = Cardinality(inflight') + got,
           groups' \subseteq groups,
           \A g \in groups' : toSchedule'[g] = toSchedule[g],
           got' = got, batch' = batch,
           \/ pc' = pc /\ cur' = cur
           \/ pc \notin {"acquire", "stopped"} /\ pc' \notin {"acquire", "pin"}
           \/ pc' = "stopped"
    PROVE  Permits'
<1>1. permits' <= permits /\ permits' \in Nat /\ permits \in Nat
  BY DEF Inv, TypeOK, Permits
<1>2. Cardinality(batch) \in Nat
  BY FS_CardinalityType DEF Inv, Tasks
<1>3. MaxInflight \in Nat
  BY BoundAssumption
<1>4. FreshCost(cur) \in Nat \/ cur \notin groups
  BY GroupFacts DEF FreshCost, Inv, TypeOK
<1>5. /\ permits' = Cardinality(inflight') + got'
      /\ permits' <= MaxInflight
  BY <1>1, <1>3 DEF Inv, Permits
<1>6. ASSUME pc' = "acquire"
      PROVE  /\ got' < Cardinality(batch')
             /\ Cardinality(inflight') + Cardinality(batch') <= MaxInflight
  BY <1>2, <1>3, <1>6 DEF Inv, Permits
<1>7. ASSUME pc' \notin {"acquire", "stopped"}
      PROVE  got' = 0 /\ batch' = {}
  BY <1>7 DEF Inv, Permits
<1>8. ASSUME pc' = "pin", cur' \in groups'
      PROVE  /\ toSchedule'[cur'] = Size[cur']
             /\ permits' + FreshCost(cur') <= MaxInflight
  <2>1. pc = "pin" /\ cur' = cur /\ cur \in groups
    BY <1>8
  <2>2. toSchedule'[cur] = toSchedule[cur]
    BY <1>8, <2>1
  <2>3. toSchedule[cur] = Size[cur] /\ permits + FreshCost(cur) <= MaxInflight
    BY <2>1 DEF Inv, Permits
  <2>4. permits' + FreshCost(cur) <= MaxInflight
    BY <1>1, <1>3, <1>4, <2>1, <2>3
  <2> QED
    BY <2>1, <2>2, <2>3, <2>4 DEF FreshCost
<1> QED
  BY <1>5, <1>6, <1>7, <1>8 DEF Permits, FreshCost


\* schedule_group_rollout takes a batch the free permits can pay for.
LEMMA ReserveEffect ==
    ASSUME Inv, pc \in {"fill", "pin"}, NEW g \in groups, toSchedule[g] > 0,
           permits + Cost(g) <= MaxInflight, Reserve(g),
           UNCHANGED <<opened, groups, inflight, permits>>
    PROVE  /\ Tasks' /\ Plan' /\ Permits'
           /\ cur' = g /\ pc' = "acquire"
           /\ batch' \subseteq Rollouts /\ got' = 0
           /\ toSchedule' \in [Groups -> Nat]
<1>1. /\ g \in Groups /\ g \in opened
      /\ toSchedule \in [Groups -> Nat] /\ toSchedule[g] \in Nat
      /\ permits = Cardinality(inflight) /\ permits \in Nat
      /\ batch = {}
  <2>1. Cardinality(inflight) \in Nat
    BY FS_CardinalityType DEF Inv, Tasks
  <2> QED
    BY <2>1 DEF Inv, TypeOK, Permits
<1>2. /\ batch' = NextBatch(g) /\ got' = 0 /\ cur' = g /\ pc' = "acquire"
      /\ toSchedule' = [toSchedule EXCEPT
                          ![g] = IF g \in Scored THEN 0 ELSE @ - 1]
  BY DEF Reserve
<1>3. /\ NextBatch(g) \subseteq Members(g) /\ Closed(NextBatch(g))
      /\ IsFiniteSet(NextBatch(g)) /\ Cardinality(NextBatch(g)) = Cost(g)
      /\ Cost(g) \in Nat /\ Cost(g) > 0
      /\ NextBatch(g) \cap inflight = {}
      /\ \A r \in NextBatch(g) :
            r[2] > (IF g \in Scored THEN 0 ELSE toSchedule[g] - 1)
  BY BatchEffect
<1>4. /\ Members(g) \subseteq Rollouts
      /\ \A r \in NextBatch(g) : r[1] = g
  BY <1>1, <1>3, MemberFacts
<1>5. toSchedule' \in [Groups -> Nat]
  BY <1>1, <1>2
<1>6. Tasks'
  BY <1>1, <1>2, <1>3, <1>4 DEF Inv, Tasks, Closed
<1>7. Plan'
  <2> SUFFICES ASSUME NEW h \in groups
               PROVE  /\ toSchedule'[h] <= Size[h]
                      /\ h \in Scored => toSchedule'[h] \in {0, Size[h]}
                      /\ \A r \in inflight' \cup batch' :
                            r[1] = h => r[2] > toSchedule'[h]
    BY DEF Plan
  <2>1. /\ h \in Groups /\ toSchedule[h] \in Nat /\ toSchedule[h] <= Size[h]
        /\ Size[h] \in Nat
        /\ h \in Scored => toSchedule[h] \in {0, Size[h]}
        /\ \A r \in inflight : r[1] = h => r[2] > toSchedule[h]
        /\ \A r \in inflight : r[2] \in Nat
    BY GroupFacts, RolloutFacts DEF Inv, TypeOK, Plan
  <2>2. CASE h = g
    <3>1. toSchedule'[h] = IF g \in Scored THEN 0 ELSE toSchedule[g] - 1
      BY <1>1, <1>2, <2>2
    <3>2. \A r \in NextBatch(g) : r[2] > toSchedule'[h]
      BY <1>3, <3>1
    <3>3. \A r \in inflight : r[1] = h => r[2] > toSchedule'[h]
      BY <2>1, <2>2, <3>1
    <3>4. /\ toSchedule'[h] <= Size[h]
          /\ h \in Scored => toSchedule'[h] = 0
      BY <2>1, <2>2, <3>1
    <3> QED
      BY <1>2, <3>2, <3>3, <3>4
  <2>3. CASE h # g
    <3>1. toSchedule'[h] = toSchedule[h]
      BY <1>1, <1>2, <2>1, <2>3
    <3>2. \A r \in NextBatch(g) : r[1] # h
      BY <1>4, <2>3
    <3> QED
      BY <1>2, <2>1, <3>1, <3>2
  <2> QED
    BY <2>2, <2>3
<1>8. Permits'
  <2>1. /\ permits' = permits /\ Cardinality(inflight') = Cardinality(inflight)
        /\ Cardinality(batch') = Cost(g)
    BY <1>2, <1>3
  <2> QED
    BY <1>1, <1>2, <1>3, <2>1, BoundAssumption DEF Permits
<1> QED
  BY <1>2, <1>3, <1>4, <1>5, <1>6, <1>7, <1>8

-----------------------------------------------------------------------------
(* Every step keeps the invariant                                          *)

\* Steps of the loop that only move its program counter.
LEMMA LoopMoves ==
    ASSUME Inv,
           UNCHANGED <<orchVars, groupVars, taskVars, watchVars, outVars,
                       cur, batch, got, dLeft>>,
           pc \in {"fill", "wait", "handle"},
           pc' \in {"fill", "wait", "handle", "stopped"},
           doneList' \subseteq Rollouts
    PROVE  Inv'
<1>1. TypeOK'
  BY DEF Inv, TypeOK, orchVars, groupVars, taskVars, watchVars, outVars
<1>2. Flow'
  BY DEF Inv, Flow, orchVars, groupVars, watchVars
<1>3. Tasks' /\ Plan'
  BY DEF Inv, Tasks, Plan, Closed, groupVars, taskVars
<1>4. Permits'
  BY DEF Inv, Permits, groupVars, taskVars
<1> QED
  BY <1>1, <1>2, <1>3, <1>4 DEF Inv

LEMMA ReserveInv ==
    ASSUME Inv, pc \in {"fill", "pin"}, NEW g \in groups, toSchedule[g] > 0,
           permits + Cost(g) <= MaxInflight, Reserve(g),
           UNCHANGED <<orchVars, opened, groups, emitted, taskVars, watchVars,
                       outVars>>
    PROVE  Inv'
<1>1. /\ Tasks' /\ Plan' /\ Permits'
      /\ cur' = g /\ pc' = "acquire"
      /\ batch' \subseteq Rollouts /\ got' = 0
      /\ toSchedule' \in [Groups -> Nat]
  BY ReserveEffect DEF taskVars
<1>2. doneList' = doneList /\ dLeft' = dLeft
  BY DEF Reserve
<1>3. g \in opened /\ g \in Groups
  BY DEF Inv, TypeOK
<1>4. TypeOK'
  BY <1>1, <1>2, <1>3
     DEF Inv, TypeOK, orchVars, taskVars, watchVars, outVars
<1>5. Flow'
  BY <1>1, <1>3 DEF Inv, Flow, orchVars, watchVars
<1> QED
  BY <1>1, <1>4, <1>5 DEF Inv


LEMMA LoopFill ==
    ASSUME Inv,
           \/ FillReturns \/ FillFlips \/ FillStalls
           \/ \E g \in Groups : FillContinues(g) \/ FillOpens(g)
           \/ Pinned
    PROVE  Inv'
<1>1. CASE FillReturns \/ FillStalls
  <2>1. doneList' \subseteq Rollouts
    BY <1>1 DEF Inv, TypeOK, FillReturns, FillStalls
  <2> QED
    BY <1>1, <2>1, LoopMoves DEF FillReturns, FillStalls
<1>2. CASE FillFlips
  <2> USE <1>2 DEF FillFlips, groupVars, taskVars, loopVars, watchVars, outVars
  <2>1. TypeOK'
    BY DEF Inv, TypeOK
  <2>2. Flow'
    BY DEF Inv, Flow
  <2>3. Tasks' /\ Plan'
    BY DEF Inv, Tasks, Plan, Closed
  <2>4. Permits'
    BY DEF Inv, Permits
  <2> QED
    BY <2>1, <2>2, <2>3, <2>4 DEF Inv
<1>3. ASSUME NEW g \in Groups, FillContinues(g) PROVE Inv'
  <2>1. /\ pc = "fill" /\ g \in groups /\ toSchedule[g] > 0
        /\ Cost(g) <= Available /\ Reserve(g)
    BY <1>3 DEF FillContinues, MaySchedule, Continuable
  <2>2. Cost(g) \in Nat
    BY <2>1, BatchEffect
  <2>3. permits + Cost(g) <= MaxInflight
    BY <2>1, <2>2, BoundAssumption DEF Available, Inv, TypeOK
  <2> QED
    BY <1>3, <2>1, <2>3, ReserveInv DEF FillContinues
<1>4. ASSUME NEW g \in Groups, FillOpens(g) PROVE Inv'
  <2>1. /\ opened' = opened \cup {g} /\ groups' = groups \cup {g}
        /\ toSchedule' = [toSchedule EXCEPT ![g] = Size[g]]
        /\ emitted' = [emitted EXCEPT ![g] = 0]
        /\ evalQueue' = evalQueue \ {g}
        /\ cur' = g /\ pc' = "pin" /\ pc = "fill"
        /\ FreshCost(g) <= Available
        /\ UNCHANGED <<main, mode, gate, disabled, taskVars, batch, got,
                       doneList, dLeft, watchVars, outVars>>
    BY <1>4 DEF FillOpens, MaySchedule
  <2>2. g \notin opened
    BY <1>4 DEF FillOpens, Fresh, Inv, Flow
  <2>3. Size[g] \in Nat /\ Size[g] > 0
    BY GroupFacts
  <2>4. TypeOK'
    BY <2>1, <2>3 DEF Inv, TypeOK, taskVars, watchVars, outVars
  <2>5. Flow'
    BY <2>1 DEF Inv, Flow, watchVars
  <2>6. Tasks'
    BY <2>1 DEF Inv, Tasks, Closed, taskVars
  <2>7. Plan'
    <3> SUFFICES ASSUME NEW h \in groups'
                 PROVE  /\ toSchedule'[h] <= Size[h]
                        /\ h \in Scored => toSchedule'[h] \in {0, Size[h]}
                        /\ \A r \in inflight' \cup batch' :
                              r[1] = h => r[2] > toSchedule'[h]
      BY DEF Plan
    <3>1. CASE h = g
      <4>1. toSchedule'[h] = Size[h]
        BY <2>1, <3>1 DEF Inv, TypeOK
      <4>2. \A r \in inflight' \cup batch' : r[1] # h
        BY <2>1, <2>2, <3>1 DEF Inv, Tasks, taskVars
      <4> QED
        BY <2>3, <3>1, <4>1, <4>2
    <3>2. CASE h # g
      <4>1. h \in groups /\ toSchedule'[h] = toSchedule[h]
        BY <2>1, <3>2 DEF Inv, TypeOK
      <4> QED
        BY <2>1, <4>1 DEF Inv, Plan, taskVars
    <3> QED
      BY <3>1, <3>2
  <2>8. Permits'
    <3>1. toSchedule'[cur'] = Size[cur']
      BY <2>1 DEF Inv, TypeOK
    <3>2. permits \in Nat /\ MaxInflight \in Nat /\ FreshCost(g) \in Nat
      BY <2>3, BoundAssumption DEF Inv, TypeOK, FreshCost
    <3>3. permits + FreshCost(g) <= MaxInflight
      BY <2>1, <3>2 DEF Available
    <3> QED
      BY <2>1, <3>1, <3>3 DEF Inv, Permits, taskVars, FreshCost
  <2> QED
    BY <2>4, <2>5, <2>6, <2>7, <2>8 DEF Inv
<1>5. CASE Pinned
  <2>1. CASE cur \in groups /\ Reserve(cur)
    <3>1. /\ pc = "pin" /\ cur \in Groups
          /\ toSchedule[cur] = Size[cur]
          /\ permits + FreshCost(cur) <= MaxInflight
      BY <1>5, <2>1 DEF Pinned, Inv, TypeOK, Permits
    <3>2. Size[cur] > 0 /\ Cost(cur) = FreshCost(cur)
      BY <3>1, GroupFacts DEF Cost, FreshCost
    <3> QED
      BY <1>5, <2>1, <3>1, <3>2, ReserveInv DEF Pinned
  <2>2. CASE pc' = "wait" /\ cur' = NoGroup /\ ~(cur \in groups /\ Reserve(cur))
    <3>1. /\ pc = "pin"
          /\ UNCHANGED <<orchVars, opened, groups, toSchedule, emitted, batch,
                         got, doneList, dLeft, taskVars, watchVars, outVars>>
      BY <1>5, <2>2 DEF Pinned
    <3> USE <2>2, <3>1 DEF orchVars, taskVars, watchVars, outVars
    <3>2. TypeOK'
      BY DEF Inv, TypeOK
    <3>3. Flow'
      BY DEF Inv, Flow
    <3>4. Tasks' /\ Plan'
      BY DEF Inv, Tasks, Plan, Closed
    <3>5. Permits'
      BY DEF Inv, Permits
    <3> QED
      BY <3>2, <3>3, <3>4, <3>5 DEF Inv
  <2> QED
    BY <1>5, <2>1, <2>2 DEF Pinned
<1> QED
  BY <1>1, <1>2, <1>3, <1>4, <1>5

LEMMA LoopAcquires == Inv /\ Acquire => Inv'
<1> SUFFICES ASSUME Inv, Acquire PROVE Inv'
  OBVIOUS
<1>1. /\ pc = "acquire" /\ permits' = permits + 1
      /\ UNCHANGED <<orchVars, groupVars, age, swaps, doneList, dLeft,
                     watchVars, outVars>>
  BY DEF Acquire
<1>2. /\ IsFiniteSet(inflight) /\ IsFiniteSet(batch)
      /\ Closed(inflight) /\ Closed(batch) /\ inflight \cap batch = {}
      /\ inflight \subseteq Rollouts /\ batch \subseteq Rollouts
  BY DEF Inv, Tasks, TypeOK
<1>3. Cardinality(inflight) \in Nat /\ Cardinality(batch) \in Nat
  BY <1>2, FS_CardinalityType
<1>4. /\ got \in Nat /\ permits = Cardinality(inflight) + got
      /\ permits \in Nat
      /\ got < Cardinality(batch)
      /\ Cardinality(inflight) + Cardinality(batch) <= MaxInflight
  BY <1>1 DEF Inv, TypeOK, Permits
<1>5. MaxInflight \in Nat
  BY BoundAssumption
<1>6. CASE got' = got + 1 /\ got + 1 < Cardinality(batch)
           /\ UNCHANGED <<pc, cur, batch, inflight>>
  <2>1. TypeOK'
    BY <1>1, <1>4, <1>6
       DEF Inv, TypeOK, orchVars, groupVars, watchVars, outVars
  <2>2. Flow'
    BY <1>1, <1>6 DEF Inv, Flow, orchVars, groupVars, watchVars
  <2>3. Tasks' /\ Plan'
    BY <1>1, <1>6 DEF Inv, Tasks, Plan, Closed, groupVars
  <2>4. Permits'
    BY <1>1, <1>3, <1>4, <1>5, <1>6 DEF Permits
  <2> QED
    BY <2>1, <2>2, <2>3, <2>4 DEF Inv
<1>7. CASE /\ got + 1 >= Cardinality(batch)
           /\ inflight' = inflight \cup batch
           /\ got' = 0 /\ batch' = {} /\ cur' = NoGroup /\ pc' = "fill"
  <2>1. TypeOK'
    BY <1>1, <1>2, <1>4, <1>7
       DEF Inv, TypeOK, orchVars, groupVars, watchVars, outVars
  <2>2. Flow'
    BY <1>1, <1>7 DEF Inv, Flow, orchVars, groupVars, watchVars
  <2>3. IsFiniteSet(inflight') /\ IsFiniteSet({})
    BY <1>2, <1>7, FS_Union, FS_EmptySet
  <2>4. Closed(inflight')
    BY <1>2, <1>7 DEF Closed
  <2>5. Tasks'
    BY <1>1, <1>7, <2>3, <2>4 DEF Inv, Tasks, Closed, groupVars
  <2>6. Plan'
    BY <1>1, <1>7 DEF Inv, Plan, groupVars
  <2>7. Cardinality(inflight \cup batch)
          = Cardinality(inflight) + Cardinality(batch)
    <3>1. Cardinality(inflight \cap batch) = 0
      BY <1>2, FS_EmptySet
    <3>2. Cardinality(inflight \cup batch)
            = Cardinality(inflight) + Cardinality(batch)
                - Cardinality(inflight \cap batch)
      BY <1>2, FS_Union
    <3> QED
      BY <1>3, <3>1, <3>2
  <2>8. Cardinality(inflight') = permits + 1
    BY <1>3, <1>4, <1>7, <2>7
  <2>9. permits + 1 <= MaxInflight
    BY <1>3, <1>4, <1>5
  <2>10. Permits'
    BY <1>1, <1>4, <1>7, <2>8, <2>9 DEF Permits
  <2> QED
    BY <2>1, <2>2, <2>5, <2>6, <2>10 DEF Inv
<1> QED
  BY <1>3, <1>4, <1>6, <1>7 DEF Acquire

LEMMA LoopCollects ==
    ASSUME Inv, NEW r \in Rollouts, Handle(r)
    PROVE  Inv'
<1>1. /\ pc = "handle" /\ r \in doneList /\ doneList' = doneList \ TaskOf(r)
      /\ UNCHANGED <<orchVars, opened, batch, got, watchVars>>
  BY DEF Handle
<1>2. CASE r \notin inflight
  <2>1. /\ UNCHANGED <<taskVars, outVars, groups, toSchedule, emitted, pc, cur,
                       dLeft>>
        /\ doneList' \subseteq Rollouts
    BY <1>1, <1>2 DEF Handle, Inv, TypeOK
  <2>2. UNCHANGED <<orchVars, groupVars, taskVars, watchVars, outVars, cur,
                    batch, got, dLeft>>
    BY <1>1, <2>1 DEF groupVars
  <2> QED
    BY <1>1, <2>1, <2>2, LoopMoves
<1>3. CASE r \in inflight
  <2> DEFINE n == Cardinality(TaskOf(r))
             k == Sent(n) + Blocked(n - Sent(n))
  <2>1. /\ ClaimTasks(TaskOf(r), age) /\ PutBurst(r[1], n)
        /\ CountEmitted(r[1], k)
        /\ dLeft' = n - Sent(n)
        /\ pc' = (IF n > Sent(n) THEN "put" ELSE "handle")
        /\ cur' = (IF n > Sent(n) THEN r[1] ELSE NoGroup)
    BY <1>3 DEF Handle
  <2>2. /\ r[1] \in Groups /\ r[1] \in opened
        /\ TaskOf(r) \subseteq inflight /\ Closed(TaskOf(r))
        /\ age \in [Rollouts -> Nat]
    BY <1>3, RolloutFacts, TaskClosed DEF Inv, Tasks, Closed, TypeOK
  <2>3. n \in Nat
    BY TaskCardinality
  <2> HIDE DEF n
  <2>4. /\ inflight' \subseteq inflight /\ inflight' \subseteq Rollouts
        /\ IsFiniteSet(inflight') /\ Closed(inflight')
        /\ Cardinality(inflight') = Cardinality(inflight) - n
        /\ Cardinality(inflight') \in Nat
        /\ permits' = permits - n
        /\ age' \in [Rollouts -> Nat] /\ swaps' \in [Rollouts -> Nat]
    BY <2>1, <2>2, ClaimEffect DEF n
  <2>5. /\ Sent(n) \in Nat /\ n - Sent(n) \in Nat
        /\ outLen' \in 0..OutCap /\ delivered' \in [Groups -> Nat]
    BY <2>1, <2>2, <2>3, PutEffect
  <2>6. k \in Nat
    BY <2>5 DEF Blocked
  <2> HIDE DEF k
  <2>7. /\ groups' \subseteq groups
        /\ toSchedule' \in [Groups -> Nat] /\ emitted' \in [Groups -> Nat]
        /\ \A h \in groups' : toSchedule'[h] = toSchedule[h]
    BY <2>1, <2>2, <2>6, CountEffect
  <2>8. Cardinality(inflight) \in Nat
    BY FS_CardinalityType DEF Inv, Tasks
  <2>9. /\ permits' = Cardinality(inflight') + got
        /\ permits' \in Nat
        /\ Cardinality(inflight') <= Cardinality(inflight)
    BY <2>3, <2>4, <2>8 DEF Inv, TypeOK, Permits
  <2>10. \/ pc' = "put" /\ cur' = r[1] /\ dLeft' > 0
         \/ pc' = "handle" /\ cur' = NoGroup
    BY <2>1, <2>3, <2>5
  <2>11. TypeOK'
    BY <1>1, <2>1, <2>2, <2>4, <2>5, <2>7, <2>9, <2>10
       DEF Inv, TypeOK, orchVars, watchVars
  <2>12. Flow'
    BY <1>1, <2>2, <2>10 DEF Inv, Flow, orchVars, watchVars
  <2>13. Tasks' /\ Plan'
    BY <1>1, <2>4, <2>7, TasksShrink
  <2>14. Permits'
    BY <1>1, <2>4, <2>7, <2>8, <2>9, <2>10, PermitsShrink
  <2> QED
    BY <2>11, <2>12, <2>13, <2>14 DEF Inv
<1> QED
  BY <1>2, <1>3

LEMMA LoopResumes == Inv /\ HandleResumes => Inv'
<1> SUFFICES ASSUME Inv, HandleResumes PROVE Inv'
  OBVIOUS
<1> DEFINE k == Sent(dLeft) + Blocked(dLeft - Sent(dLeft)) - 1
<1>1. /\ pc = "put" /\ outLen < OutCap
      /\ PutBurst(cur, dLeft) /\ CountEmitted(cur, k)
      /\ dLeft' = dLeft - Sent(dLeft)
      /\ pc' = (IF dLeft > Sent(dLeft) THEN "put" ELSE "handle")
      /\ cur' = (IF dLeft > Sent(dLeft) THEN cur ELSE NoGroup)
      /\ UNCHANGED <<orchVars, opened, taskVars, batch, got, doneList,
                     watchVars>>
  BY DEF HandleResumes
<1>2. /\ cur \in opened /\ cur \in Groups /\ dLeft \in Nat /\ dLeft > 0
  BY <1>1 DEF Inv, Flow, TypeOK
<1>3. /\ Sent(dLeft) \in Nat /\ dLeft - Sent(dLeft) \in Nat
      /\ Sent(dLeft) > 0
      /\ outLen' \in 0..OutCap /\ delivered' \in [Groups -> Nat]
  BY <1>1, <1>2, PutEffect
<1>4. k \in Nat
  BY <1>3 DEF Blocked
<1> HIDE DEF k
<1>5. /\ groups' \subseteq groups
      /\ toSchedule' \in [Groups -> Nat] /\ emitted' \in [Groups -> Nat]
      /\ \A h \in groups' : toSchedule'[h] = toSchedule[h]
  BY <1>1, <1>2, <1>4, CountEffect
<1>6. \/ pc' = "put" /\ cur' = cur /\ dLeft' > 0
      \/ pc' = "handle" /\ cur' = NoGroup
  BY <1>1, <1>2, <1>3
<1>7. TypeOK'
  BY <1>1, <1>2, <1>3, <1>5, <1>6
     DEF Inv, TypeOK, orchVars, taskVars, watchVars
<1>8. Flow'
  BY <1>1, <1>2, <1>6 DEF Inv, Flow, orchVars, watchVars
<1>9. Tasks' /\ Plan'
  BY <1>1, <1>5, TasksShrink DEF taskVars, Inv, Tasks, Closed
<1>10. Permits'
  <2>1. Cardinality(inflight) \in Nat
    BY FS_CardinalityType DEF Inv, Tasks
  <2>2. permits = Cardinality(inflight) + got
    BY DEF Inv, Permits
  <2> QED
    BY <1>1, <1>5, <1>6, <2>1, <2>2, PermitsShrink DEF taskVars
<1> QED
  BY <1>7, <1>8, <1>9, <1>10 DEF Inv

LEMMA LoopInv == Inv /\ DispatchLoop => Inv'
<1> SUFFICES ASSUME Inv, DispatchLoop PROVE Inv'
  OBVIOUS
<1>1. CASE WaitTimesOut \/ HandleEnds
  <2>1. doneList' \subseteq Rollouts
    BY <1>1 DEF Inv, TypeOK, WaitTimesOut, HandleEnds
  <2>2. pc \in {"wait", "handle"} /\ pc' \in {"fill", "stopped"}
    BY <1>1 DEF WaitTimesOut, HandleEnds, LoopTop
  <2> QED
    BY <1>1, <2>1, <2>2, LoopMoves DEF WaitTimesOut, HandleEnds
<1>2. ASSUME NEW D \in SUBSET inflight, Collect(D) PROVE Inv'
  <2>1. doneList' \subseteq Rollouts
    BY <1>2 DEF Inv, TypeOK, Collect
  <2> QED
    BY <1>2, <2>1, LoopMoves DEF Collect
<1> QED
  BY <1>1, <1>2, LoopFill, LoopAcquires, LoopCollects, LoopResumes
     DEF DispatchLoop


\* What is in flight of one group is a union of tasks.
LEMMA GroupClosed ==
    ASSUME Inv, NEW G
    PROVE  /\ {r \in inflight : r[1] \in G} \subseteq inflight
           /\ Closed({r \in inflight : r[1] \in G})
<1>1. inflight \subseteq Rollouts /\ Closed(inflight)
  BY DEF Inv, TypeOK, Tasks
<1>2. ASSUME NEW r \in inflight, r[1] \in G, NEW s \in TaskOf(r)
      PROVE  s \in inflight /\ s[1] \in G
  BY <1>1, <1>2, TaskPartition DEF Closed
<1> QED
  BY <1>2 DEF Closed

LEMMA InGroup ==
    ASSUME Inv, NEW g \in Groups
    PROVE  /\ inflight \cap Members(g) \subseteq inflight
           /\ Closed(inflight \cap Members(g))
<1>1. inflight \cap Members(g) = {r \in inflight : r[1] \in {g}}
  BY MemberFacts DEF Inv, TypeOK
<1> HIDE DEF Closed
<1> QED
  BY <1>1, GroupClosed

\* Releasing tasks and popping groups, wherever the loop is.
LEMMA ReleaseInv ==
    ASSUME Inv, NEW S \in SUBSET inflight, Closed(S),
           NEW ages \in [Rollouts -> Nat], ClaimTasks(S, ages),
           NEW G, PopGroups(G), UNCHANGED <<opened, loopVars>>
    PROVE  /\ Tasks' /\ Plan' /\ Permits'
           /\ inflight' \subseteq Rollouts /\ permits' \in Nat
           /\ age' \in [Rollouts -> Nat] /\ swaps' \in [Rollouts -> Nat]
           /\ groups' \subseteq groups
           /\ toSchedule' \in [Groups -> Nat] /\ emitted' \in [Groups -> Nat]
<1>1. /\ inflight' \subseteq inflight /\ inflight' \subseteq Rollouts
      /\ IsFiniteSet(inflight') /\ Closed(inflight')
      /\ Cardinality(S) \in Nat
      /\ Cardinality(inflight') = Cardinality(inflight) - Cardinality(S)
      /\ Cardinality(inflight') \in Nat
      /\ permits' = permits - Cardinality(S)
      /\ age' \in [Rollouts -> Nat] /\ swaps' \in [Rollouts -> Nat]
  BY ClaimEffect
<1>2. /\ groups' \subseteq groups
      /\ toSchedule' \in [Groups -> Nat] /\ emitted' \in [Groups -> Nat]
      /\ \A g \in groups' : toSchedule'[g] = toSchedule[g]
  BY PopEffect
<1>3. Cardinality(inflight) \in Nat
  BY FS_CardinalityType DEF Inv, Tasks
<1>4. permits = Cardinality(inflight) + got /\ got \in Nat
  BY DEF Inv, Permits, TypeOK
<1>5. /\ permits' = Cardinality(inflight') + got /\ permits' \in Nat
      /\ Cardinality(inflight') <= Cardinality(inflight)
  BY <1>1, <1>3, <1>4
<1>6. /\ pc' = pc /\ cur' = cur /\ got' = got /\ batch' = batch
      /\ opened' = opened
  BY DEF loopVars
<1>7. Tasks' /\ Plan'
  BY <1>1, <1>2, <1>6, TasksShrink
<1>8. Permits'
  BY <1>1, <1>2, <1>3, <1>5, <1>6, PermitsShrink
<1> QED
  BY <1>1, <1>2, <1>5, <1>7, <1>8

LEMMA DropGroupInv ==
    ASSUME Inv, NEW g \in Live \cap opened, version < MaxVersion,
           NEW ages \in [Rollouts -> Nat], DropGroup(g, ages),
           stale' \subseteq Live \cap opened,
           UNCHANGED <<orchVars, opened, loopVars, version>>
    PROVE  Inv'
<1> DEFINE n == Markers(g)
<1>1. /\ ClaimTasks(inflight \cap Members(g), ages) /\ PopGroups({g})
      /\ PutBurst(g, n) /\ wLeft' = n - Sent(n)
      /\ dropped' = (IF n > 0 THEN dropped \cup {g} ELSE dropped)
      /\ wpc' = (IF n > Sent(n) THEN "put" ELSE "drop")
      /\ wGroup' = (IF n > Sent(n) THEN g ELSE NoGroup)
  BY DEF DropGroup
<1>2. g \in Groups
  BY DEF Live, Groups
<1>3. /\ inflight \cap Members(g) \subseteq inflight
      /\ Closed(inflight \cap Members(g))
  BY <1>2, InGroup
<1>4. n \in Nat
  <2>1. IsFiniteSet(inflight \cap Members(g))
    BY <1>3, FS_Subset DEF Inv, Tasks
  <2>2. Cardinality(inflight \cap Members(g)) \in Nat
    BY <2>1, FS_CardinalityType
  <2> QED
    BY <1>2, <2>2 DEF Markers, Inv, TypeOK
<1> HIDE DEF n
<1>5. /\ Tasks' /\ Plan' /\ Permits'
      /\ inflight' \subseteq Rollouts /\ permits' \in Nat
      /\ age' \in [Rollouts -> Nat] /\ swaps' \in [Rollouts -> Nat]
      /\ groups' \subseteq groups
      /\ toSchedule' \in [Groups -> Nat] /\ emitted' \in [Groups -> Nat]
  <2> DEFINE S == inflight \cap Members(g)
  <2>1. S \in SUBSET inflight /\ Closed(S) /\ ClaimTasks(S, ages)
    BY <1>1, <1>3
  <2> HIDE DEF S
  <2> QED
    BY <1>1, <2>1, ReleaseInv
<1>6. /\ Sent(n) \in Nat /\ n - Sent(n) \in Nat
      /\ outLen' \in 0..OutCap /\ delivered' \in [Groups -> Nat]
  BY <1>1, <1>2, <1>4, PutEffect
<1>7. \/ wpc' = "put" /\ wGroup' = g /\ wLeft' > 0
      \/ wpc' = "drop" /\ wGroup' = NoGroup
  BY <1>1, <1>4, <1>6
<1>8. dropped' \subseteq Groups /\ wLeft' \in Nat
  BY <1>1, <1>2, <1>6 DEF Inv, TypeOK
<1>9. TypeOK'
  BY <1>5, <1>6, <1>7, <1>8 DEF Inv, TypeOK, orchVars, loopVars
<1>10. Flow'
  BY <1>7 DEF Inv, Flow, orchVars, loopVars
<1> QED
  BY <1>5, <1>9, <1>10 DEF Inv

\* Only train groups of the live policy that are open are aged, so only
\* those are found stale.
LEMMA AgedFacts ==
    ASSUME Inv
    PROVE  /\ Aged \in [Rollouts -> Nat]
           /\ StaleGroups \subseteq Live \cap opened
<1>1. Aged \in [Rollouts -> Nat]
  BY DEF Inv, TypeOK, Aged
<1>2. StaleGroups \subseteq Live \cap opened
  BY DEF StaleGroups, Ages, Inv, Tasks
<1> QED
  BY <1>1, <1>2

LEMMA WatcherInv == Inv /\ Watcher => Inv'
<1> SUFFICES ASSUME Inv, Watcher PROVE Inv'
  OBVIOUS
<1>1. CASE VersionPending
  <2>1. CASE StaleGroups = {}
    <3>1. /\ age' = Aged /\ wpc' = "update"
          /\ UNCHANGED <<groups, toSchedule, emitted, inflight, permits,
                         swaps, outVars, stale, wGroup, wLeft, dropped>>
          /\ UNCHANGED <<orchVars, opened, loopVars, version>>
          /\ version < MaxVersion /\ wpc = "idle"
      BY <1>1, <2>1, Zenon DEF VersionPending
    <3>2. age' \in [Rollouts -> Nat]
      BY <3>1, AgedFacts
    <3>3. TypeOK'
      BY <3>1, <3>2 DEF Inv, TypeOK, orchVars, loopVars, outVars
    <3>4. Flow'
      BY <3>1 DEF Inv, Flow, orchVars, loopVars
    <3>5. Tasks' /\ Plan'
      BY <3>1 DEF Inv, Tasks, Plan, Closed, loopVars
    <3>6. Permits'
      BY <3>1 DEF Inv, Permits, loopVars
    <3> QED
      BY <3>3, <3>4, <3>5, <3>6 DEF Inv
  <2>2. CASE StaleGroups # {}
    <3>1. PICK g \in StaleGroups : stale' = StaleGroups \ {g} /\ DropGroup(g, Aged)
      BY <1>1, <2>2, Zenon DEF VersionPending
    <3>2. /\ version < MaxVersion /\ UNCHANGED <<orchVars, opened, loopVars, version>>
      BY <1>1 DEF VersionPending
    <3>3. /\ g \in Live \cap opened /\ stale' \subseteq Live \cap opened
          /\ Aged \in [Rollouts -> Nat]
      BY <3>1, AgedFacts
    <3> QED
      BY <3>1, <3>2, <3>3, DropGroupInv
  <2> QED
    BY <2>1, <2>2
<1>2. ASSUME NEW g \in Groups, DropNext(g) PROVE Inv'
  <2>1. /\ wpc = "drop" /\ g \in stale /\ stale' = stale \ {g}
        /\ DropGroup(g, age)
        /\ UNCHANGED <<orchVars, opened, loopVars, version>>
    BY <1>2 DEF DropNext
  <2>2. /\ stale \subseteq Live \cap opened /\ age \in [Rollouts -> Nat]
        /\ version < MaxVersion
    BY <2>1 DEF Inv, TypeOK, Flow
  <2>3. g \in Live \cap opened /\ stale' \subseteq Live \cap opened
    BY <2>1, <2>2
  <2> QED
    BY <2>1, <2>2, <2>3, DropGroupInv
<1>3. CASE DropResumes
  <2>1. /\ wpc = "put" /\ outLen < OutCap
        /\ PutBurst(wGroup, wLeft) /\ wLeft' = wLeft - Sent(wLeft)
        /\ wpc' = (IF wLeft > Sent(wLeft) THEN "put" ELSE "drop")
        /\ wGroup' = (IF wLeft > Sent(wLeft) THEN wGroup ELSE NoGroup)
        /\ UNCHANGED <<orchVars, groupVars, taskVars, loopVars, stale,
                       version, dropped>>
    BY <1>3 DEF DropResumes
  <2>2. wGroup \in Groups /\ wGroup \in opened /\ wLeft \in Nat
    BY <2>1 DEF Inv, Flow, TypeOK
  <2>3. /\ Sent(wLeft) \in Nat /\ wLeft - Sent(wLeft) \in Nat
        /\ outLen' \in 0..OutCap /\ delivered' \in [Groups -> Nat]
    BY <2>1, <2>2, PutEffect
  <2>4. \/ wpc' = "put" /\ wGroup' = wGroup /\ wLeft' > 0
        \/ wpc' = "drop" /\ wGroup' = NoGroup
    BY <2>1, <2>2, <2>3
  <2>5. TypeOK'
    BY <2>1, <2>3, <2>4
       DEF Inv, TypeOK, orchVars, groupVars, taskVars, loopVars
  <2>6. Flow'
    BY <2>1, <2>2, <2>4 DEF Inv, Flow, orchVars, groupVars, loopVars
  <2>7. Tasks' /\ Plan'
    BY <2>1 DEF Inv, Tasks, Plan, Closed, groupVars, taskVars, loopVars
  <2>8. Permits'
    BY <2>1 DEF Inv, Permits, groupVars, taskVars, loopVars
  <2> QED
    BY <2>5, <2>6, <2>7, <2>8 DEF Inv
<1>4. CASE DropsEnd
  <2> USE <1>4 DEF DropsEnd, orchVars, groupVars, taskVars, loopVars, outVars
  <2>1. TypeOK'
    BY DEF Inv, TypeOK
  <2>2. Flow'
    BY DEF Inv, Flow
  <2>3. Tasks' /\ Plan'
    BY DEF Inv, Tasks, Plan, Closed
  <2>4. Permits'
    BY DEF Inv, Permits
  <2> QED
    BY <2>1, <2>2, <2>3, <2>4 DEF Inv
<1>5. CASE SwapWeights
  <2>1. UNCHANGED <<orchVars, groupVars, inflight, age, permits, loopVars,
                    stale, wGroup, wLeft, dropped, outVars>>
    BY <1>5 DEF SwapWeights
  <2>2. swaps' \in [Rollouts -> Nat]
    BY <1>5 DEF SwapWeights, Inv, TypeOK
  <2>3. version' \in 0..MaxVersion /\ wpc' = "idle" /\ wpc = "update"
    BY <1>5, BoundAssumption DEF SwapWeights, Inv, Flow, TypeOK
  <2>4. TypeOK'
    BY <2>1, <2>2, <2>3
       DEF Inv, TypeOK, orchVars, groupVars, loopVars, outVars
  <2>5. Flow'
    BY <2>1, <2>3 DEF Inv, Flow, orchVars, groupVars, loopVars
  <2>6. Tasks' /\ Plan'
    BY <2>1 DEF Inv, Tasks, Plan, Closed, groupVars, loopVars
  <2>7. Permits'
    BY <2>1 DEF Inv, Permits, groupVars, loopVars
  <2> QED
    BY <2>4, <2>5, <2>6, <2>7 DEF Inv
<1> QED
  BY <1>1, <1>2, <1>3, <1>4, <1>5 DEF Watcher


\* Steps of the main loop that touch neither tasks nor groups.
LEMMA OrchestratorMoves ==
    ASSUME Inv,
           UNCHANGED <<groupVars, taskVars, cur, batch, got, doneList, dLeft,
                       watchVars, delivered>>,
           pc' \in {pc, "stopped"},
           main' \in {"run", "drain", "drained", "stopping", "stopped"},
           mode' \in {"train", "eval"}, gate' \in BOOLEAN,
           disabled' \in BOOLEAN, evalQueue' \subseteq EvalGroups,
           evalQueue' \cap opened = {}, outLen' \in 0..OutCap
    PROVE  Inv'
<1>1. TypeOK'
  BY DEF Inv, TypeOK, groupVars, taskVars, watchVars
<1>2. Flow'
  BY DEF Inv, Flow, groupVars, watchVars
<1>3. Tasks' /\ Plan'
  BY DEF Inv, Tasks, Plan, Closed, groupVars, taskVars
<1>4. Permits'
  BY DEF Inv, Permits, groupVars, taskVars
<1> QED
  BY <1>1, <1>2, <1>3, <1>4 DEF Inv

\* The two cancels: tasks and groups go, the rest stays.
LEMMA CancelInv ==
    ASSUME Inv, NEW S \in SUBSET inflight, Closed(S), ClaimTasks(S, age),
           NEW G, PopGroups(G),
           main' \in {"run", "drain", "drained", "stopping", "stopped"},
           disabled' \in BOOLEAN,
           UNCHANGED <<mode, gate, evalQueue, opened, loopVars, watchVars,
                       outVars>>
    PROVE  Inv'
<1>1. age \in [Rollouts -> Nat]
  BY DEF Inv, TypeOK
<1>2. /\ Tasks' /\ Plan' /\ Permits'
      /\ inflight' \subseteq Rollouts /\ permits' \in Nat
      /\ age' \in [Rollouts -> Nat] /\ swaps' \in [Rollouts -> Nat]
      /\ groups' \subseteq groups
      /\ toSchedule' \in [Groups -> Nat] /\ emitted' \in [Groups -> Nat]
  BY <1>1, ReleaseInv
<1>3. TypeOK'
  BY <1>2 DEF Inv, TypeOK, loopVars, watchVars, outVars
<1>4. Flow'
  BY DEF Inv, Flow, loopVars, watchVars
<1> QED
  BY <1>2, <1>3, <1>4 DEF Inv

LEMMA OrchestratorInv == Inv /\ Orchestrator => Inv'
<1> SUFFICES ASSUME Inv, Orchestrator PROVE Inv'
  OBVIOUS
<1>1. /\ main \in {"run", "drain", "drained", "stopping", "stopped"}
      /\ mode \in {"train", "eval"} /\ gate \in BOOLEAN
      /\ disabled \in BOOLEAN /\ evalQueue \subseteq EvalGroups
      /\ evalQueue \cap opened = {} /\ outLen \in 0..OutCap
  BY DEF Inv, TypeOK, Flow
<1>2. ASSUME NEW S \in SUBSET EvalGroups, TriggerEval(S) PROVE Inv'
  BY <1>1, <1>2, OrchestratorMoves DEF TriggerEval, loopVars, outVars
<1>3. CASE OpenGate
  BY <1>1, <1>3, OrchestratorMoves DEF OpenGate, loopVars, outVars
<1>4. CASE Get
  <2>1. outLen' \in 0..OutCap
    BY <1>1, <1>4, BoundAssumption DEF Get, OutCap
  <2>2. gate' \in BOOLEAN
    BY <1>1, <1>4, Zenon DEF Get
  <2> QED
    BY <1>1, <1>4, <2>1, <2>2, OrchestratorMoves DEF Get, loopVars
<1>5. CASE Drain
  <2> DEFINE S == {r \in inflight : r[1] \in TrainGroups}
  <2>1. S \in SUBSET inflight /\ Closed(S)
    BY GroupClosed
  <2>2. /\ ClaimTasks(S, age) /\ PopGroups({r[1] : r \in S})
        /\ main' = "drain" /\ disabled' = TRUE
        /\ UNCHANGED <<mode, gate, evalQueue, opened, loopVars, watchVars,
                       outVars>>
    BY <1>5 DEF Drain
  <2> HIDE DEF S
  <2> QED
    BY <2>1, <2>2, CancelInv
<1>6. CASE Exit
  BY <1>1, <1>6, OrchestratorMoves DEF Exit, loopVars, outVars
<1>7. CASE Stop
  <2>1. Closed(inflight)
    BY DEF Inv, Tasks
  <2>2. /\ ClaimTasks(inflight, age) /\ PopGroups(groups)
        /\ main' = "stopping" /\ disabled' = disabled
        /\ UNCHANGED <<mode, gate, evalQueue, opened, loopVars, watchVars,
                       outVars>>
    BY <1>7 DEF Stop
  <2> QED
    BY <1>1, <2>1, <2>2, CancelInv
<1>8. CASE Kill
  BY <1>1, <1>8, OrchestratorMoves DEF Kill, outVars
<1> QED
  BY <1>2, <1>3, <1>4, <1>5, <1>6, <1>7, <1>8 DEF Orchestrator

LEMMA NextInv == Inv /\ [Next]_vars => Inv'
<1>1. Inv /\ UNCHANGED vars => Inv'
  <2> SUFFICES ASSUME Inv, UNCHANGED vars PROVE Inv'
    OBVIOUS
  <2> USE DEF vars, orchVars, groupVars, taskVars, loopVars, watchVars, outVars
  <2>1. TypeOK'
    BY DEF Inv, TypeOK
  <2>2. Flow'
    BY DEF Inv, Flow
  <2>3. Tasks' /\ Plan'
    BY DEF Inv, Tasks, Plan, Closed
  <2>4. Permits'
    BY DEF Inv, Permits
  <2> QED
    BY <2>1, <2>2, <2>3, <2>4 DEF Inv
<1> QED
  BY <1>1, LoopInv, WatcherInv, OrchestratorInv DEF Next

LEMMA Invariance == Spec => []Inv
BY InitInv, NextInv, PTL DEF Spec

-----------------------------------------------------------------------------
(* Theorems                                                                *)

\* Every variable keeps its type; in particular permits, outLen and the
\* counts of a group stay within their ranges across every interleaving.
THEOREM TypeCorrect == Spec => []TypeOK
<1>1. Inv => TypeOK
  BY DEF Inv
<1> QED
  BY <1>1, Invariance, PTL

\* The permit counter of acquire and release is exact, and never above
\* max_inflight_rollouts.
THEOREM PermitsCorrect == Spec => []PermitsExact
<1>1. Inv => PermitsExact
  BY DEF Inv, Permits, PermitsExact
<1> QED
  BY <1>1, Invariance, PTL

-----------------------------------------------------------------------------
(* Staleness                                                               *)

\* Between two updates every swap but the last has been counted in age; while
\* an update is coming all have been, and whoever is too old is in a group
\* still to be dropped.
Staleness ==
    /\ \A r \in Rollouts \ inflight : age[r] = 0 /\ swaps[r] = 0
    /\ \A r \in inflight : r[1] \in Live =>
         IF wpc = "idle"
         THEN swaps[r] <= age[r] + 1 /\ age[r] <= MaxOff
         ELSE /\ swaps[r] <= age[r] /\ age[r] <= MaxOff + 1
              /\ age[r] <= MaxOff \/ r[1] \in stale

\* Nothing is aged and no update moves: tasks leave or enter with age 0.
LEMMA StalenessQuiet ==
    ASSUME Inv, Staleness, UNCHANGED <<wpc, stale>>,
           inflight' \subseteq Rollouts,
           \A r \in Rollouts :
             IF r \in inflight /\ r \in inflight'
             THEN age'[r] = age[r] /\ swaps'[r] = swaps[r]
             ELSE age'[r] = 0 /\ swaps'[r] = 0
    PROVE  Staleness'
<1>1. inflight \subseteq Rollouts /\ MaxOff \in Nat
  BY BoundAssumption DEF Inv, TypeOK
<1>2. \A r \in Rollouts \ inflight' : age'[r] = 0 /\ swaps'[r] = 0
  OBVIOUS
<1>3. ASSUME NEW r \in inflight', r[1] \in Live
      PROVE  IF wpc' = "idle"
             THEN swaps'[r] <= age'[r] + 1 /\ age'[r] <= MaxOff
             ELSE /\ swaps'[r] <= age'[r] /\ age'[r] <= MaxOff + 1
                  /\ age'[r] <= MaxOff \/ r[1] \in stale'
  <2>1. CASE r \in inflight
    <3>1. age'[r] = age[r] /\ swaps'[r] = swaps[r]
      BY <1>3, <2>1
    <3> QED
      BY <1>3, <2>1, <3>1 DEF Staleness
  <2>2. CASE r \notin inflight
    <3>1. age'[r] = 0 /\ swaps'[r] = 0
      BY <1>3, <2>2
    <3> QED
      BY <1>1, <3>1
  <2> QED
    BY <2>1, <2>2
<1> QED
  BY <1>2, <1>3 DEF Staleness, Live

\* Tasks that are claimed are forgotten, the others keep their counts.
LEMMA ClaimQuiet ==
    ASSUME Inv, Staleness, NEW S \in SUBSET inflight, ClaimTasks(S, age),
           UNCHANGED <<wpc, stale>>
    PROVE  Staleness'
<1>1. /\ inflight' = inflight \ S /\ inflight \subseteq Rollouts
      /\ age' = [r \in Rollouts |-> IF r \in S THEN 0 ELSE age[r]]
      /\ swaps' = [r \in Rollouts |-> IF r \in S THEN 0 ELSE swaps[r]]
  BY DEF ClaimTasks, Inv, TypeOK
<1>2. \A r \in Rollouts \ inflight : age[r] = 0 /\ swaps[r] = 0
  BY DEF Staleness
<1>3. \A r \in Rollouts :
        IF r \in inflight /\ r \in inflight'
        THEN age'[r] = age[r] /\ swaps'[r] = swaps[r]
        ELSE age'[r] = 0 /\ swaps'[r] = 0
  BY <1>1, <1>2
<1> QED
  BY <1>1, <1>3, StalenessQuiet

\* A group dropped in an update takes its overaged rollouts along.
LEMMA DropStaleness ==
    ASSUME Inv, NEW g \in Live, NEW ages \in [Rollouts -> Nat],
           NEW Stale, g \in Stale,
           DropGroup(g, ages), stale' = Stale \ {g},
           \A r \in Rollouts \ inflight : ages[r] = 0 /\ swaps[r] = 0,
           \A r \in inflight : r[1] \in Live =>
             /\ swaps[r] <= ages[r] /\ ages[r] <= MaxOff + 1
             /\ ages[r] <= MaxOff \/ r[1] \in Stale
    PROVE  Staleness'
<1> DEFINE S == inflight \cap Members(g)
<1>1. /\ inflight' = inflight \ S /\ inflight \subseteq Rollouts
      /\ age' = [r \in Rollouts |-> IF r \in S THEN 0 ELSE ages[r]]
      /\ swaps' = [r \in Rollouts |-> IF r \in S THEN 0 ELSE swaps[r]]
      /\ wpc' \in {"put", "drop"}
  BY DEF DropGroup, ClaimTasks, Inv, TypeOK
<1>2. \A r \in inflight' : r[1] # g
  BY <1>1, MemberFacts DEF Live, Groups
<1>3. \A r \in Rollouts \ inflight' : age'[r] = 0 /\ swaps'[r] = 0
  BY <1>1
<1> HIDE DEF S
<1>4. \A r \in inflight' : age'[r] = ages[r] /\ swaps'[r] = swaps[r]
  BY <1>1
<1>5. ASSUME NEW r \in inflight', r[1] \in Live
      PROVE  /\ swaps'[r] <= age'[r] /\ age'[r] <= MaxOff + 1
             /\ age'[r] <= MaxOff \/ r[1] \in stale'
  BY <1>1, <1>2, <1>4, <1>5
<1> QED
  BY <1>1, <1>3, <1>5 DEF Staleness, Live

LEMMA WatcherStaleness == Inv /\ Staleness /\ Watcher => Staleness'
<1> SUFFICES ASSUME Inv, Staleness, Watcher PROVE Staleness'
  OBVIOUS
<1>1. /\ age \in [Rollouts -> Nat] /\ swaps \in [Rollouts -> Nat]
      /\ inflight \subseteq Rollouts /\ MaxOff \in Nat
      /\ \A r \in Rollouts \ inflight : age[r] = 0 /\ swaps[r] = 0
  BY BoundAssumption DEF Inv, TypeOK, Staleness
<1>2. CASE VersionPending
  <2>1. wpc = "idle"
    BY <1>2 DEF VersionPending
  <2>2. Aged \in [Rollouts -> Nat]
    BY AgedFacts
  <2>3. \A r \in Rollouts \ inflight : Aged[r] = 0 /\ swaps[r] = 0
    BY <1>1 DEF Aged, Ages
  <2>4. ASSUME NEW r \in inflight, r[1] \in Live
        PROVE  /\ swaps[r] <= Aged[r] /\ Aged[r] <= MaxOff + 1
               /\ Aged[r] <= MaxOff \/ r[1] \in StaleGroups
    <3>1. Aged[r] = age[r] + 1 /\ Ages(r) /\ r \in Rollouts
      BY <1>1, <2>4 DEF Aged, Ages
    <3>2. swaps[r] <= age[r] + 1 /\ age[r] <= MaxOff
      BY <2>1, <2>4 DEF Staleness
    <3>3. age[r] \in Nat /\ swaps[r] \in Nat
      BY <1>1, <3>1
    <3>4. Aged[r] <= MaxOff \/ Aged[r] > MaxOff
      BY <1>1, <3>1, <3>3
    <3>5. Aged[r] > MaxOff => r[1] \in StaleGroups
      BY <3>1 DEF StaleGroups
    <3> QED
      BY <1>1, <3>1, <3>2, <3>3, <3>4, <3>5
  <2>5. CASE StaleGroups = {}
    <3>1. /\ age' = Aged /\ wpc' = "update" /\ UNCHANGED <<inflight, swaps>>
      BY <1>2, <2>5, Zenon DEF VersionPending
    <3>2. \A r \in inflight : r[1] \in Live =>
            swaps[r] <= Aged[r] /\ Aged[r] <= MaxOff + 1 /\ Aged[r] <= MaxOff
      BY <2>4, <2>5
    <3> QED
      BY <2>3, <3>1, <3>2 DEF Staleness, Live
  <2>6. CASE StaleGroups # {}
    <3>1. PICK g \in StaleGroups : stale' = StaleGroups \ {g} /\ DropGroup(g, Aged)
      BY <1>2, <2>6, Zenon DEF VersionPending
    <3>2. g \in Live
      BY AgedFacts
    <3> QED
      BY <2>2, <2>3, <2>4, <3>1, <3>2, DropStaleness
  <2> QED
    BY <2>5, <2>6
<1>3. ASSUME NEW g \in Groups, DropNext(g) PROVE Staleness'
  <2>1. wpc = "drop" /\ g \in stale /\ stale' = stale \ {g} /\ DropGroup(g, age)
    BY <1>3 DEF DropNext
  <2>2. g \in Live
    BY <2>1 DEF Inv, TypeOK
  <2>3. \A r \in inflight : r[1] \in Live =>
          /\ swaps[r] <= age[r] /\ age[r] <= MaxOff + 1
          /\ age[r] <= MaxOff \/ r[1] \in stale
    BY <2>1 DEF Staleness
  <2> QED
    BY <1>1, <2>1, <2>2, <2>3, DropStaleness
<1>4. CASE DropResumes
  <2>1. /\ wpc = "put" /\ wpc' \in {"put", "drop"}
        /\ UNCHANGED <<inflight, age, swaps, stale>>
    BY <1>4 DEF DropResumes, taskVars
  <2> QED
    BY <2>1 DEF Staleness, Live
<1>5. CASE DropsEnd
  <2>1. wpc = "drop" /\ wpc' = "update" /\ UNCHANGED <<inflight, age, swaps, stale>>
    BY <1>5 DEF DropsEnd, taskVars
  <2> QED
    BY <2>1 DEF Staleness, Live
<1>6. CASE SwapWeights
  <2>1. /\ wpc = "update" /\ wpc' = "idle" /\ stale = {}
        /\ UNCHANGED <<inflight, age, stale>>
        /\ swaps' = [r \in Rollouts |-> IF Ages(r) THEN swaps[r] + 1 ELSE swaps[r]]
    BY <1>6 DEF SwapWeights, Inv, Flow
  <2>2. \A r \in Rollouts \ inflight : swaps'[r] = 0
    BY <1>1, <2>1 DEF Ages
  <2>3. ASSUME NEW r \in inflight, r[1] \in Live
        PROVE  swaps'[r] <= age[r] + 1 /\ age[r] <= MaxOff
    <3>1. swaps'[r] = swaps[r] + 1
      BY <1>1, <2>1, <2>3 DEF Ages
    <3>2. swaps[r] <= age[r] /\ age[r] <= MaxOff
      BY <2>1, <2>3 DEF Staleness
    <3> QED
      BY <1>1, <3>1, <3>2
  <2> QED
    BY <1>1, <2>1, <2>2, <2>3 DEF Staleness, Live
<1> QED
  BY <1>2, <1>3, <1>4, <1>5, <1>6 DEF Watcher

LEMMA NextStaleness == Inv /\ Staleness /\ [Next]_vars => Staleness'
<1> SUFFICES ASSUME Inv, Staleness, [Next]_vars PROVE Staleness'
  OBVIOUS
<1>1. CASE UNCHANGED <<inflight, age, swaps, wpc, stale>>
  BY <1>1 DEF Staleness, Live
<1>2. CASE Acquire
  <2>1. /\ UNCHANGED <<age, swaps, wpc, stale>>
        /\ inflight' \in {inflight, inflight \cup batch}
    BY <1>2, Zenon DEF Acquire, watchVars
  <2>2. /\ inflight \subseteq Rollouts /\ batch \subseteq Rollouts
        /\ \A r \in Rollouts \ inflight : age[r] = 0 /\ swaps[r] = 0
    BY DEF Inv, TypeOK, Staleness
  <2>3. \A r \in Rollouts :
          IF r \in inflight /\ r \in inflight'
          THEN age'[r] = age[r] /\ swaps'[r] = swaps[r]
          ELSE age'[r] = 0 /\ swaps'[r] = 0
    BY <2>1, <2>2
  <2> QED
    BY <2>1, <2>2, <2>3, StalenessQuiet
<1>3. ASSUME NEW r \in Rollouts, Handle(r) PROVE Staleness'
  <2>1. UNCHANGED <<wpc, stale>>
    BY <1>3 DEF Handle, watchVars
  <2>2. CASE r \in inflight
    <3>1. TaskOf(r) \subseteq inflight /\ ClaimTasks(TaskOf(r), age)
      BY <1>3, <2>2 DEF Handle, Inv, Tasks, Closed
    <3> QED
      BY <2>1, <3>1, ClaimQuiet
  <2>3. CASE r \notin inflight
    BY <1>1, <1>3, <2>1, <2>3 DEF Handle, taskVars
  <2> QED
    BY <2>2, <2>3
<1>4. CASE Drain
  <2> DEFINE S == {r \in inflight : r[1] \in TrainGroups}
  <2>1. ClaimTasks(S, age) /\ UNCHANGED <<wpc, stale>> /\ S \subseteq inflight
    BY <1>4 DEF Drain, watchVars
  <2> HIDE DEF S
  <2> QED
    BY <2>1, ClaimQuiet
<1>5. CASE Stop
  <2>1. ClaimTasks(inflight, age) /\ UNCHANGED <<wpc, stale>>
    BY <1>5 DEF Stop, watchVars
  <2> QED
    BY <2>1, ClaimQuiet
<1>6. CASE Pinned
  BY <1>1, <1>6 DEF Pinned, taskVars, watchVars
<1>7. CASE \/ FillReturns \/ FillFlips \/ FillStalls
           \/ \E g \in Groups : FillContinues(g) \/ FillOpens(g)
           \/ WaitTimesOut \/ \E D \in SUBSET inflight : Collect(D)
           \/ HandleResumes \/ HandleEnds
  BY <1>1, <1>7
     DEF FillReturns, FillFlips, FillStalls, FillContinues, FillOpens,
         WaitTimesOut, Collect, HandleResumes, HandleEnds, taskVars, watchVars
<1>8. CASE \/ \E S \in SUBSET EvalGroups : TriggerEval(S)
           \/ OpenGate \/ Get \/ Exit \/ Kill
  BY <1>1, <1>8
     DEF TriggerEval, OpenGate, Get, Exit, Kill, taskVars, watchVars
<1>9. CASE UNCHANGED vars
  BY <1>1, <1>9 DEF vars, taskVars, watchVars
<1> QED
  BY <1>2, <1>3, <1>4, <1>5, <1>6, <1>7, <1>8, <1>9, WatcherStaleness
     DEF Next, DispatchLoop, Orchestrator

\* A rollout in flight never lives through more than max_off_policy_steps + 1
\* weight swaps: on_version_pending ages before the swap, so only a swap in
\* progress when the rollout was dispatched goes uncounted.
THEOREM StalenessBounded == Spec => []OffPolicyBound
<1>1. Init => Staleness
  BY DEF Init, Staleness
<1>2. Inv /\ Staleness => OffPolicyBound
  <2> SUFFICES ASSUME Inv, Staleness, NEW r \in inflight, r[1] \in Live
               PROVE  swaps[r] <= MaxOff + 1
    BY DEF OffPolicyBound
  <2>1. /\ age[r] \in Nat /\ swaps[r] \in Nat /\ MaxOff \in Nat
    BY BoundAssumption DEF Inv, TypeOK
  <2>2. \/ swaps[r] <= age[r] + 1 /\ age[r] <= MaxOff
        \/ swaps[r] <= age[r] /\ age[r] <= MaxOff + 1
    BY DEF Staleness
  <2> QED
    BY <2>1, <2>2
<1>3. Inv /\ Staleness /\ [Next]_vars => Staleness'
  BY NextStaleness
<1> QED
  BY <1>1, <1>2, <1>3, Invariance, PTL DEF Spec

\* Only groups of the live policy are ever dropped by a weight update: eval
\* rollouts and those of a frozen model survive every one.
THEOREM MeasurementsKept == Spec => []MeasurementsSurvive
<1>1. Init => MeasurementsSurvive
  BY DEF Init, MeasurementsSurvive
<1>2. Inv /\ MeasurementsSurvive /\ [Next]_vars => MeasurementsSurvive'
  <2> SUFFICES ASSUME Inv, MeasurementsSurvive, [Next]_vars
               PROVE  MeasurementsSurvive'
    OBVIOUS
  <2>1. CASE dropped' = dropped
    BY <2>1 DEF MeasurementsSurvive, Live
  <2>2. CASE VersionPending
    <3>1. ASSUME NEW g \in StaleGroups, DropGroup(g, Aged)
          PROVE  MeasurementsSurvive'
      <4>1. g \in Live /\ dropped' \in {dropped, dropped \cup {g}}
        BY <3>1, AgedFacts DEF DropGroup
      <4> QED
        BY <4>1 DEF MeasurementsSurvive, Live
    <3> QED
      BY <2>1, <2>2, <3>1, Zenon DEF VersionPending
  <2>3. ASSUME NEW g \in Groups, DropNext(g) PROVE MeasurementsSurvive'
    <3>1. g \in Live /\ dropped' \in {dropped, dropped \cup {g}}
      BY <2>3 DEF DropNext, DropGroup, Inv, TypeOK
    <3> QED
      BY <3>1 DEF MeasurementsSurvive, Live
  <2>4. CASE DispatchLoop \/ Orchestrator
    BY <2>1, <2>4
       DEF DispatchLoop, FillReturns, FillFlips, FillStalls, FillContinues,
           FillOpens, Pinned, Acquire, WaitTimesOut, Collect, Handle,
           HandleResumes, HandleEnds, Orchestrator, TriggerEval, OpenGate,
           Get, Drain, Exit, Stop, Kill, watchVars
  <2>5. CASE DropResumes \/ DropsEnd \/ SwapWeights
    BY <2>1, <2>5 DEF DropResumes, DropsEnd, SwapWeights
  <2>6. CASE UNCHANGED vars
    BY <2>1, <2>6 DEF vars, watchVars
  <2> QED
    BY <2>2, <2>3, <2>4, <2>5, <2>6 DEF Next, Watcher
<1> QED
  BY <1>1, <1>2, Invariance, PTL DEF Spec

-----------------------------------------------------------------------------
(* One partly scheduled group of a kind                                    *)

\* Only the group whose client the loop awaits is a scored group with
\* anything left to schedule, so a partial group is always affordable.
ScoredAtOnce ==
    \A g \in groups \cap Scored :
        toSchedule[g] > 0 => pc = "stopped" \/ (pc = "pin" /\ cur = g)

\* The steps that open no group only take from what is to be scheduled.
LEMMA PartialShrinks ==
    ASSUME Inv, ScoredAtOnce, OnePartialGroup,
           \A g \in groups' : /\ g \in groups
                              /\ toSchedule'[g] \in Nat
                              /\ toSchedule'[g] <= toSchedule[g],
           \/ UNCHANGED <<pc, cur>>
           \/ pc # "pin" /\ pc # "stopped"
           \/ pc' = "stopped"
    PROVE  ScoredAtOnce' /\ OnePartialGroup'
<1>1. \A g \in groups' : /\ g \in groups
                         /\ toSchedule'[g] > 0 => toSchedule[g] > 0
  BY DEF Inv, TypeOK
<1>2. OnePartialGroup'
  BY <1>1 DEF OnePartialGroup
<1>3. ScoredAtOnce'
  BY <1>1 DEF ScoredAtOnce
<1> QED
  BY <1>2, <1>3

LEMMA NextPartial ==
    Inv /\ ScoredAtOnce /\ OnePartialGroup /\ [Next]_vars
        => ScoredAtOnce' /\ OnePartialGroup'
<1> SUFFICES ASSUME Inv, ScoredAtOnce, OnePartialGroup, [Next]_vars
             PROVE  ScoredAtOnce' /\ OnePartialGroup'
  OBVIOUS
<1>1. /\ groups \subseteq Groups /\ toSchedule \in [Groups -> Nat]
  BY DEF Inv, TypeOK
<1>2. CASE UNCHANGED <<groups, toSchedule>> /\ (UNCHANGED <<pc, cur>> \/ pc' = "stopped")
  BY <1>1, <1>2, PartialShrinks
<1>3. CASE UNCHANGED <<groups, toSchedule>> /\ pc # "pin" /\ pc # "stopped"
  BY <1>1, <1>3, PartialShrinks
<1>4. ASSUME NEW g \in Groups, FillOpens(g)
      PROVE  ScoredAtOnce' /\ OnePartialGroup'
  <2>1. /\ groups' = groups \cup {g} /\ pc = "fill" /\ Available > 0
        /\ toSchedule' = [toSchedule EXCEPT ![g] = Size[g]]
        /\ pc' = "pin" /\ cur' = g
        /\ \A h \in groups : ~Continuable(h)
        /\ g \in Kind
    BY <1>4 DEF FillOpens, MaySchedule, Fresh, Kind, Inv, TypeOK
  <2>2. ASSUME NEW h \in groups, h \in Kind PROVE toSchedule[h] = 0
    <3>1. toSchedule[h] \in Nat
      BY <1>1
    <3>2. h \in Scored => ~(toSchedule[h] > 0)
      BY <2>1 DEF ScoredAtOnce
    <3>3. h \notin Scored => Cost(h) <= Available
      BY <2>1, BoundAssumption DEF Cost, Available, Inv, TypeOK
    <3> QED
      BY <2>1, <2>2, <3>1, <3>2, <3>3 DEF Continuable
  <2>3. \A h \in groups' \ {g} : h \in groups /\ toSchedule'[h] = toSchedule[h]
    BY <1>1, <2>1
  <2>4. ScoredAtOnce'
    BY <2>1, <2>3 DEF ScoredAtOnce
  <2>5. ASSUME NEW h \in groups' \ {g}, toSchedule'[h] > 0,
               {g, h} \subseteq TrainGroups \/ {g, h} \subseteq EvalGroups
        PROVE  FALSE
    <3>1. h \in Kind
      BY <2>1, <2>5, GroupAssumption DEF Kind
    <3> QED
      BY <2>2, <2>3, <2>5, <3>1
  <2>6. OnePartialGroup'
    <3> SUFFICES ASSUME NEW a \in groups', NEW b \in groups',
                        toSchedule'[a] > 0, toSchedule'[b] > 0,
                        {a, b} \subseteq TrainGroups \/ {a, b} \subseteq EvalGroups
                 PROVE  a = b
      BY DEF OnePartialGroup
    <3>1. CASE a = g \/ b = g
      BY <2>5, <3>1
    <3>2. CASE a # g /\ b # g
      BY <2>3, <3>2 DEF OnePartialGroup
    <3> QED
      BY <3>1, <3>2
  <2> QED
    BY <2>4, <2>6
<1>5. ASSUME NEW g \in groups, Reserve(g), groups' = groups, toSchedule[g] > 0
      PROVE  /\ \A h \in groups : /\ toSchedule'[h] \in Nat
                                  /\ toSchedule'[h] <= toSchedule[h]
             /\ g \in Scored => toSchedule'[g] = 0
             /\ \A h \in groups \ {g} : toSchedule'[h] = toSchedule[h]
  BY <1>1, <1>5 DEF Reserve
<1>6. ASSUME NEW g \in Groups, FillContinues(g)
      PROVE  ScoredAtOnce' /\ OnePartialGroup'
  <2>1. /\ pc = "fill" /\ g \in groups /\ toSchedule[g] > 0 /\ Reserve(g)
        /\ groups' = groups
    BY <1>6 DEF FillContinues, MaySchedule, Continuable
  <2> QED
    BY <1>5, <2>1, PartialShrinks
<1>7. CASE Pinned
  <2>1. pc = "pin" /\ groups' = groups
    BY <1>7 DEF Pinned
  <2>2. CASE cur \in groups /\ Reserve(cur)
    <3>1. toSchedule[cur] > 0
      BY <2>1, <2>2, GroupFacts DEF Inv, TypeOK, Permits
    <3>2. /\ \A h \in groups : /\ toSchedule'[h] \in Nat
                               /\ toSchedule'[h] <= toSchedule[h]
          /\ cur \in Scored => toSchedule'[cur] = 0
          /\ \A h \in groups \ {cur} : toSchedule'[h] = toSchedule[h]
      BY <1>5, <2>1, <2>2, <3>1
    <3>3. \A h \in groups : toSchedule'[h] > 0 => toSchedule[h] > 0
      BY <1>1, <3>2
    <3>4. OnePartialGroup'
      BY <2>1, <3>3 DEF OnePartialGroup
    <3>5. ScoredAtOnce'
      BY <2>1, <3>2 DEF ScoredAtOnce
    <3> QED
      BY <3>4, <3>5
  <2>3. CASE cur \notin groups /\ UNCHANGED toSchedule
    BY <2>1, <2>3 DEF ScoredAtOnce, OnePartialGroup
  <2> QED
    BY <1>7, <2>2, <2>3 DEF Pinned
<1>8. ASSUME NEW G, PopGroups(G), UNCHANGED <<pc, cur>> \/ pc \notin {"pin", "stopped"}
      PROVE  ScoredAtOnce' /\ OnePartialGroup'
  <2>1. \A g \in groups' : /\ g \in groups /\ toSchedule'[g] \in Nat
                           /\ toSchedule'[g] <= toSchedule[g]
    BY <1>1, <1>8, PopEffect
  <2> QED
    BY <1>8, <2>1, PartialShrinks
<1>9. ASSUME NEW r \in Rollouts, Handle(r)
      PROVE  ScoredAtOnce' /\ OnePartialGroup'
  <2>1. pc = "handle"
    BY <1>9 DEF Handle
  <2>2. UNCHANGED <<groups, toSchedule>> \/ \E G : PopGroups(G)
    BY <1>9 DEF Handle, CountEmitted
  <2> QED
    BY <1>3, <1>8, <2>1, <2>2
<1>10. CASE HandleResumes
  <2>1. pc = "put"
    BY <1>10 DEF HandleResumes
  <2>2. UNCHANGED <<groups, toSchedule>> \/ \E G : PopGroups(G)
    BY <1>10 DEF HandleResumes, CountEmitted
  <2> QED
    BY <1>3, <1>8, <2>1, <2>2
<1>11. CASE Watcher
  <2>1. UNCHANGED <<pc, cur>>
    BY <1>11 DEF Watcher, VersionPending, DropNext, DropResumes, DropsEnd,
                 SwapWeights, loopVars
  <2>2. UNCHANGED <<groups, toSchedule>> \/ \E G : PopGroups(G)
    BY <1>11, Zenon DEF Watcher, VersionPending, DropNext, DropResumes, DropsEnd,
                 SwapWeights, DropGroup, groupVars
  <2> QED
    BY <1>2, <1>8, <2>1, <2>2
<1>12. CASE Drain \/ Stop
  <2>1. UNCHANGED <<pc, cur>> /\ \E G : PopGroups(G)
    BY <1>12 DEF Drain, Stop, loopVars
  <2> QED
    BY <1>8, <2>1
<1>13. CASE \/ FillReturns \/ FillFlips \/ FillStalls \/ Acquire
            \/ WaitTimesOut \/ (\E D \in SUBSET inflight : Collect(D))
            \/ HandleEnds
  BY <1>3, <1>13
     DEF FillReturns, FillFlips, FillStalls, MaySchedule, Acquire, WaitTimesOut,
         Collect, HandleEnds, groupVars
<1>14. CASE \/ (\E S \in SUBSET EvalGroups : TriggerEval(S))
            \/ OpenGate \/ Get \/ Exit \/ Kill
  BY <1>2, <1>14 DEF TriggerEval, OpenGate, Get, Exit, Kill, groupVars, loopVars
<1>15. CASE UNCHANGED vars
  BY <1>2, <1>15 DEF vars, groupVars, loopVars
<1> QED
  BY <1>4, <1>6, <1>7, <1>9, <1>10, <1>11, <1>12, <1>13, <1>14, <1>15
     DEF Next, DispatchLoop, Orchestrator

\* try_schedule never has two partly scheduled groups of one kind, whatever
\* mode flips, drops and cancels come between two of its calls.
THEOREM OnePartialCorrect == Spec => []OnePartialGroup
<1>1. Init => ScoredAtOnce /\ OnePartialGroup
  BY DEF Init, ScoredAtOnce, OnePartialGroup
<1>2. Inv /\ ScoredAtOnce /\ OnePartialGroup /\ [Next]_vars
          => ScoredAtOnce' /\ OnePartialGroup'
  BY NextPartial
<1> QED
  BY <1>1, <1>2, Invariance, PTL DEF Spec

-----------------------------------------------------------------------------
(* Accounting                                                              *)

Left(g) == Cardinality(inflight \cap Members(g))
LoopPut(g) == IF pc = "put" /\ cur = g THEN dLeft ELSE 0
WatchPut(g) == IF wpc = "put" /\ wGroup = g THEN wLeft ELSE 0

\* Where the rollouts of a group are: delivered, in flight, not scheduled,
\* being dispatched, or in a put that blocks.
Balance(g) ==
    delivered[g] + Left(g) + Unscheduled(g) + Dispatching(g)
        + LoopPut(g) + WatchPut(g)

\* Nothing of g has been given up.
Whole(g) ==
    \/ main = "run"
    \/ main \in {"drain", "drained"} /\ g \in EvalGroups

Balanced(g) == Balance(g) <= Size[g] /\ (Whole(g) => Balance(g) = Size[g])

\* emitted runs ahead of what is delivered by the put that blocks, and only
\* the loop's: the watcher pops the group before its first put.
Accounting ==
    /\ \A g \in Groups \ opened : delivered[g] = 0
    /\ \A g \in opened : Balanced(g)
    /\ pc # "stopped" => \A g \in groups :
         emitted[g] = delivered[g] + IF pc = "put" /\ cur = g THEN 1 ELSE 0
    /\ pc = "acquire" => batch \subseteq Members(cur)
    /\ wpc = "put" => wGroup \notin groups

LEMMA BalanceTypes ==
    ASSUME Inv, NEW g \in Groups
    PROVE  /\ delivered[g] \in Nat /\ Left(g) \in Nat
           /\ Unscheduled(g) \in Nat /\ Dispatching(g) \in Nat
           /\ LoopPut(g) \in Nat /\ WatchPut(g) \in Nat
           /\ emitted[g] \in Nat /\ toSchedule[g] \in Nat
           /\ Size[g] \in Nat
<1>1. IsFiniteSet(inflight \cap Members(g)) /\ IsFiniteSet(batch)
  BY FS_Subset DEF Inv, Tasks
<1>2. Left(g) \in Nat /\ Dispatching(g) \in Nat
  BY <1>1, FS_CardinalityType DEF Left, Dispatching
<1> QED
  BY <1>2, GroupFacts
     DEF Inv, TypeOK, Unscheduled, LoopPut, WatchPut

\* The steps that move no rollout.
LEMMA QuietAccounts ==
    ASSUME Inv, Accounting,
           UNCHANGED <<groupVars, inflight, delivered, batch, wLeft, wGroup>>,
           \/ UNCHANGED <<pc, cur, dLeft>>
           \/ /\ pc \notin {"acquire", "put", "stopped"}
              /\ pc' \notin {"acquire", "put"},
           wpc' = wpc \/ (wpc # "put" /\ wpc' # "put"),
           \/ main' = main
           \/ main = "drain" /\ main' = "drained"
    PROVE  Accounting'
<1>1. ASSUME NEW g \in Groups
      PROVE  /\ Left(g)' = Left(g) /\ Unscheduled(g)' = Unscheduled(g)
             /\ Dispatching(g)' = Dispatching(g) /\ LoopPut(g)' = LoopPut(g)
             /\ WatchPut(g)' = WatchPut(g)
             /\ (Whole(g)' => Whole(g))
  BY DEF Left, Unscheduled, Dispatching, LoopPut, WatchPut, Whole, Members,
         groupVars
<1>2. ASSUME NEW g \in opened PROVE Balanced(g)'
  <2>1. g \in Groups
    BY DEF Inv, TypeOK
  <2>2. Balance(g)' = Balance(g)
    BY <1>1, <2>1 DEF Balance
  <2> QED
    BY <1>1, <2>1, <2>2 DEF Accounting, Balanced
<1>3. pc' # "stopped" => \A g \in groups :
        emitted'[g] = delivered'[g] + IF pc' = "put" /\ cur' = g THEN 1 ELSE 0
  BY DEF Accounting, groupVars
<1>4. pc' = "acquire" => batch' \subseteq Members(cur')
  BY DEF Accounting
<1>5. wpc' = "put" => wGroup' \notin groups'
  BY DEF Accounting, groupVars
<1> QED
  BY <1>2, <1>3, <1>4, <1>5 DEF Accounting, groupVars, Members

\* schedule_group_rollout turns unscheduled rollouts into dispatched ones.
LEMMA ReserveAccounts ==
    ASSUME Inv, Accounting, pc \in {"fill", "pin"}, NEW g \in groups,
           toSchedule[g] > 0, Reserve(g),
           UNCHANGED <<orchVars, opened, groups, emitted, taskVars, watchVars,
                       outVars>>
    PROVE  Accounting'
<1>1. /\ cur' = g /\ pc' = "acquire" /\ batch' = NextBatch(g)
      /\ toSchedule' = [toSchedule EXCEPT
                          ![g] = IF g \in Scored THEN 0 ELSE @ - 1]
  BY DEF Reserve
<1>2. /\ NextBatch(g) \subseteq Members(g)
      /\ Cardinality(NextBatch(g)) = Cost(g)
  BY BatchEffect
<1>3. g \in opened /\ g \in Groups /\ toSchedule \in [Groups -> Nat]
  BY DEF Inv, TypeOK
<1>4. ASSUME NEW h \in opened PROVE Balanced(h)'
  <2>1. h \in Groups
    BY DEF Inv, TypeOK
  <2>2. /\ delivered'[h] = delivered[h] /\ Left(h)' = Left(h)
        /\ LoopPut(h)' = LoopPut(h) /\ WatchPut(h)' = WatchPut(h)
        /\ (Whole(h)' => Whole(h)) /\ Dispatching(h) = 0
    BY <1>1 DEF Left, LoopPut, WatchPut, Whole, Members, Dispatching, orchVars,
                taskVars, watchVars, outVars
  <2>3. /\ Unscheduled(h)' \in Nat /\ Dispatching(h)' \in Nat
        /\ Unscheduled(h)' + Dispatching(h)' = Unscheduled(h)
    <3>1. CASE h = g
      <4>1. Dispatching(h)' = Cost(g) /\ Unscheduled(h) = toSchedule[g]
        BY <1>1, <1>2, <3>1 DEF Dispatching, Unscheduled
      <4>2. Unscheduled(h)' = IF g \in Scored THEN 0 ELSE toSchedule[g] - 1
        BY <1>1, <1>3, <3>1 DEF Unscheduled
      <4>3. toSchedule[g] \in Nat
        BY <1>3
      <4> QED
        BY <4>1, <4>2, <4>3 DEF Cost
    <3>2. CASE h # g
      <4>1. Dispatching(h)' = 0 /\ Unscheduled(h)' = Unscheduled(h)
        BY <1>1, <1>3, <2>1, <3>2 DEF Dispatching, Unscheduled
      <4> QED
        BY <2>1, <4>1, BalanceTypes
    <3> QED
      BY <3>1, <3>2
  <2>5. Balance(h)' = Balance(h)
    BY <2>1, <2>2, <2>3, BalanceTypes DEF Balance
  <2> QED
    BY <2>2, <2>5 DEF Accounting, Balanced
<1> QED
  BY <1>1, <1>2, <1>3, <1>4 DEF Accounting, outVars, watchVars, Members

LEMMA OpenAccounts ==
    ASSUME Inv, Accounting, NEW g \in Groups, FillOpens(g)
    PROVE  Accounting'
<1>1. /\ opened' = opened \cup {g} /\ groups' = groups \cup {g}
      /\ toSchedule' = [toSchedule EXCEPT ![g] = Size[g]]
      /\ emitted' = [emitted EXCEPT ![g] = 0]
      /\ pc' = "pin" /\ pc = "fill"
      /\ UNCHANGED <<main, taskVars, batch, watchVars, outVars>>
  BY DEF FillOpens, MaySchedule
<1>2. /\ g \notin opened /\ groups \subseteq opened
      /\ toSchedule \in [Groups -> Nat] /\ emitted \in [Groups -> Nat]
      /\ wpc = "put" => wGroup \in opened
      /\ \A r \in inflight : r[1] \in opened
  BY DEF FillOpens, Fresh, Inv, Flow, TypeOK, Tasks
<1>3. ASSUME NEW h \in opened' PROVE Balanced(h)'
  <2>1. h \in Groups
    BY <1>1 DEF Inv, TypeOK
  <2>2. /\ delivered'[h] = delivered[h] /\ Left(h)' = Left(h)
        /\ WatchPut(h)' = WatchPut(h)
        /\ Dispatching(h)' = 0 /\ Dispatching(h) = 0
        /\ LoopPut(h)' = 0 /\ LoopPut(h) = 0
        /\ (Whole(h)' => Whole(h))
    BY <1>1 DEF Left, LoopPut, WatchPut, Dispatching, Whole, Members, taskVars,
                watchVars, outVars
  <2>3. CASE h = g
    <3>1. delivered[h] = 0
      BY <1>2, <2>1, <2>3 DEF Accounting
    <3>2. Left(h) = 0
      <4>1. inflight \cap Members(h) = {}
        BY <1>2, <2>1, <2>3, MemberFacts
      <4> QED
        BY <4>1, FS_EmptySet DEF Left
    <3>3. WatchPut(h) = 0
      BY <1>2, <2>3 DEF WatchPut
    <3>4. Unscheduled(h)' = Size[h]
      BY <1>1, <1>2, <2>1, <2>3 DEF Unscheduled
    <3>5. Balance(h)' = Size[h]
      BY <2>1, <2>2, <3>1, <3>2, <3>3, <3>4, BalanceTypes DEF Balance
    <3> QED
      BY <2>1, <3>5, BalanceTypes DEF Balanced
  <2>4. CASE h # g
    <3>1. Unscheduled(h)' = Unscheduled(h)
      BY <1>1, <1>2, <2>1, <2>4 DEF Unscheduled
    <3>2. Balance(h)' = Balance(h)
      BY <2>2, <3>1 DEF Balance
    <3> QED
      BY <1>1, <2>2, <2>4, <3>2 DEF Accounting, Balanced
  <2> QED
    BY <2>3, <2>4
<1>4. ASSUME NEW h \in groups'
      PROVE  emitted'[h] = delivered'[h]
  <2>1. h \in Groups
    BY <1>1 DEF Inv, TypeOK
  <2>2. CASE h = g
    <3>1. delivered[h] = 0
      BY <1>2, <2>1, <2>2 DEF Accounting
    <3> QED
      BY <1>1, <1>2, <2>1, <2>2, <3>1 DEF outVars
  <2>3. CASE h # g
    <3>1. emitted[h] = delivered[h] + 0
      BY <1>1, <1>4, <2>3 DEF Accounting
    <3> QED
      BY <1>1, <1>2, <2>1, <2>3, <3>1, BalanceTypes DEF outVars
  <2> QED
    BY <2>2, <2>3
<1>5. \A h \in Groups : delivered'[h] + 0 = delivered'[h]
  BY <1>1, BalanceTypes DEF outVars
<1>6. \A h \in groups' : h \in Groups
  BY <1>1 DEF Inv, TypeOK
<1> QED
  BY <1>1, <1>2, <1>3, <1>4, <1>5, <1>6 DEF Accounting, outVars, watchVars

LEMMA AcquireAccounts ==
    ASSUME Inv, Accounting, Acquire
    PROVE  Accounting'
<1>1. /\ pc = "acquire"
      /\ UNCHANGED <<main, groupVars, watchVars, outVars, dLeft>>
  BY DEF Acquire, orchVars
<1>2. CASE UNCHANGED <<pc, cur, batch, inflight>>
  BY <1>1, <1>2, QuietAccounts DEF watchVars, outVars
<1>3. CASE inflight' = inflight \cup batch /\ batch' = {} /\ pc' = "fill"
  <2>1. /\ IsFiniteSet(inflight) /\ IsFiniteSet(batch)
        /\ inflight \cap batch = {} /\ batch \subseteq Members(cur)
        /\ cur \in Groups
    BY <1>1 DEF Inv, Tasks, Flow, TypeOK, Accounting
  <2>2. ASSUME NEW h \in opened PROVE Balanced(h)'
    <3>1. h \in Groups
      BY DEF Inv, TypeOK
    <3>2. /\ delivered'[h] = delivered[h] /\ Unscheduled(h)' = Unscheduled(h)
          /\ WatchPut(h)' = WatchPut(h)
          /\ Dispatching(h)' = 0 /\ LoopPut(h)' = 0 /\ LoopPut(h) = 0
          /\ (Whole(h)' => Whole(h))
      BY <1>1, <1>3 DEF Unscheduled, LoopPut, WatchPut, Dispatching, Whole,
                        groupVars, watchVars, outVars
    <3>3. Left(h)' = Left(h) + Dispatching(h)
      <4>1. CASE h = cur
        <5>1. inflight' \cap Members(h) = (inflight \cap Members(h)) \cup batch
          BY <1>3, <2>1, <4>1
        <5>2. (inflight \cap Members(h)) \cap batch = {}
          BY <2>1
        <5>3. IsFiniteSet(inflight \cap Members(h))
          BY <2>1, FS_Subset
        <5>4. Cardinality((inflight \cap Members(h)) \cup batch)
                = Left(h) + Cardinality(batch) - 0
          BY <2>1, <5>2, <5>3, FS_Union, FS_EmptySet DEF Left
        <5>5. Left(h)' = Cardinality((inflight \cap Members(h)) \cup batch)
          BY <5>1 DEF Left, Members
        <5>6. Dispatching(h) = Cardinality(batch)
          BY <1>1, <4>1 DEF Dispatching
        <5>7. Left(h) + Cardinality(batch) - 0 = Left(h) + Dispatching(h)
          BY <3>1, <5>6, BalanceTypes
        <5> QED
          BY <5>4, <5>5, <5>7
      <4>2. CASE h # cur
        <5>1. inflight' \cap Members(h) = inflight \cap Members(h)
          BY <1>3, <2>1, <3>1, <4>2, MemberFacts
        <5>2. Left(h)' = Left(h) /\ Dispatching(h) = 0
          BY <1>1, <4>2, <5>1 DEF Left, Members, Dispatching
        <5> QED
          BY <3>1, <5>2, BalanceTypes
      <4> QED
        BY <4>1, <4>2
    <3>4. Balance(h)' = Balance(h)
      BY <3>1, <3>2, <3>3, BalanceTypes DEF Balance
    <3> QED
      BY <3>2, <3>4 DEF Accounting, Balanced
  <2>3. \A h \in groups : emitted'[h] = delivered'[h] + 0
    BY <1>1 DEF Accounting, groupVars, outVars
  <2> QED
    BY <1>1, <1>3, <2>2, <2>3
       DEF Accounting, groupVars, outVars, watchVars
<1> QED
  BY <1>2, <1>3, Zenon DEF Acquire

\* emit_rollout pops a group only when nothing of it is left to schedule.
LEMMA CountAccounts ==
    ASSUME Inv, NEW g \in Groups, NEW k \in Nat, CountEmitted(g, k),
           g \in groups => emitted[g] + k + toSchedule[g] <= Size[g]
    PROVE  /\ groups' \subseteq groups
           /\ \A h \in Groups :
                (IF h \in groups' THEN toSchedule'[h] ELSE 0) = Unscheduled(h)
           /\ g \in groups' => emitted'[g] = emitted[g] + k
           /\ \A h \in groups' \ {g} : emitted'[h] = emitted[h]
<1>1. /\ emitted \in [Groups -> Nat] /\ toSchedule \in [Groups -> Nat]
      /\ groups \subseteq Groups /\ Size[g] \in Nat
  BY GroupFacts DEF Inv, TypeOK
<1>2. CASE g \notin groups
  BY <1>1, <1>2 DEF CountEmitted, Unscheduled
<1>3. CASE g \in groups /\ emitted[g] + k >= Size[g]
  <2>1. groups' = groups \ {g}
    BY <1>3 DEF CountEmitted, PopGroups
  <2>2. toSchedule[g] = 0
    BY <1>1, <1>3
  <2>3. \A h \in Groups \ {g} : toSchedule'[h] = toSchedule[h] /\ emitted'[h] = emitted[h]
    BY <1>1, <1>3 DEF CountEmitted, PopGroups
  <2> QED
    BY <1>1, <2>1, <2>2, <2>3 DEF Unscheduled
<1>4. CASE g \in groups /\ ~(emitted[g] + k >= Size[g])
  BY <1>1, <1>4 DEF CountEmitted, Unscheduled
<1> QED
  BY <1>2, <1>3, <1>4


\* What is in flight of a group when a set of its rollouts leaves, and what
\* is in flight of the others.
LEMMA ClaimLeft ==
    ASSUME Inv, NEW g \in Groups, NEW S \in SUBSET (inflight \cap Members(g)),
           inflight' = inflight \ S, NEW h \in Groups
    PROVE  /\ Cardinality(S) \in Nat
           /\ Left(h)' = IF h = g THEN Left(g) - Cardinality(S) ELSE Left(h)
           /\ Cardinality(S) <= Left(g)
<1>1. IsFiniteSet(inflight \cap Members(g)) /\ IsFiniteSet(S)
  BY FS_Subset DEF Inv, Tasks
<1>2. Cardinality(S) \in Nat /\ Cardinality(S) <= Left(g)
  BY <1>1, FS_CardinalityType, FS_Subset DEF Left
<1>3. CASE h = g
  <2> DEFINE I == inflight \cap Members(g)
  <2>1. inflight' \cap Members(g) = I \ S
    OBVIOUS
  <2>2. I \cap S = S /\ IsFiniteSet(I)
    BY <1>1
  <2> HIDE DEF I
  <2>3. Cardinality(I \ S) = Cardinality(I) - Cardinality(S)
    BY <2>2, FS_Difference
  <2>4. Left(h)' = Cardinality(I \ S)
    BY <1>3, <2>1 DEF Left, Members
  <2>5. Left(g) = Cardinality(I)
    BY DEF Left, I
  <2> QED
    BY <1>2, <1>3, <2>3, <2>4, <2>5
<1>4. CASE h # g
  <2>1. inflight' \cap Members(h) = inflight \cap Members(h)
    BY <1>4, MemberFacts
  <2>2. Left(h)' = Left(h)
    BY <2>1 DEF Left, Members
  <2> QED
    BY <1>2, <1>4, <2>2
<1> QED
  BY <1>3, <1>4

\* A completed task: in flight becomes delivered, or waits in the loop's put.
LEMMA HandleAccounts ==
    ASSUME Inv, Accounting, NEW r \in Rollouts, Handle(r), r \in inflight
    PROVE  Accounting'
<1> DEFINE g == r[1]
           n == Cardinality(TaskOf(r))
           k == Sent(n) + Blocked(n - Sent(n))
<1>1. /\ pc = "handle" /\ inflight' = inflight \ TaskOf(r)
      /\ PutBurst(g, n) /\ CountEmitted(g, k)
      /\ dLeft' = n - Sent(n)
      /\ pc' = (IF n > Sent(n) THEN "put" ELSE "handle")
      /\ cur' = (IF n > Sent(n) THEN g ELSE NoGroup)
      /\ UNCHANGED <<orchVars, opened, batch, got, watchVars>>
  BY DEF Handle, ClaimTasks
<1>2. /\ g \in Groups /\ g \in opened
      /\ TaskOf(r) \in SUBSET (inflight \cap Members(g))
  BY RolloutFacts DEF Inv, Tasks, Closed
<1>3. n \in Nat
  BY TaskCardinality
<1>4. \A h \in Groups :
        Left(h)' = IF h = g THEN Left(g) - n ELSE Left(h)
  <2> DEFINE S == TaskOf(r)
  <2>1. inflight' = inflight \ S /\ S \in SUBSET (inflight \cap Members(g))
    BY <1>1, <1>2
  <2> HIDE DEF S, g
  <2>2. \A h \in Groups :
          Left(h)' = IF h = g THEN Left(g) - Cardinality(S) ELSE Left(h)
    BY <1>2, <2>1, ClaimLeft
  <2> QED
    BY <2>2 DEF S
<1>5. n <= Left(g)
  <2>1. IsFiniteSet(inflight \cap Members(g))
    BY FS_Subset DEF Inv, Tasks
  <2> QED
    BY <1>2, <2>1, FS_Subset DEF Left
<1> HIDE DEF g, n
<1>6. /\ Sent(n) \in Nat /\ n - Sent(n) \in Nat
      /\ delivered' = [delivered EXCEPT ![g] = @ + Sent(n)]
      /\ delivered \in [Groups -> Nat]
  BY <1>1, <1>2, <1>3, PutEffect DEF PutBurst, Inv, TypeOK
<1>7. k \in Nat /\ k <= n
  BY <1>3, <1>6 DEF Blocked
<1>8. /\ Balance(g) <= Size[g] /\ Dispatching(g) = 0 /\ LoopPut(g) = 0
      /\ g \in groups => emitted[g] = delivered[g] + 0
  BY <1>1, <1>2 DEF Accounting, Balanced, Dispatching, LoopPut
<1>9. g \in groups => emitted[g] + k + toSchedule[g] <= Size[g]
  <2> SUFFICES ASSUME g \in groups
               PROVE  emitted[g] + k + toSchedule[g] <= Size[g]
    OBVIOUS
  <2>1. Unscheduled(g) = toSchedule[g]
    BY DEF Unscheduled
  <2>2. delivered[g] + Left(g) + Unscheduled(g) <= Size[g]
    BY <1>2, <1>8, BalanceTypes DEF Balance
  <2> HIDE DEF k
  <2> QED
    BY <1>2, <1>3, <1>5, <1>7, <1>8, <2>1, <2>2, BalanceTypes
<1>10. /\ groups' \subseteq groups
       /\ \A h \in Groups :
            (IF h \in groups' THEN toSchedule'[h] ELSE 0) = Unscheduled(h)
       /\ g \in groups' => emitted'[g] = emitted[g] + k
       /\ \A h \in groups' \ {g} : emitted'[h] = emitted[h]
  <2> HIDE DEF k
  <2> QED
    BY <1>1, <1>2, <1>7, <1>9, CountAccounts
<1>11. ASSUME NEW h \in opened PROVE Balanced(h)'
  <2>1. h \in Groups
    BY DEF Inv, TypeOK
  <2>2. /\ Unscheduled(h)' = Unscheduled(h) /\ WatchPut(h)' = WatchPut(h)
        /\ Dispatching(h)' = 0 /\ Dispatching(h) = 0 /\ LoopPut(h) = 0
        /\ (Whole(h)' => Whole(h))
    BY <1>1, <1>10, <2>1
       DEF Unscheduled, WatchPut, Dispatching, LoopPut, Whole, orchVars, watchVars
  <2>3. CASE h = g
    <3>1. /\ Left(h)' = Left(h) - n /\ delivered'[h] = delivered[h] + Sent(n)
          /\ LoopPut(h)' = n - Sent(n)
      BY <1>1, <1>3, <1>4, <1>6, <2>1, <2>3 DEF LoopPut
    <3>2. Balance(h)' = Balance(h)
      BY <1>3, <1>6, <2>1, <2>2, <3>1, BalanceTypes DEF Balance
    <3> QED
      BY <2>2, <3>2 DEF Accounting, Balanced
  <2>4. CASE h # g
    <3>1. /\ Left(h)' = Left(h) /\ delivered'[h] = delivered[h]
          /\ LoopPut(h)' = 0
      BY <1>1, <1>4, <1>6, <2>1, <2>4 DEF LoopPut
    <3>2. Balance(h)' = Balance(h)
      BY <2>2, <3>1 DEF Balance
    <3> QED
      BY <2>2, <3>2 DEF Accounting, Balanced
  <2> QED
    BY <2>3, <2>4
<1>12. ASSUME NEW h \in groups'
       PROVE  emitted'[h] = delivered'[h] + IF pc' = "put" /\ cur' = h THEN 1 ELSE 0
  <2>1. h \in groups /\ h \in Groups
    BY <1>10 DEF Inv, TypeOK
  <2>2. emitted[h] = delivered[h]
    <3>1. emitted[h] = delivered[h] + 0
      BY <1>1, <2>1 DEF Accounting
    <3> QED
      BY <2>1, <3>1, BalanceTypes
  <2>3. CASE h = g
    <3>1. emitted'[h] = delivered[h] + (Sent(n) + Blocked(n - Sent(n)))
      BY <1>10, <1>12, <2>2, <2>3
    <3>2. delivered'[h] = delivered[h] + Sent(n)
      BY <1>2, <1>6, <2>3
    <3>3. Blocked(n - Sent(n)) = IF pc' = "put" /\ cur' = h THEN 1 ELSE 0
      BY <1>1, <1>3, <1>6, <2>3 DEF Blocked
    <3> QED
      BY <1>6, <2>1, <3>1, <3>2, <3>3, BalanceTypes
  <2>4. CASE h # g
    <3>1. emitted'[h] = delivered[h] /\ delivered'[h] = delivered[h]
      BY <1>6, <1>10, <1>12, <2>1, <2>2, <2>4
    <3>2. ~(pc' = "put" /\ cur' = h)
      BY <1>1, <2>4
    <3> QED
      BY <2>1, <3>1, <3>2, BalanceTypes
  <2> QED
    BY <2>3, <2>4
<1>13. \A h \in Groups \ opened : delivered'[h] = 0
  BY <1>2, <1>6 DEF Accounting
<1>14. pc' # "acquire"
  BY <1>1
<1> QED
  BY <1>1, <1>10, <1>11, <1>12, <1>13, <1>14 DEF Accounting, watchVars

\* The loop's put that blocked: what is left becomes delivered or waits on.
LEMMA ResumeAccounts ==
    ASSUME Inv, Accounting, HandleResumes
    PROVE  Accounting'
<1> DEFINE k == Sent(dLeft) + Blocked(dLeft - Sent(dLeft)) - 1
<1>1. /\ pc = "put" /\ outLen < OutCap
      /\ PutBurst(cur, dLeft) /\ CountEmitted(cur, k)
      /\ dLeft' = dLeft - Sent(dLeft)
      /\ pc' = (IF dLeft > Sent(dLeft) THEN "put" ELSE "handle")
      /\ cur' = (IF dLeft > Sent(dLeft) THEN cur ELSE NoGroup)
      /\ UNCHANGED <<orchVars, opened, taskVars, batch, watchVars>>
  BY DEF HandleResumes
<1>2. cur \in Groups /\ cur \in opened /\ dLeft \in Nat /\ dLeft > 0
  BY <1>1 DEF Inv, Flow, TypeOK
<1>3. /\ Sent(dLeft) \in Nat /\ dLeft - Sent(dLeft) \in Nat /\ Sent(dLeft) > 0
      /\ delivered' = [delivered EXCEPT ![cur] = @ + Sent(dLeft)]
      /\ delivered \in [Groups -> Nat]
  BY <1>1, <1>2, PutEffect DEF PutBurst, Inv, TypeOK
<1>4. k \in Nat /\ k + 1 <= dLeft
  BY <1>2, <1>3 DEF Blocked
<1>5. /\ Balance(cur) <= Size[cur] /\ LoopPut(cur) = dLeft
      /\ cur \in groups => emitted[cur] = delivered[cur] + 1
  BY <1>1, <1>2 DEF Accounting, Balanced, LoopPut
<1>6. cur \in groups => emitted[cur] + k + toSchedule[cur] <= Size[cur]
  <2> SUFFICES ASSUME cur \in groups
               PROVE  emitted[cur] + k + toSchedule[cur] <= Size[cur]
    OBVIOUS
  <2>1. Unscheduled(cur) = toSchedule[cur]
    BY DEF Unscheduled
  <2>2. delivered[cur] + dLeft + Unscheduled(cur) <= Size[cur]
    BY <1>2, <1>5, BalanceTypes DEF Balance
  <2> HIDE DEF k
  <2> QED
    BY <1>2, <1>4, <1>5, <2>1, <2>2, BalanceTypes
<1>7. /\ groups' \subseteq groups
      /\ \A h \in Groups :
           (IF h \in groups' THEN toSchedule'[h] ELSE 0) = Unscheduled(h)
      /\ cur \in groups' => emitted'[cur] = emitted[cur] + k
      /\ \A h \in groups' \ {cur} : emitted'[h] = emitted[h]
  <2> HIDE DEF k
  <2> QED
    BY <1>1, <1>2, <1>4, <1>6, CountAccounts
<1>8. ASSUME NEW h \in opened PROVE Balanced(h)'
  <2>1. h \in Groups
    BY DEF Inv, TypeOK
  <2>2. /\ Unscheduled(h)' = Unscheduled(h) /\ WatchPut(h)' = WatchPut(h)
        /\ Dispatching(h)' = 0 /\ Dispatching(h) = 0
        /\ Left(h)' = Left(h) /\ (Whole(h)' => Whole(h))
    BY <1>1, <1>7, <2>1
       DEF Unscheduled, WatchPut, Dispatching, Left, Members, Whole, orchVars,
           taskVars, watchVars
  <2>3. CASE h = cur
    <3>1. /\ delivered'[h] = delivered[h] + Sent(dLeft)
          /\ LoopPut(h)' = dLeft - Sent(dLeft) /\ LoopPut(h) = dLeft
      BY <1>1, <1>2, <1>3, <2>1, <2>3 DEF LoopPut
    <3>2. Balance(h)' = Balance(h)
      BY <1>2, <1>3, <2>1, <2>2, <3>1, BalanceTypes DEF Balance
    <3> QED
      BY <2>2, <3>2 DEF Accounting, Balanced
  <2>4. CASE h # cur
    <3>1. /\ delivered'[h] = delivered[h]
          /\ LoopPut(h)' = 0 /\ LoopPut(h) = 0
      BY <1>1, <1>3, <2>1, <2>4 DEF LoopPut
    <3>2. Balance(h)' = Balance(h)
      BY <2>2, <3>1 DEF Balance
    <3> QED
      BY <2>2, <3>2 DEF Accounting, Balanced
  <2> QED
    BY <2>3, <2>4
<1>9. ASSUME NEW h \in groups'
      PROVE  emitted'[h] = delivered'[h] + IF pc' = "put" /\ cur' = h THEN 1 ELSE 0
  <2>1. h \in groups /\ h \in Groups
    BY <1>7 DEF Inv, TypeOK
  <2>2. CASE h = cur
    <3>1. emitted'[h] = delivered[h] + 1 + k
      BY <1>5, <1>7, <1>9, <2>2, <2>1
    <3>2. delivered'[h] = delivered[h] + Sent(dLeft)
      BY <1>2, <1>3, <2>2
    <3>3. Blocked(dLeft - Sent(dLeft)) = IF pc' = "put" /\ cur' = h THEN 1 ELSE 0
      BY <1>1, <1>2, <1>3, <2>2 DEF Blocked
    <3>4. Blocked(dLeft - Sent(dLeft)) \in Nat /\ delivered[h] \in Nat
      BY <2>1, BalanceTypes DEF Blocked
    <3>5. delivered[h] + 1 + k
            = delivered[h] + Sent(dLeft) + Blocked(dLeft - Sent(dLeft))
      BY <1>3, <3>4
    <3> QED
      BY <3>1, <3>2, <3>3, <3>5
  <2>3. CASE h # cur
    <3>1. emitted[h] = delivered[h] + 0
      BY <1>1, <2>1, <2>3 DEF Accounting
    <3>2. emitted'[h] = emitted[h] /\ delivered'[h] = delivered[h]
      BY <1>3, <1>7, <1>9, <2>1, <2>3
    <3>3. ~(pc' = "put" /\ cur' = h)
      BY <1>1, <2>3
    <3> QED
      BY <3>1, <3>2, <3>3
  <2> QED
    BY <2>2, <2>3
<1>10. \A h \in Groups \ opened : delivered'[h] = 0
  BY <1>2, <1>3 DEF Accounting
<1>11. pc' # "acquire"
  BY <1>1
<1> QED
  BY <1>1, <1>7, <1>8, <1>9, <1>10, <1>11 DEF Accounting, watchVars


\* drop_group: what the group still has becomes markers.
LEMMA DropAccounts ==
    ASSUME Inv, Accounting, NEW g \in Groups, g \in opened, wpc # "put",
           NEW ages, DropGroup(g, ages),
           UNCHANGED <<main, opened, loopVars>>
    PROVE  Accounting'
<1> DEFINE n == Markers(g)
           S == inflight \cap Members(g)
<1>1. /\ inflight' = inflight \ S
      /\ groups' = groups \ {g}
      /\ toSchedule' = [h \in Groups |-> IF h \in {g} THEN 0 ELSE toSchedule[h]]
      /\ emitted' = [h \in Groups |-> IF h \in {g} THEN 0 ELSE emitted[h]]
      /\ PutBurst(g, n) /\ wLeft' = n - Sent(n)
      /\ wpc' = (IF n > Sent(n) THEN "put" ELSE "drop")
      /\ wGroup' = (IF n > Sent(n) THEN g ELSE NoGroup)
  BY DEF DropGroup, ClaimTasks, PopGroups
<1>2. n = Left(g) + Unscheduled(g)
  BY DEF Markers, Left, Unscheduled
<1>3. n \in Nat
  BY <1>2, BalanceTypes
<1>4. /\ Left(g)' = 0
      /\ \A h \in Groups \ {g} : Left(h)' = Left(h)
  <2>1. S \in SUBSET (inflight \cap Members(g)) /\ Cardinality(S) = Left(g)
    BY DEF Left
  <2> HIDE DEF S
  <2>2. \A h \in Groups :
          Left(h)' = IF h = g THEN Left(g) - Cardinality(S) ELSE Left(h)
    BY <1>1, <2>1, ClaimLeft
  <2> QED
    BY <2>1, <2>2, BalanceTypes
<1> HIDE DEF n, S
<1>5. /\ Sent(n) \in Nat /\ n - Sent(n) \in Nat
      /\ delivered' = [delivered EXCEPT ![g] = @ + Sent(n)]
      /\ delivered \in [Groups -> Nat]
  BY <1>1, <1>3, PutEffect DEF PutBurst, Inv, TypeOK
<1>6. ASSUME NEW h \in opened PROVE Balanced(h)'
  <2>1. h \in Groups
    BY DEF Inv, TypeOK
  <2>2. /\ Dispatching(h)' = Dispatching(h) /\ LoopPut(h)' = LoopPut(h)
        /\ WatchPut(h) = 0 /\ (Whole(h)' => Whole(h))
    BY DEF Dispatching, LoopPut, WatchPut, Whole, loopVars
  <2>3. CASE h = g
    <3>1. /\ delivered'[h] = delivered[h] + Sent(n) /\ Left(h)' = 0
          /\ Unscheduled(h)' = 0 /\ WatchPut(h)' = n - Sent(n)
      BY <1>1, <1>3, <1>4, <1>5, <2>1, <2>3 DEF Unscheduled, WatchPut
    <3>2. Balance(h)' = Balance(h)
      BY <1>2, <1>3, <1>5, <2>1, <2>2, <2>3, <3>1, BalanceTypes DEF Balance
    <3> QED
      BY <2>2, <3>2 DEF Accounting, Balanced
  <2>4. CASE h # g
    <3>1. /\ delivered'[h] = delivered[h] /\ Left(h)' = Left(h)
          /\ Unscheduled(h)' = Unscheduled(h) /\ WatchPut(h)' = 0
      BY <1>1, <1>4, <1>5, <2>1, <2>4 DEF Unscheduled, WatchPut
    <3>2. Balance(h)' = Balance(h)
      BY <2>2, <3>1 DEF Balance
    <3> QED
      BY <2>2, <3>2 DEF Accounting, Balanced
  <2> QED
    BY <2>3, <2>4
<1>7. ASSUME NEW h \in groups' PROVE emitted'[h] = emitted[h] /\ delivered'[h] = delivered[h]
  BY <1>1, <1>5 DEF Inv, TypeOK
<1>8. \A h \in Groups \ opened : delivered'[h] = 0
  BY <1>5 DEF Accounting
<1>9. wpc' = "put" => wGroup' \notin groups'
  BY <1>1
<1> QED
  BY <1>1, <1>6, <1>7, <1>8, <1>9 DEF Accounting, loopVars, Members

LEMMA WatcherAccounts == Inv /\ Accounting /\ Watcher => Accounting'
<1> SUFFICES ASSUME Inv, Accounting, Watcher PROVE Accounting'
  OBVIOUS
<1>1. CASE VersionPending
  <2>1. CASE StaleGroups = {}
    <3>1. /\ wpc = "idle" /\ wpc' = "update"
          /\ UNCHANGED <<groups, toSchedule, emitted, inflight, outVars, wGroup,
                         wLeft, orchVars, opened, loopVars>>
      BY <1>1, <2>1, Zenon DEF VersionPending
    <3> QED
      BY <3>1, QuietAccounts DEF groupVars, outVars, orchVars, loopVars
  <2>2. CASE StaleGroups # {}
    <3>1. PICK g \in StaleGroups : DropGroup(g, Aged)
      BY <1>1, <2>2, Zenon DEF VersionPending
    <3>2. wpc = "idle" /\ UNCHANGED <<orchVars, opened, loopVars>>
      BY <1>1 DEF VersionPending
    <3>3. g \in Groups /\ g \in opened
      BY AgedFacts DEF Live, Groups
    <3>4. wpc # "put" /\ UNCHANGED <<main, opened, loopVars>>
      BY <3>2 DEF orchVars
    <3> QED
      BY <3>1, <3>3, <3>4, DropAccounts
  <2> QED
    BY <2>1, <2>2
<1>2. ASSUME NEW g \in Groups, DropNext(g) PROVE Accounting'
  <2>1. /\ wpc # "put" /\ g \in opened /\ DropGroup(g, age)
        /\ UNCHANGED <<main, opened, loopVars>>
    BY <1>2 DEF DropNext, orchVars, Inv, Flow
  <2> QED
    BY <2>1, DropAccounts
<1>3. CASE DropResumes
  <2>1. /\ wpc = "put" /\ PutBurst(wGroup, wLeft)
        /\ wLeft' = wLeft - Sent(wLeft)
        /\ wpc' = (IF wLeft > Sent(wLeft) THEN "put" ELSE "drop")
        /\ wGroup' = (IF wLeft > Sent(wLeft) THEN wGroup ELSE NoGroup)
        /\ UNCHANGED <<orchVars, groupVars, taskVars, loopVars>>
    BY <1>3 DEF DropResumes
  <2>2. wGroup \in Groups /\ wGroup \in opened /\ wLeft \in Nat
    BY <2>1 DEF Inv, Flow, TypeOK
  <2>3. /\ Sent(wLeft) \in Nat /\ wLeft - Sent(wLeft) \in Nat
        /\ delivered' = [delivered EXCEPT ![wGroup] = @ + Sent(wLeft)]
        /\ delivered \in [Groups -> Nat] /\ wGroup \notin groups
    BY <2>1, <2>2, PutEffect DEF PutBurst, Inv, TypeOK, Accounting
  <2>4. ASSUME NEW h \in opened PROVE Balanced(h)'
    <3>1. h \in Groups
      BY DEF Inv, TypeOK
    <3>2. /\ Left(h)' = Left(h) /\ Unscheduled(h)' = Unscheduled(h)
          /\ Dispatching(h)' = Dispatching(h) /\ LoopPut(h)' = LoopPut(h)
          /\ (Whole(h)' => Whole(h))
      BY <2>1 DEF Left, Unscheduled, Dispatching, LoopPut, Whole, Members,
                  orchVars, groupVars, taskVars, loopVars
    <3>3. CASE h = wGroup
      <4>1. /\ delivered'[h] = delivered[h] + Sent(wLeft)
            /\ WatchPut(h)' = wLeft - Sent(wLeft) /\ WatchPut(h) = wLeft
        BY <2>1, <2>2, <2>3, <3>1, <3>3 DEF WatchPut
      <4>2. Balance(h)' = Balance(h)
        BY <2>2, <2>3, <3>1, <3>2, <4>1, BalanceTypes DEF Balance
      <4> QED
        BY <3>2, <4>2 DEF Accounting, Balanced
    <3>4. CASE h # wGroup
      <4>1. /\ delivered'[h] = delivered[h]
            /\ WatchPut(h)' = 0 /\ WatchPut(h) = 0
        BY <2>1, <2>3, <3>1, <3>4 DEF WatchPut
      <4>2. Balance(h)' = Balance(h)
        BY <3>2, <4>1 DEF Balance
      <4> QED
        BY <3>2, <4>2 DEF Accounting, Balanced
    <3> QED
      BY <3>3, <3>4
  <2>5. \A h \in groups : delivered'[h] = delivered[h]
    BY <2>3 DEF Inv, TypeOK
  <2>6. \A h \in Groups \ opened : delivered'[h] = 0
    BY <2>2, <2>3 DEF Accounting
  <2>7. wpc' = "put" => wGroup' \notin groups'
    BY <2>1, <2>3 DEF groupVars
  <2> QED
    BY <2>1, <2>4, <2>5, <2>6, <2>7 DEF Accounting, groupVars, loopVars, Members
<1>4. CASE DropsEnd \/ SwapWeights
  <2>1. /\ UNCHANGED <<groupVars, inflight, outVars, orchVars, loopVars,
                       wLeft, wGroup>>
        /\ wpc # "put" /\ wpc' # "put"
    BY <1>4 DEF DropsEnd, SwapWeights, taskVars
  <2> QED
    BY <2>1, QuietAccounts DEF outVars, orchVars, loopVars
<1> QED
  BY <1>1, <1>2, <1>3, <1>4 DEF Watcher

\* The two cancels: what they release is missing from then on, but only of
\* groups that are given up.
LEMMA CancelAccounts ==
    ASSUME Inv, Accounting, NEW S \in SUBSET inflight, ClaimTasks(S, age),
           NEW G, PopGroups(G),
           UNCHANGED <<opened, loopVars, watchVars, outVars>>,
           \A h \in Groups : Whole(h)' =>
             /\ Whole(h) /\ h \notin G /\ \A r \in S : r[1] # h
    PROVE  Accounting'
<1>1. /\ inflight' = inflight \ S /\ groups' = groups \ G
      /\ toSchedule' = [h \in Groups |-> IF h \in G THEN 0 ELSE toSchedule[h]]
      /\ emitted' = [h \in Groups |-> IF h \in G THEN 0 ELSE emitted[h]]
      /\ UNCHANGED <<opened, delivered, pc, cur, batch, dLeft, wpc, wGroup, wLeft>>
      /\ inflight \subseteq Rollouts
  BY DEF ClaimTasks, PopGroups, loopVars, watchVars, outVars, Inv, TypeOK
<1>2. ASSUME NEW h \in opened PROVE Balanced(h)'
  <2>1. h \in Groups
    BY DEF Inv, TypeOK
  <2>2. /\ delivered'[h] = delivered[h]
        /\ Dispatching(h)' = Dispatching(h) /\ LoopPut(h)' = LoopPut(h)
        /\ WatchPut(h)' = WatchPut(h)
    BY <1>1 DEF Dispatching, LoopPut, WatchPut
  <2>3. Left(h)' \in Nat /\ Left(h)' <= Left(h)
    <3>1. IsFiniteSet(inflight \cap Members(h))
      BY FS_Subset DEF Inv, Tasks
    <3>2. inflight' \cap Members(h) \subseteq inflight \cap Members(h)
      BY <1>1
    <3>3. /\ Cardinality(inflight' \cap Members(h)) \in Nat
          /\ Cardinality(inflight' \cap Members(h))
               <= Cardinality(inflight \cap Members(h))
      BY <3>1, <3>2, FS_Subset, FS_CardinalityType
    <3>4. Left(h)' = Cardinality(inflight' \cap Members(h))
      BY DEF Left, Members
    <3> QED
      BY <3>3, <3>4 DEF Left
  <2>4. Unscheduled(h)' \in Nat /\ Unscheduled(h)' <= Unscheduled(h)
    BY <1>1, <2>1, BalanceTypes DEF Unscheduled
  <2>5. Balance(h)' <= Balance(h)
    BY <2>1, <2>2, <2>3, <2>4, BalanceTypes DEF Balance
  <2>6. Balance(h)' \in Nat /\ Balance(h) \in Nat
    BY <2>1, <2>2, <2>3, <2>4, BalanceTypes DEF Balance
  <2>7. Balance(h)' <= Size[h]
    BY <2>1, <2>5, <2>6, BalanceTypes DEF Accounting, Balanced
  <2>8. ASSUME Whole(h)' PROVE Balance(h)' = Size[h]
    <3>1. Whole(h) /\ h \notin G /\ \A r \in S : r[1] # h
      BY <2>1, <2>8
    <3>2. inflight' \cap Members(h) = inflight \cap Members(h)
      BY <1>1, <2>1, <3>1, MemberFacts
    <3>3. Left(h)' = Left(h) /\ Unscheduled(h)' = Unscheduled(h)
      BY <1>1, <2>1, <3>1, <3>2 DEF Left, Members, Unscheduled
    <3>4. Balance(h)' = Balance(h)
      BY <2>2, <3>3 DEF Balance
    <3> QED
      BY <3>1, <3>4 DEF Accounting, Balanced
  <2> QED
    BY <2>7, <2>8 DEF Balanced
<1>3. \A h \in groups' : h \in groups /\ emitted'[h] = emitted[h]
  BY <1>1 DEF Inv, TypeOK
<1>4. \A h \in Groups \ opened : delivered'[h] = 0
  BY <1>1 DEF Accounting
<1>5. wpc' = "put" => wGroup' \notin groups'
  BY <1>1 DEF Accounting
<1>6. pc' # "stopped" => \A h \in groups' :
        emitted'[h] = delivered'[h] + IF pc' = "put" /\ cur' = h THEN 1 ELSE 0
  BY <1>1, <1>3 DEF Accounting
<1>7. pc' = "acquire" => batch' \subseteq Members(cur')
  BY <1>1 DEF Accounting
<1> QED
  BY <1>1, <1>2, <1>4, <1>5, <1>6, <1>7 DEF Accounting, Members

LEMMA OrchestratorAccounts == Inv /\ Accounting /\ Orchestrator => Accounting'
<1> SUFFICES ASSUME Inv, Accounting, Orchestrator PROVE Accounting'
  OBVIOUS
<1>1. CASE (\E S \in SUBSET EvalGroups : TriggerEval(S)) \/ OpenGate \/ Get \/ Exit
  <2>1. /\ UNCHANGED <<groupVars, inflight, delivered, loopVars, watchVars>>
        /\ main' = main \/ (main = "drain" /\ main' = "drained")
    BY <1>1 DEF TriggerEval, OpenGate, Get, Exit, taskVars, outVars
  <2> QED
    BY <2>1, QuietAccounts DEF loopVars, watchVars
<1>2. CASE Drain
  <2> DEFINE S == {r \in inflight : r[1] \in TrainGroups}
             G == {r[1] : r \in S}
  <2>1. /\ S \in SUBSET inflight /\ ClaimTasks(S, age) /\ PopGroups(G)
        /\ main = "run" /\ main' = "drain"
        /\ UNCHANGED <<opened, loopVars, watchVars, outVars>>
    BY <1>2 DEF Drain
  <2>2. ASSUME NEW h \in Groups, Whole(h)'
        PROVE  Whole(h) /\ h \notin G /\ \A r \in S : r[1] # h
    <3>1. h \notin TrainGroups
      BY <2>1, <2>2, GroupAssumption DEF Whole
    <3> QED
      BY <2>1, <3>1 DEF Whole
  <2> HIDE DEF S, G
  <2> QED
    BY <2>1, <2>2, CancelAccounts
<1>3. CASE Stop
  <2>1. /\ ClaimTasks(inflight, age) /\ PopGroups(groups)
        /\ main' = "stopping"
        /\ UNCHANGED <<opened, loopVars, watchVars, outVars>>
    BY <1>3 DEF Stop
  <2>2. \A h \in Groups : ~Whole(h)'
    BY <2>1 DEF Whole
  <2> QED
    BY <2>1, <2>2, CancelAccounts
<1>4. CASE Kill
  <2>1. /\ pc' = "stopped" /\ main' = "stopped"
        /\ UNCHANGED <<groupVars, taskVars, batch, watchVars, outVars>>
    BY <1>4 DEF Kill
  <2>2. ASSUME NEW h \in opened PROVE Balanced(h)'
    <3>1. h \in Groups
      BY DEF Inv, TypeOK
    <3>2. /\ delivered'[h] = delivered[h] /\ Left(h)' = Left(h)
          /\ Unscheduled(h)' = Unscheduled(h) /\ WatchPut(h)' = WatchPut(h)
          /\ Dispatching(h)' = 0 /\ LoopPut(h)' = 0 /\ ~Whole(h)'
      BY <2>1 DEF Left, Members, Unscheduled, WatchPut, Dispatching, LoopPut,
                  Whole, groupVars, taskVars, watchVars, outVars
    <3>3. Balance(h)' <= Balance(h) /\ Balance(h)' \in Nat /\ Balance(h) \in Nat
      BY <3>1, <3>2, BalanceTypes DEF Balance
    <3>4. Balance(h)' <= Size[h]
      BY <3>1, <3>3, BalanceTypes DEF Accounting, Balanced
    <3> QED
      BY <3>2, <3>4 DEF Balanced
  <2> QED
    BY <2>1, <2>2 DEF Accounting, groupVars, watchVars, outVars
<1> QED
  BY <1>1, <1>2, <1>3, <1>4 DEF Orchestrator

LEMMA LoopAccounts == Inv /\ Accounting /\ DispatchLoop => Accounting'
<1> SUFFICES ASSUME Inv, Accounting, DispatchLoop PROVE Accounting'
  OBVIOUS
<1>1. CASE \/ FillReturns \/ FillFlips \/ FillStalls
           \/ WaitTimesOut \/ HandleEnds
           \/ \E D \in SUBSET inflight : Collect(D)
  <2>1. /\ UNCHANGED <<groupVars, inflight, delivered, batch, watchVars, main>>
        /\ pc \in {"fill", "wait", "handle"}
        /\ pc' \in {"fill", "wait", "handle", "stopped"}
    BY <1>1 DEF FillReturns, FillFlips, FillStalls, WaitTimesOut, HandleEnds,
                Collect, LoopTop, orchVars, taskVars, loopVars, outVars
  <2> QED
    BY <2>1, QuietAccounts DEF watchVars
<1>2. ASSUME NEW g \in Groups, FillContinues(g) PROVE Accounting'
  <2>1. pc \in {"fill", "pin"} /\ g \in groups /\ toSchedule[g] > 0 /\ Reserve(g)
    BY <1>2 DEF FillContinues, MaySchedule, Continuable
  <2> QED
    BY <1>2, <2>1, ReserveAccounts DEF FillContinues
<1>3. CASE Pinned
  <2>1. pc = "pin"
    BY <1>3 DEF Pinned
  <2>2. CASE cur \in groups /\ Reserve(cur)
    <3>1. toSchedule[cur] > 0
      BY <2>1, <2>2, GroupFacts DEF Inv, TypeOK, Permits
    <3> QED
      BY <1>3, <2>1, <2>2, <3>1, ReserveAccounts DEF Pinned
  <2>3. CASE pc' = "wait" /\ UNCHANGED <<toSchedule, batch, got, doneList, dLeft>>
    <3>1. /\ UNCHANGED <<groupVars, inflight, delivered, batch, watchVars, main>>
          /\ pc' = "wait"
      BY <1>3, <2>3 DEF Pinned, groupVars, taskVars, outVars, orchVars
    <3> QED
      BY <2>1, <3>1, QuietAccounts DEF watchVars
  <2> QED
    BY <1>3, <2>2, <2>3 DEF Pinned
<1>4. ASSUME NEW r \in Rollouts, Handle(r) PROVE Accounting'
  <2>1. CASE r \in inflight
    BY <1>4, <2>1, HandleAccounts
  <2>2. CASE r \notin inflight
    <3>1. UNCHANGED <<groupVars, inflight, delivered, batch, watchVars, main,
                      pc, cur, dLeft>>
      BY <1>4, <2>2 DEF Handle, groupVars, taskVars, outVars, orchVars
    <3> QED
      BY <3>1, QuietAccounts DEF watchVars
  <2> QED
    BY <2>1, <2>2
<1> QED
  BY <1>1, <1>2, <1>3, <1>4, OpenAccounts, AcquireAccounts, ResumeAccounts
     DEF DispatchLoop

LEMMA InitAccounts == Init => Accounting
BY DEF Init, Accounting

LEMMA NextAccounts == Inv /\ Accounting /\ [Next]_vars => Accounting'
<1>1. Inv /\ Accounting /\ UNCHANGED vars => Accounting'
  BY QuietAccounts DEF vars, orchVars, taskVars, loopVars, watchVars, outVars
<1> QED
  BY <1>1, LoopAccounts, WatcherAccounts, OrchestratorAccounts DEF Next

LEMMA AccountingInvariance == Spec => []Accounting
BY InitAccounts, NextAccounts, Invariance, PTL DEF Spec

\* The emit-everything invariant: a group owes the sink and has delivered
\* exactly one rollout per member while nothing of it is given up, and never
\* more, across completions, drop_group, blocked puts, drains and shutdown.
THEOREM EmitsExactlyOnce == Spec => []ExactlyOnce
<1>1. Inv /\ Accounting => ExactlyOnce
  <2> SUFFICES ASSUME Inv, Accounting, NEW g \in opened
               PROVE  /\ delivered[g] + Owed(g) <= Size[g]
                      /\ Whole(g) => delivered[g] + Owed(g) = Size[g]
    BY DEF ExactlyOnce, Whole
  <2>1. g \in Groups
    BY DEF Inv, TypeOK
  <2>2. Owed(g) = Left(g) + Unscheduled(g) + Dispatching(g)
                    + (LoopPut(g) + WatchPut(g))
    BY DEF Owed, InPut, Left, LoopPut, WatchPut
  <2>3. delivered[g] + Owed(g) = Balance(g)
    BY <2>1, <2>2, BalanceTypes DEF Balance
  <2> QED
    BY <2>3 DEF Accounting, Balanced
<1> QED
  BY <1>1, Invariance, AccountingInvariance, PTL

-----------------------------------------------------------------------------
(* The dispatcher implements the ledger                                    *)

LEMMA Stutters ==
    ASSUME UNCHANGED <<opened, delivered, main>>
    PROVE  UNCHANGED Ledger!vars
BY DEF Ledger!vars

\* A run of puts delivers some rollouts of one opened group, or none.
LEMMA Delivers ==
    ASSUME Inv, NEW g \in opened, NEW n \in Nat, PutBurst(g, n),
           delivered[g] + n <= Size[g], UNCHANGED <<main, opened>>
    PROVE  [Ledger!Next]_(Ledger!vars)
<1>1. /\ g \in Groups /\ delivered \in [Groups -> Nat] /\ delivered[g] \in Nat
      /\ Size[g] \in Nat
  BY GroupFacts DEF Inv, TypeOK
<1>2. /\ Sent(n) \in Nat /\ n - Sent(n) \in Nat
      /\ delivered' = [delivered EXCEPT ![g] = @ + Sent(n)]
  BY <1>1, PutEffect DEF PutBurst
<1>3. CASE Sent(n) = 0
  <2>1. delivered' = delivered
    BY <1>1, <1>2, <1>3
  <2> QED
    BY <2>1, Stutters
<1>4. CASE Sent(n) # 0
  <2>1. Sent(n) \in 1..Size[g] /\ delivered[g] + Sent(n) <= Size[g]
    BY <1>1, <1>2, <1>4
  <2>2. Ledger!Deliver(g, Sent(n))
    BY <1>2, <2>1 DEF Ledger!Deliver
  <2> QED
    BY <1>1, <2>1, <2>2 DEF Ledger!Next
<1> QED
  BY <1>3, <1>4

LEMMA LedgerStep ==
    Inv /\ Accounting /\ [Next]_vars => [Ledger!Next]_(Ledger!vars)
<1> SUFFICES ASSUME Inv, Accounting, [Next]_vars
             PROVE  [Ledger!Next]_(Ledger!vars)
  OBVIOUS
<1>1. ASSUME NEW g \in opened
      PROVE  /\ g \in Groups /\ Balance(g) <= Size[g]
             /\ delivered[g] + Left(g) + Unscheduled(g) <= Size[g]
             /\ delivered[g] + LoopPut(g) <= Size[g]
             /\ delivered[g] + WatchPut(g) <= Size[g]
  <2>1. g \in Groups /\ Balance(g) <= Size[g]
    BY DEF Inv, TypeOK, Accounting, Balanced
  <2> QED
    BY <2>1, BalanceTypes DEF Balance
<1>2. ASSUME NEW g \in Groups, FillOpens(g)
      PROVE  Ledger!Next
  <2>1. /\ g \notin opened /\ opened' = opened \cup {g}
        /\ UNCHANGED <<delivered, main>>
    BY <1>2 DEF FillOpens, Fresh, Inv, Flow, outVars
  <2>2. Ledger!Accept(g)
    BY <2>1 DEF Ledger!Accept
  <2> QED
    BY <2>2 DEF Ledger!Next
<1>3. ASSUME NEW r \in Rollouts, Handle(r)
      PROVE  [Ledger!Next]_(Ledger!vars)
  <2>1. CASE r \notin inflight
    BY <1>3, <2>1, Stutters DEF Handle, outVars, orchVars
  <2>2. CASE r \in inflight
    <3> DEFINE n == Cardinality(TaskOf(r))
    <3>1. /\ PutBurst(r[1], n) /\ UNCHANGED <<main, opened>>
      BY <1>3, <2>2 DEF Handle, orchVars
    <3>2. /\ r[1] \in opened /\ TaskOf(r) \subseteq inflight \cap Members(r[1])
      BY <2>2, RolloutFacts DEF Inv, Tasks, Closed
    <3>3. IsFiniteSet(inflight \cap Members(r[1]))
      BY FS_Subset DEF Inv, Tasks
    <3>4. n \in Nat /\ n <= Left(r[1])
      BY <3>2, <3>3, TaskCardinality, FS_Subset DEF Left
    <3> HIDE DEF n
    <3>5. delivered[r[1]] + n <= Size[r[1]]
      BY <1>1, <3>2, <3>4, BalanceTypes
    <3> QED
      BY <3>1, <3>2, <3>4, <3>5, Delivers
  <2> QED
    BY <2>1, <2>2
<1>4. ASSUME HandleResumes
      PROVE  [Ledger!Next]_(Ledger!vars)
  <2>1. /\ pc = "put" /\ PutBurst(cur, dLeft) /\ UNCHANGED <<main, opened>>
    BY <1>4 DEF HandleResumes, orchVars
  <2>2. cur \in opened /\ dLeft \in Nat /\ LoopPut(cur) = dLeft
    BY <2>1 DEF Inv, Flow, TypeOK, LoopPut
  <2> QED
    BY <1>1, <2>1, <2>2, Delivers
<1>5. ASSUME NEW g \in opened, NEW ages, DropGroup(g, ages), UNCHANGED <<main, opened>>
      PROVE  [Ledger!Next]_(Ledger!vars)
  <2>1. PutBurst(g, Markers(g)) /\ Markers(g) = Left(g) + Unscheduled(g)
    BY <1>5 DEF DropGroup, Markers, Left, Unscheduled
  <2>2. Markers(g) \in Nat /\ delivered[g] + Markers(g) <= Size[g]
    BY <1>1, <2>1, BalanceTypes
  <2> QED
    BY <1>5, <2>1, <2>2, Delivers
<1>6. ASSUME Watcher
      PROVE  [Ledger!Next]_(Ledger!vars)
  <2>1. CASE VersionPending
    <3>1. CASE StaleGroups = {}
      <4>1. UNCHANGED <<outVars, orchVars, opened>>
        BY <2>1, <3>1, Zenon DEF VersionPending
      <4> QED
        BY <4>1, Stutters DEF outVars, orchVars
    <3>2. CASE StaleGroups # {}
      <4>1. PICK g \in StaleGroups : DropGroup(g, Aged)
        BY <2>1, <3>2, Zenon DEF VersionPending
      <4>2. UNCHANGED <<main, opened>>
        BY <2>1 DEF VersionPending, orchVars
      <4>3. g \in opened
        BY AgedFacts
      <4> QED
        BY <1>5, <4>1, <4>2, <4>3
    <3> QED
      BY <3>1, <3>2
  <2>2. ASSUME NEW g \in Groups, DropNext(g) PROVE [Ledger!Next]_(Ledger!vars)
    <3>1. g \in opened /\ DropGroup(g, age) /\ UNCHANGED <<main, opened>>
      BY <2>2 DEF DropNext, orchVars, Inv, Flow
    <3> QED
      BY <1>5, <3>1
  <2>3. CASE DropResumes
    <3>1. /\ wpc = "put" /\ PutBurst(wGroup, wLeft) /\ UNCHANGED <<main, opened>>
      BY <2>3 DEF DropResumes, orchVars, groupVars
    <3>2. wGroup \in opened /\ wLeft \in Nat /\ WatchPut(wGroup) = wLeft
      BY <3>1 DEF Inv, Flow, TypeOK, WatchPut
    <3> QED
      BY <1>1, <3>1, <3>2, Delivers
  <2>4. CASE DropsEnd \/ SwapWeights
    BY <2>4, Stutters DEF DropsEnd, SwapWeights, orchVars, groupVars, outVars
  <2> QED
    BY <1>6, <2>1, <2>2, <2>3, <2>4 DEF Watcher
<1>7. ASSUME Drain \/ Exit \/ Stop \/ Kill
      PROVE  [Ledger!Next]_(Ledger!vars)
  <2>1. UNCHANGED <<opened, delivered>>
    BY <1>7 DEF Drain, Exit, Stop, Kill, groupVars, outVars
  <2>2. CASE main = "run" /\ main' = "drain"
    <3>1. Ledger!GiveUp
      BY <2>1, <2>2 DEF Ledger!GiveUp
    <3> QED
      BY <3>1 DEF Ledger!Next
  <2>3. CASE main \in {"run", "drain"} /\ main' \in {"drained", "stopping"}
    <3>1. Ledger!GiveUp
      BY <2>1, <2>3 DEF Ledger!GiveUp
    <3> QED
      BY <3>1 DEF Ledger!Next
  <2>4. CASE main \in {"drained", "stopping"} /\ main' \in {"stopping", "stopped"}
    BY <2>1, <2>4 DEF Ledger!vars
  <2> QED
    BY <1>7, <2>2, <2>3, <2>4 DEF Drain, Exit, Stop, Kill
<1>8. CASE \/ FillReturns \/ FillFlips \/ FillStalls
           \/ (\E g \in Groups : FillContinues(g))
           \/ Pinned \/ Acquire \/ WaitTimesOut
           \/ (\E D \in SUBSET inflight : Collect(D)) \/ HandleEnds
  BY <1>8, Stutters
     DEF FillReturns, FillFlips, FillStalls, FillContinues, Pinned, Acquire,
         WaitTimesOut, Collect, HandleEnds, orchVars, groupVars, outVars
<1>9. CASE (\E S \in SUBSET EvalGroups : TriggerEval(S)) \/ OpenGate \/ Get
  BY <1>9, Stutters DEF TriggerEval, OpenGate, Get, groupVars, outVars
<1>10. CASE UNCHANGED vars
  BY <1>10, Stutters DEF vars, orchVars, groupVars, outVars
<1> QED
  BY <1>2, <1>3, <1>4, <1>6, <1>7, <1>8, <1>9, <1>10
     DEF Next, DispatchLoop, Orchestrator

\* The dispatcher implements RolloutLedger: every step of it delivers
\* rollouts of one opened group within its size, opens one, gives some up, or
\* changes nothing a sink can see.
THEOREM ImplementsLedger == Spec => LedgerSpec
<1>1. Init => Ledger!Init
  BY DEF Init, Ledger!Init
<1>2. Inv /\ Accounting /\ [Next]_vars => [Ledger!Next]_(Ledger!vars)
  BY LedgerStep
<1> QED
  BY <1>1, <1>2, Invariance, AccountingInvariance, PTL
     DEF Spec, LedgerSpec, Ledger!Spec
=============================================================================
