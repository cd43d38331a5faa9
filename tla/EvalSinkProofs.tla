----------------------------- MODULE EvalSinkProofs -----------------------------
(***************************************************************************)
(* Proofs about EvalSink for every number of steps, envs, examples and     *)
(* group sizes.  The inductive invariant says where every rollout that     *)
(* arrived is: in its group until the group is complete, then in the       *)
(* bucket of its epoch until that is complete, then in its report.         *)
(***************************************************************************)
EXTENDS EvalSink, SeqToolsProofs

Complete(ep) == {g \in EpochGroups(ep) : arrived[g] = Size[g[1]]}

\* No example is queued twice, and none of a step that is still to come.
SourceInv ==
    /\ skipFirst \in BOOLEAN /\ started \in BOOLEAN /\ first_trigger \in BOOLEAN
    /\ step \in Steps
    /\ triggered \subseteq Epochs
    /\ queue \in Seq(Groups) /\ IsInjective(queue)
    /\ opened \subseteq Groups /\ ToSet(queue) \cap opened = {}
    /\ \A g \in ToSet(queue) \cup opened : g[2] <= step
    /\ ~ started => queue = <<>> /\ opened = {}

\* The rollouts of a group wait until all of them have arrived.
GroupInv ==
    /\ arrived \in [Groups -> Nat]
    /\ pending_groups \in [Groups -> SUBSET (Groups \X Nat)]
    /\ \A g \in Groups :
        /\ arrived[g] <= Size[g[1]]
        /\ pending_groups[g] =
              IF arrived[g] < Size[g[1]] THEN {<<g, i>> : i \in 1..arrived[g]} ELSE {}

\* Complete groups wait until all those of their epoch are.
EpochInv ==
    /\ pending_batches \in [Epochs -> SUBSET (Groups \X Nat)]
    /\ reported \in [Epochs -> Seq(SUBSET (Groups \X Nat))]
    /\ \A ep \in Epochs :
        IF Complete(ep) = EpochGroups(ep)
        THEN pending_batches[ep] = {} /\ reported[ep] = <<RolloutsOf(EpochGroups(ep))>>
        ELSE pending_batches[ep] = RolloutsOf(Complete(ep)) /\ reported[ep] = <<>>

Inv == SourceInv /\ GroupInv /\ EpochInv

-----------------------------------------------------------------------------
(* The round robin                                                         *)

\* The types of the constants.
LEMMA ConstTypes ==
    /\ MaxSteps \in Nat /\ NEnvs \in Nat
    /\ Interval \in [Envs -> Nat \ {0}]
    /\ Examples \in [Envs -> Nat \ {0}] /\ Size \in [Envs -> Nat \ {0}]
BY EvalAssumption

\* A group is an env, a step and an example.
LEMMA GroupParts ==
    /\ \A g \in Groups : /\ g = <<g[1], g[2], g[3]>>
                         /\ g[1] \in Envs /\ g[2] \in Steps /\ g[3] \in 1..Examples[g[1]]
    /\ \A e \in Envs, s \in Steps, k \in Nat : k \in 1..Examples[e] => <<e, s, k>> \in Groups
<1>1. ASSUME NEW g \in Groups
      PROVE  \E e \in Envs : \E s \in Steps, k \in 1..Examples[e] : g = <<e, s, k>>
  BY DEF Groups
<1>2. ASSUME NEW g \in Groups
      PROVE  /\ g = <<g[1], g[2], g[3]>>
             /\ g[1] \in Envs /\ g[2] \in Steps /\ g[3] \in 1..Examples[g[1]]
  BY <1>1
<1>3. ASSUME NEW e \in Envs, NEW s \in Steps, NEW k \in 1..Examples[e]
      PROVE  <<e, s, k>> \in Groups
  BY DEF Groups
<1> QED BY <1>2, <1>3

\* There are enough rounds for every env.
LEMMA RoundsType == Rounds \in Nat /\ \A e \in Envs : Examples[e] <= Rounds
<1> DEFINE T == {n \in 0..NEnvs : \E b \in Nat : \A e \in 1..n : Examples[e] <= b}
<1>1. NEnvs \in Nat /\ \A e \in 1..NEnvs : Examples[e] \in Nat
  BY ConstTypes DEF Envs
<1>2. 0 \in T
  BY <1>1
<1>3. ASSUME NEW n \in 0..(NEnvs - 1), n \in T PROVE n + 1 \in T
  <2>1. PICK b \in Nat : \A e \in 1..n : Examples[e] <= b
    BY <1>3
  <2>2. n + 1 \in 0..NEnvs /\ Examples[n + 1] \in Nat
    BY <1>1
  <2>3. \A e \in 1..(n + 1) : e \in 1..n \/ e = n + 1
    BY <1>1
  <2>4. \A e \in 1..(n + 1) : Examples[e] <= b + Examples[n + 1]
    <3>1. \A e \in 1..n : Examples[e] \in Nat
      BY <1>1
    <3> QED BY <2>1, <2>2, <2>3, <3>1
  <2> QED BY <2>2, <2>4
<1>4. NEnvs \in T
  <2>1. \A n \in 0..NEnvs : n \in T
    <3> HIDE DEF T
    <3> QED BY <1>1, <1>2, <1>3, UpToInduction
  <2>2. NEnvs \in 0..NEnvs
    BY <1>1
  <2> QED BY <2>1, <2>2
<1>5. PICK b \in Nat : \A e \in Envs : Examples[e] <= b
  BY <1>4 DEF Envs
<1> DEFINE S == {0} \cup {Examples[e] : e \in Envs}
<1>6. S \in SUBSET Nat /\ S # {} /\ \A y \in S : y <= b
  BY <1>1, <1>5 DEF Envs
<1>7. Max(S) \in S /\ \A y \in S : y <= Max(S)
  <2> HIDE DEF S
  <2> QED BY <1>6, MaxOf
<1> QED BY <1>6, <1>7 DEF Rounds

\* Every env has one turn in every round.
LEMMA TurnsContent ==
    ASSUME NEW s \in Steps
    PROVE  /\ Turns(s) \in Seq(Envs \X Steps \X Nat)
           /\ IsInjective(Turns(s))
           /\ \A e \in Envs, k \in 1..Rounds : <<e, s, k>> \in ToSet(Turns(s))
<1> DEFINE n == Rounds * NEnvs
           turn(i) == <<1 + ((i - 1) % NEnvs), s, 1 + ((i - 1) \div NEnvs)>>
<1>1. n \in Nat /\ NEnvs \in Nat /\ Rounds \in Nat
  BY ConstTypes, RoundsType
<1>2. ASSUME NEW i \in 1..n
      PROVE  /\ NEnvs \in Nat \ {0} /\ i - 1 \in Nat
             /\ i - 1 = NEnvs * ((i - 1) \div NEnvs) + ((i - 1) % NEnvs)
             /\ (i - 1) % NEnvs \in 0..(NEnvs - 1) /\ (i - 1) \div NEnvs \in Nat
  <2>1. NEnvs # 0
    BY <1>1
  <2>2. i - 1 \in Nat
    BY <1>1
  <2> QED BY <1>1, <2>1, <2>2, DivMod
<1>3. \A i \in 1..n : turn(i) \in Envs \X Steps \X Nat
  BY <1>2 DEF Envs
<1>4. Turns(s) = [i \in 1..n |-> turn(i)]
  BY DEF Turns
<1>5. Turns(s) \in Seq(Envs \X Steps \X Nat)
  <2> HIDE DEF turn, n
  <2> QED BY <1>1, <1>3, <1>4
<1>6. ASSUME NEW i \in 1..n, NEW j \in 1..n, turn(i) = turn(j) PROVE i = j
  <2> DEFINE r == (i - 1) % NEnvs
             q == (i - 1) \div NEnvs
  <2>1. 1 + r = 1 + ((j - 1) % NEnvs) /\ 1 + q = 1 + ((j - 1) \div NEnvs)
    BY <1>6
  <2>2. r = (j - 1) % NEnvs /\ q = (j - 1) \div NEnvs
    BY <1>2, <2>1
  <2>3. i - 1 = NEnvs * q + r /\ j - 1 = NEnvs * q + r
    BY <1>2, <2>2
  <2> QED BY <1>1, <2>3
<1>7. IsInjective(Turns(s))
  <2> HIDE DEF turn, n
  <2> QED BY <1>4, <1>6 DEF IsInjective
<1>8. ASSUME NEW e \in Envs, NEW k \in 1..Rounds PROVE <<e, s, k>> \in ToSet(Turns(s))
  <2> DEFINE q == k - 1
             r == e - 1
             i == NEnvs * q + r + 1
  <2>1. NEnvs \in Nat \ {0} /\ q \in Nat /\ r \in 0..(NEnvs - 1) /\ q < Rounds
    BY <1>1 DEF Envs
  <2>2. i \in 1..n
    <3> HIDE DEF q, r
    <3> QED BY <1>1, <2>1
  <2>3. i - 1 = NEnvs * q + r
    <3> HIDE DEF q, r
    <3> QED BY <1>1, <2>1
  <2>4. (i - 1) % NEnvs = r /\ (i - 1) \div NEnvs = q
    <3>1. (NEnvs * q + r) % NEnvs = r /\ (NEnvs * q + r) \div NEnvs = q
      <4> HIDE DEF q, r
      <4> QED BY <2>1, DivModUnique
    <3> HIDE DEF q, r, i
    <3> QED BY <2>3, <3>1
  <2>5. turn(i) = <<e, s, k>>
    <3>1. 1 + r = e /\ 1 + q = k
      BY <1>1 DEF Envs
    <3> HIDE DEF q, r, i
    <3> QED BY <2>4, <3>1
  <2>6. Turns(s)[i] = <<e, s, k>> /\ i \in DOMAIN Turns(s)
    <3> HIDE DEF turn, i, n
    <3> QED BY <1>4, <2>2, <2>5
  <2> HIDE DEF i
  <2> QED BY <2>6 DEF ToSet
<1> QED BY <1>5, <1>7, <1>8

\* An epoch puts every example of the envs fired into the queue once.
LEMMA RoundRobinContent ==
    ASSUME NEW envs \in SUBSET Envs, NEW s \in Steps
    PROVE  /\ RoundRobin(envs, s) \in Seq(Groups)
           /\ IsInjective(RoundRobin(envs, s))
           /\ ToSet(RoundRobin(envs, s)) = {g \in Groups : g[1] \in envs /\ g[2] = s}
<1> DEFINE A == {g \in Groups : g[1] \in envs}
           q == RoundRobin(envs, s)
           X == Envs \X Steps \X Nat
<1>1. q = Selected(Turns(s), A)
  BY DEF RoundRobin
<1>2. q \in Seq(X) /\ ToSet(q) = ToSet(Turns(s)) \cap A /\ IsInjective(q)
  <2> HIDE DEF A, q, X
  <2>1. Turns(s) \in Seq(X) /\ IsInjective(Turns(s))
    BY TurnsContent DEF X
  <2> QED BY <1>1, <2>1, SelectedContent
<1>3. \A g \in ToSet(Turns(s)) : g[2] = s
  BY DEF ToSet, Turns
<1>4. ASSUME NEW g \in A, g[2] = s PROVE g \in ToSet(Turns(s))
  <2>1. g = <<g[1], s, g[3]>> /\ g[1] \in Envs /\ g[3] \in 1..Examples[g[1]]
    BY <1>4, GroupParts
  <2>2. Examples[g[1]] \in Nat /\ Rounds \in Nat /\ Examples[g[1]] <= Rounds
    BY <2>1, ConstTypes, RoundsType
  <2>3. g[3] \in 1..Rounds
    BY <2>1, <2>2
  <2> QED BY <2>1, <2>3, TurnsContent
<1>5. ToSet(q) = {g \in Groups : g[1] \in envs /\ g[2] = s}
  <2> HIDE DEF q
  <2> QED BY <1>2, <1>3, <1>4
<1>6. q \in Seq(Groups)
  <2> HIDE DEF q, X
  <2>1. \A i \in 1..Len(q) : q[i] \in Groups
    BY <1>2, <1>5 DEF ToSet
  <2> QED BY <1>2, <2>1
<1> QED BY <1>2, <1>5, <1>6

-----------------------------------------------------------------------------
(* Counting rollouts                                                       *)

\* The rollouts of one group, counted.
LEMMA CountUpTo ==
    ASSUME NEW g, NEW n \in Nat
    PROVE  LET T == {<<g, i>> : i \in 1..n}
           IN  IsFiniteSet(T) /\ Cardinality(T) = n
<1> DEFINE T == {<<g, i>> : i \in 1..n}
           f == [i \in 1..n |-> <<g, i>>]
<1>1. f \in Bijection(1..n, T)
  BY DEF Bijection, Injection, Surjection, IsInjective
<1>2. ExistsBijection(1..n, T)
  <2> HIDE DEF f, T
  <2> QED BY <1>1 DEF ExistsBijection
<1>3. IsFiniteSet(1..n) /\ Cardinality(1..n) = n
  <2>1. 1 \in Int /\ n \in Int
    OBVIOUS
  <2>2. IsFiniteSet(1..n) /\ Cardinality(1..n) = IF 1 > n THEN 0 ELSE n - 1 + 1
    BY <2>1, FS_Interval, Zenon
  <2> QED BY <2>2
<1>4. IsFiniteSet(T) /\ Cardinality(T) = n
  <2> HIDE DEF T
  <2> QED BY <1>2, <1>3, FS_Bijection
<1> QED BY <1>4

\* The groups of an epoch are the examples of its env at its step.
LEMMA EpochGroupsShape ==
    ASSUME NEW ep \in Epochs
    PROVE  /\ ep[1] \in Envs /\ ep[2] \in Steps
           /\ EpochGroups(ep) = {<<ep[1], ep[2], k>> : k \in 1..Examples[ep[1]]}
           /\ EpochGroups(ep) # {}
<1>1. ep[1] \in Envs /\ ep[2] \in Steps /\ ep = <<ep[1], ep[2]>>
  BY DEF Epochs
<1>2. Examples[ep[1]] \in Nat \ {0}
  BY <1>1, ConstTypes
<1>3. ASSUME NEW k \in 1..Examples[ep[1]] PROVE <<ep[1], ep[2], k>> \in EpochGroups(ep)
  <2>1. <<ep[1], ep[2], k>> \in Groups
    BY <1>1, <1>2, GroupParts
  <2> QED BY <1>1, <2>1 DEF EpochGroups
<1>4. ASSUME NEW g \in EpochGroups(ep)
      PROVE  g \in {<<ep[1], ep[2], k>> : k \in 1..Examples[ep[1]]}
  <2>1. g \in Groups /\ <<g[1], g[2]>> = ep
    BY DEF EpochGroups
  <2>2. g = <<g[1], g[2], g[3]>> /\ g[3] \in 1..Examples[g[1]] /\ g[1] = ep[1] /\ g[2] = ep[2]
    BY <1>1, <2>1, GroupParts
  <2> QED BY <2>2
<1>5. 1 \in 1..Examples[ep[1]]
  BY <1>2
<1> QED BY <1>1, <1>3, <1>4, <1>5

\* An epoch has EpochSize rollouts ...
LEMMA EpochCount ==
    ASSUME NEW ep \in Epochs
    PROVE  /\ IsFiniteSet(RolloutsOf(EpochGroups(ep)))
           /\ Cardinality(RolloutsOf(EpochGroups(ep))) = EpochSize(ep[1])
<1> DEFINE m == Examples[ep[1]]
           n == Size[ep[1]]
           T == RolloutsOf(EpochGroups(ep))
           P == (1..m) \X (1..n)
           roll(p) == <<<<ep[1], ep[2], p[1]>>, p[2]>>
           f == [p \in P |-> roll(p)]
<1>1. m \in Nat /\ n \in Nat
  BY EpochGroupsShape, ConstTypes
<1>2. EpochGroups(ep) = {<<ep[1], ep[2], k>> : k \in 1..m}
  BY EpochGroupsShape
<1>3. T = {roll(p) : p \in P}
  <2>1. ASSUME NEW r \in T PROVE r \in {roll(p) : p \in P}
    <3>1. PICK g \in EpochGroups(ep) : r \in {<<g, i>> : i \in 1..Size[g[1]]}
      BY DEF RolloutsOf
    <3>2. PICK k \in 1..m : g = <<ep[1], ep[2], k>>
      BY <1>2
    <3>3. PICK i \in 1..n : r = <<g, i>>
      BY <3>1, <3>2
    <3>4. <<k, i>> \in P /\ r = roll(<<k, i>>)
      BY <3>2, <3>3
    <3> QED BY <3>4
  <2>2. ASSUME NEW p \in P PROVE roll(p) \in T
    <3> DEFINE g == <<ep[1], ep[2], p[1]>>
    <3>1. g \in EpochGroups(ep) /\ g[1] = ep[1] /\ p[2] \in 1..Size[g[1]]
      BY <1>2
    <3>2. roll(p) \in {<<g, i>> : i \in 1..Size[g[1]]}
      BY <3>1
    <3> HIDE DEF g, roll
    <3> QED BY <3>1, <3>2 DEF RolloutsOf
  <2> QED BY <2>1, <2>2
<1>4. f \in Bijection(P, T)
  <2>1. \A p, q \in P : roll(p) = roll(q) => p = q
    OBVIOUS
  <2> HIDE DEF roll, P, T
  <2> QED BY <1>3, <2>1 DEF Bijection, Injection, Surjection, IsInjective
<1>5. ExistsBijection(P, T)
  <2> HIDE DEF f, P, T
  <2> QED BY <1>4 DEF ExistsBijection
<1>6. /\ IsFiniteSet(1..m) /\ IsFiniteSet(1..n)
      /\ Cardinality(1..m) = m /\ Cardinality(1..n) = n
  <2> HIDE DEF m, n
  <2>1. 1 \in Int /\ n \in Int /\ m \in Int
    BY <1>1
  <2>2. /\ IsFiniteSet(1..m) /\ Cardinality(1..m) = IF 1 > m THEN 0 ELSE m - 1 + 1
        /\ IsFiniteSet(1..n) /\ Cardinality(1..n) = IF 1 > n THEN 0 ELSE n - 1 + 1
    BY <2>1, FS_Interval, Zenon
  <2> QED BY <1>1, <2>2
<1>7. IsFiniteSet(P) /\ Cardinality(P) = m * n
  <2> HIDE DEF m, n
  <2>1. IsFiniteSet(P) /\ Cardinality(P) = Cardinality(1..m) * Cardinality(1..n)
    BY <1>6, FS_Product, Zenon
  <2> QED BY <1>6, <2>1
<1>8. IsFiniteSet(T) /\ Cardinality(T) = m * n
  <2> HIDE DEF P, T
  <2> QED BY <1>5, <1>7, FS_Bijection
<1> QED BY <1>8 DEF EpochSize

\* ... and a part of its groups has fewer.
LEMMA PartCount ==
    ASSUME NEW ep \in Epochs, NEW G \in SUBSET EpochGroups(ep), G # EpochGroups(ep)
    PROVE  /\ IsFiniteSet(RolloutsOf(G))
           /\ Cardinality(RolloutsOf(G)) < EpochSize(ep[1])
<1> DEFINE T == RolloutsOf(EpochGroups(ep))
           U == RolloutsOf(G)
<1>1. PICK g \in EpochGroups(ep) : g \notin G
  OBVIOUS
<1>2. g \in Groups /\ Size[g[1]] \in Nat \ {0}
  BY GroupParts, ConstTypes DEF EpochGroups
<1>3. <<g, 1>> \in T
  <2>1. <<g, 1>> \in {<<g, i>> : i \in 1..Size[g[1]]}
    BY <1>2
  <2> QED BY <2>1 DEF RolloutsOf
<1>4. <<g, 1>> \notin U
  <2>1. ASSUME NEW h \in G, NEW i \in 1..Size[h[1]], <<g, 1>> = <<h, i>> PROVE FALSE
    BY <1>1, <2>1
  <2> QED BY <2>1 DEF RolloutsOf
<1>5. U \in SUBSET T
  BY DEF RolloutsOf
<1>6. IsFiniteSet(T) /\ Cardinality(T) = EpochSize(ep[1])
  BY EpochCount
<1>7. IsFiniteSet(U) /\ Cardinality(U) <= Cardinality(T) /\ Cardinality(U) # Cardinality(T)
  <2> HIDE DEF T, U
  <2> QED BY <1>3, <1>4, <1>5, <1>6, FS_Subset
<1>8. Cardinality(U) \in Nat /\ Cardinality(T) \in Nat
  <2> HIDE DEF T, U
  <2> QED BY <1>6, <1>7, FS_CardinalityType
<1> HIDE DEF T, U
<1>9. Cardinality(U) < EpochSize(ep[1])
  BY <1>6, <1>7, <1>8
<1> QED BY <1>7, <1>9 DEF U

-----------------------------------------------------------------------------
(* The invariant holds at first                                            *)

\* Nothing was triggered yet.
LEMMA InvInit == Init => Inv
<1> SUFFICES ASSUME Init PROVE Inv
  OBVIOUS
<1>1. \A g \in Groups : Size[g[1]] \in Nat \ {0}
  BY GroupParts, ConstTypes
<1>2. SourceInv
  <2>1. 1 \in Steps
    BY ConstTypes DEF Steps
  <2>2. step \in Steps
    BY <2>1 DEF Init
  <2>3. queue \in Seq(Groups) /\ IsInjective(queue) /\ ToSet(queue) = {}
    BY DEF Init, IsInjective, ToSet
  <2> QED BY <2>2, <2>3 DEF Init, SourceInv
<1>3. GroupInv
  BY <1>1 DEF Init, GroupInv
<1>4. EpochInv
  <2>1. ASSUME NEW ep \in Epochs
        PROVE  Complete(ep) = {} /\ EpochGroups(ep) # {} /\ RolloutsOf(Complete(ep)) = {}
    <3>1. Complete(ep) = {}
      BY <1>1 DEF Complete, Init, EpochGroups
    <3> QED BY <3>1, EpochGroupsShape DEF RolloutsOf
  <2> QED BY <2>1 DEF Init, EpochInv
<1> QED BY <1>2, <1>3, <1>4 DEF Inv

-----------------------------------------------------------------------------
(* EvalSource                                                              *)

\* A trigger for a step that nothing queued or opened belongs to.
LEMMA TriggerStep ==
    ASSUME NEW s \in Steps, SourceInv, Trigger(s),
           \A g \in ToSet(queue) \cup opened : g[2] < s
    PROVE  /\ triggered' \subseteq Epochs
           /\ queue' \in Seq(Groups) /\ IsInjective(queue')
           /\ ToSet(queue') \cap opened = {}
           /\ \A g \in ToSet(queue') : g[2] <= s
<1> DEFINE q == RoundRobin(Fired(s), s)
<1>1. Fired(s) \in SUBSET Envs
  BY DEF Fired
<1>2. /\ q \in Seq(Groups) /\ IsInjective(q)
      /\ ToSet(q) = {g \in Groups : g[1] \in Fired(s) /\ g[2] = s}
  BY <1>1, RoundRobinContent
<1>3. queue \in Seq(Groups) /\ IsInjective(queue) /\ ToSet(queue) \cap opened = {}
  BY DEF SourceInv
<1>4. queue' = queue \o q
  BY DEF Trigger
<1>5. \A g \in Groups : g[2] \in Int
  BY GroupParts DEF Steps
<1>6. ToSet(queue) \subseteq Groups /\ opened \subseteq Groups /\ s \in Int
  BY <1>3, ToSetSeq DEF SourceInv, Steps
<1> HIDE DEF q
<1>7. ToSet(queue) \cap ToSet(q) = {} /\ ToSet(q) \cap opened = {}
  BY <1>2, <1>5, <1>6
<1>8. queue' \in Seq(Groups) /\ IsInjective(queue') /\ ToSet(queue') = ToSet(queue) \cup ToSet(q)
  BY <1>2, <1>3, <1>4, <1>7, InjectiveConcat, ToSetConcat
<1>9. \A g \in ToSet(queue') : g[2] <= s
  BY <1>2, <1>5, <1>6, <1>8
<1>10. triggered' \subseteq Epochs
  BY <1>1 DEF Trigger, SourceInv, Epochs
<1> QED BY <1>3, <1>7, <1>8, <1>9, <1>10

\* Only triggers and openings concern the source.
LEMMA SourceStep == Inv /\ [Next]_vars => SourceInv'
<1> SUFFICES ASSUME Inv, [Next]_vars PROVE SourceInv'
  OBVIOUS
<1> USE DEF Inv
<1>1. CASE Start
  <2>1. queue = <<>> /\ opened = {} /\ step \in Steps /\ Trigger(step)
    BY <1>1 DEF Start, SourceInv
  <2>2. ToSet(queue) = {}
    BY <2>1 DEF ToSet
  <2>3. /\ triggered' \subseteq Epochs
        /\ queue' \in Seq(Groups) /\ IsInjective(queue')
        /\ ToSet(queue') \cap opened = {}
        /\ \A g \in ToSet(queue') : g[2] <= step
    BY <2>1, <2>2, TriggerStep
  <2>4. started' = TRUE /\ step' = step /\ opened' = opened /\ first_trigger' = FALSE /\ skipFirst' = skipFirst
    BY <1>1 DEF Start, Trigger
  <2> QED BY <2>1, <2>3, <2>4 DEF SourceInv
<1>2. CASE Ship
  <2>1. step \in Steps /\ step + 1 \in Steps /\ Trigger(step + 1)
    BY <1>2, ConstTypes DEF Ship, SourceInv, Steps
  <2>2. \A g \in ToSet(queue) \cup opened : g \in Groups /\ g[2] \in Int /\ g[2] <= step
    BY GroupParts, ToSetSeq DEF SourceInv, Steps
  <2>3. \A g \in ToSet(queue) \cup opened : g[2] < step + 1 /\ g[2] <= step + 1
    BY <2>1, <2>2 DEF Steps
  <2>4. /\ triggered' \subseteq Epochs
        /\ queue' \in Seq(Groups) /\ IsInjective(queue')
        /\ ToSet(queue') \cap opened = {}
        /\ \A g \in ToSet(queue') : g[2] <= step + 1
    BY <2>1, <2>3, TriggerStep
  <2>5. /\ started' = started /\ started /\ step' = step + 1 /\ opened' = opened
        /\ first_trigger' = FALSE /\ skipFirst' = skipFirst
    BY <1>2 DEF Ship, Trigger
  <2> QED BY <2>1, <2>3, <2>4, <2>5 DEF SourceInv
<1>3. CASE Open
  <2>1. queue \in Seq(Groups) /\ queue # <<>> /\ IsInjective(queue)
    BY <1>3 DEF Open, SourceInv
  <2>2. /\ Tail(queue) \in Seq(Groups) /\ IsInjective(Tail(queue))
        /\ Head(queue) \in ToSet(queue) /\ ToSet(Tail(queue)) = ToSet(queue) \ {Head(queue)}
    BY <2>1, InjectiveTail
  <2>3. ToSet(queue) \subseteq Groups
    BY <2>1, ToSetSeq
  <2>4. started
    BY <2>1 DEF SourceInv
  <2>5. /\ queue' = Tail(queue) /\ opened' = opened \cup {Head(queue)}
        /\ started' = started /\ step' = step /\ first_trigger' = first_trigger
        /\ skipFirst' = skipFirst /\ triggered' = triggered
    BY <1>3 DEF Open
  <2> QED BY <2>2, <2>3, <2>4, <2>5 DEF SourceInv
<1>4. ASSUME NEW g \in Groups, Arrives(g) PROVE SourceInv'
  BY <1>4 DEF Arrives, SourceInv, sourceVars
<1>5. CASE UNCHANGED vars
  BY <1>5 DEF SourceInv, vars, sourceVars
<1> QED BY <1>1, <1>2, <1>3, <1>4, <1>5 DEF Next

-----------------------------------------------------------------------------
(* EvalSink                                                                *)

\* An arrival is stored, completes a group, or completes an epoch too.
LEMMA ArrivesStep ==
    ASSUME Inv, NEW g \in Groups, Arrives(g)
    PROVE  GroupInv' /\ EpochInv'
<1> USE DEF Inv
<1> DEFINE n == Size[g[1]]
           a == arrived[g]
           ep == Bkey(g)
           group == {<<g, i>> : i \in 1..(a + 1)}
           G == Complete(ep)
           All == EpochGroups(ep)
<1>1. n \in Nat \ {0} /\ a \in Nat /\ a < n
  BY GroupParts, ConstTypes DEF GroupInv, Arrives
<1>2. ep \in Epochs /\ ep[1] = g[1] /\ g \in All
  BY GroupParts DEF Bkey, Epochs, EpochGroups
<1>3. pending_groups[g] \cup {<<g, a + 1>>} = group
  <2>1. pending_groups[g] = {<<g, i>> : i \in 1..a}
    BY <1>1 DEF GroupInv
  <2>2. 1..(a + 1) = (1..a) \cup {a + 1}
    BY <1>1
  <2> QED BY <2>1, <2>2
<1>4. Cardinality(group) = a + 1
  <2>1. a + 1 \in Nat
    BY <1>1
  <2> QED BY <2>1, CountUpTo
<1>5. g \notin G /\ G \in SUBSET All /\ G # All
  BY <1>1, <1>2 DEF Complete
<1>6. pending_batches[ep] = RolloutsOf(G) /\ reported[ep] = <<>>
  BY <1>2, <1>5 DEF EpochInv
<1> DEFINE bucket == Bucket(g, group)
           done == Cardinality(bucket) >= EpochSize(g[1])
<1>7. /\ arrived' = [arrived EXCEPT ![g] = a + 1]
      /\ pending_groups' = [pending_groups EXCEPT ![g] = IF group \subseteq bucket THEN {} ELSE group]
      /\ pending_batches' = [pending_batches EXCEPT ![ep] = IF done THEN {} ELSE bucket]
      /\ reported' = [reported EXCEPT ![ep] = IF done THEN Append(reported[ep], bucket) ELSE reported[ep]]
  BY <1>3 DEF Arrives
<1>8. arrived' \in [Groups -> Nat] /\ arrived'[g] = a + 1
      /\ \A h \in Groups : h # g => arrived'[h] = arrived[h]
  BY <1>1, <1>7 DEF GroupInv
<1>9. group \in SUBSET (Groups \X Nat) /\ <<g, a + 1>> \in group
  BY <1>1
<1>10. RolloutsOf(G) \in SUBSET (Groups \X Nat) /\ <<g, a + 1>> \notin RolloutsOf(G)
  <2>1. G \subseteq Groups
    BY DEF Complete, EpochGroups
  <2> QED BY <1>5, <2>1 DEF RolloutsOf
<1>11. \A e \in Epochs : e # ep => Complete(e)' = Complete(e)
  <2>1. \A e \in Epochs : \A h \in EpochGroups(e) : e # ep => h \in Groups /\ h # g
    BY DEF EpochGroups, Bkey
  <2> QED BY <1>8, <2>1 DEF Complete, EpochGroups
<1>12. \A h \in EpochGroups(ep) : h \in Groups
  BY DEF EpochGroups
<1>13. bucket = RolloutsOf(G) \cup IF a + 1 >= n THEN group ELSE {}
  <2>1. bucket = pending_batches[ep] \cup IF Cardinality(group) >= n THEN group ELSE {}
    BY DEF Bucket
  <2> HIDE DEF bucket, group, ep, G, n, a
  <2> QED BY <1>4, <1>6, <2>1
<1>14. ASSUME NEW H \in SUBSET All, H # All
       PROVE  ~ (Cardinality(RolloutsOf(H)) >= EpochSize(g[1]))
  <2>1. /\ IsFiniteSet(RolloutsOf(H))
        /\ Cardinality(RolloutsOf(H)) < EpochSize(ep[1])
    <3> HIDE DEF ep
    <3> QED BY <1>2, <1>14, PartCount DEF All
  <2>2. Cardinality(RolloutsOf(H)) \in Nat /\ EpochSize(g[1]) \in Nat
    BY <2>1, FS_CardinalityType, GroupParts, ConstTypes DEF EpochSize
  <2> HIDE DEF ep
  <2> QED BY <1>2, <2>1, <2>2
<1>15. <<>> \in Seq(SUBSET (Groups \X Nat))
  OBVIOUS
<1>16. ASSUME NEW p \in SUBSET (Groups \X Nat),
              pending_groups' = [pending_groups EXCEPT ![g] = p],
              p = IF a + 1 < n THEN group ELSE {}
       PROVE  GroupInv'
  <2>1. pending_groups \in [Groups -> SUBSET (Groups \X Nat)]
    BY DEF GroupInv
  <2>2. /\ pending_groups' \in [Groups -> SUBSET (Groups \X Nat)] /\ pending_groups'[g] = p
        /\ \A h \in Groups : h # g => pending_groups'[h] = pending_groups[h]
    BY <1>16, <2>1
  <2>3. ASSUME NEW h \in Groups
        PROVE  /\ arrived'[h] <= Size[h[1]]
               /\ pending_groups'[h] =
                    IF arrived'[h] < Size[h[1]] THEN {<<h, i>> : i \in 1..arrived'[h]} ELSE {}
    <3>1. CASE h = g
      BY <1>1, <1>8, <1>16, <2>2, <3>1
    <3>2. CASE h # g
      BY <1>8, <2>2, <3>2 DEF GroupInv
    <3> QED BY <3>1, <3>2
  <2> QED BY <1>8, <2>2, <2>3 DEF GroupInv
<1>17. ASSUME NEW C, Complete(ep)' = C, NEW b \in SUBSET (Groups \X Nat), NEW r,
              pending_batches' = [pending_batches EXCEPT ![ep] = b],
              reported' = [reported EXCEPT ![ep] = r],
              r \in Seq(SUBSET (Groups \X Nat)),
              IF C = All THEN b = {} /\ r = <<RolloutsOf(All)>>
              ELSE b = RolloutsOf(C) /\ r = <<>>
       PROVE  EpochInv'
  <2> HIDE DEF ep
  <2>1. /\ pending_batches \in [Epochs -> SUBSET (Groups \X Nat)]
        /\ reported \in [Epochs -> Seq(SUBSET (Groups \X Nat))]
    BY DEF EpochInv
  <2>2. /\ pending_batches' \in [Epochs -> SUBSET (Groups \X Nat)]
        /\ reported' \in [Epochs -> Seq(SUBSET (Groups \X Nat))]
    BY <1>17, <2>1
  <2>3. pending_batches'[ep] = b /\ reported'[ep] = r
    BY <1>2, <1>17, <2>1
  <2>4. \A e \in Epochs : e # ep => pending_batches'[e] = pending_batches[e] /\ reported'[e] = reported[e]
    BY <1>17, <2>1
  <2>5. \A h : RolloutsOf(h)' = RolloutsOf(h) /\ EpochGroups(h)' = EpochGroups(h)
    BY DEF RolloutsOf, EpochGroups
  <2>6. ASSUME NEW e \in Epochs
        PROVE  IF Complete(e)' = EpochGroups(e)
               THEN pending_batches'[e] = {} /\ reported'[e] = <<RolloutsOf(EpochGroups(e))>>
               ELSE pending_batches'[e] = RolloutsOf(Complete(e)') /\ reported'[e] = <<>>
    <3>1. CASE e = ep
      BY <1>17, <2>3, <3>1 DEF All
    <3>2. CASE e # ep
      <4>1. Complete(e)' = Complete(e) /\ pending_batches'[e] = pending_batches[e]
            /\ reported'[e] = reported[e]
        BY <1>11, <2>4, <3>2
      <4> QED BY <4>1 DEF EpochInv
    <3> QED BY <3>1, <3>2
  <2> QED BY <2>2, <2>5, <2>6 DEF EpochInv
\* The group is still incomplete.
<1>18. CASE a + 1 < n
  <2>1. bucket = RolloutsOf(G)
    <3> HIDE DEF bucket, group, G, n, a
    <3> QED BY <1>1, <1>13, <1>18
  <2>2. ~ (group \subseteq bucket)
    <3> HIDE DEF bucket, group, G
    <3> QED BY <1>9, <1>10, <2>1
  <2>3. ~ done
    <3> HIDE DEF bucket, G, All
    <3> QED BY <1>5, <1>14, <2>1
  <2>4. Complete(ep)' = G
    <3>1. \A h \in All : arrived'[h] = Size[h[1]] <=> arrived[h] = Size[h[1]]
      BY <1>1, <1>8, <1>12, <1>18
    <3> QED BY <3>1 DEF Complete, EpochGroups
  <2> HIDE DEF bucket, group, ep, done, G, All
  <2>5. GroupInv'
    BY <1>7, <1>9, <1>18, <1>16, <2>2
  <2>6. /\ pending_batches' = [pending_batches EXCEPT ![ep] = bucket]
        /\ reported' = [reported EXCEPT ![ep] = <<>>]
    BY <1>6, <1>7, <2>3
  <2>7. EpochInv'
    BY <1>5, <1>10, <1>17, <1>15, <2>1, <2>4, <2>6
  <2> QED BY <2>5, <2>7
\* The group is complete and moves into the bucket.
<1>19. CASE a + 1 = n
  <2>1. bucket = RolloutsOf(G) \cup group
    <3> HIDE DEF bucket, group, G, n, a
    <3> QED BY <1>1, <1>13, <1>19
  <2>2. bucket = RolloutsOf(G \cup {g})
    <3>1. RolloutsOf(G \cup {g}) = RolloutsOf(G) \cup {<<g, i>> : i \in 1..n}
      BY DEF RolloutsOf
    <3>2. group = {<<g, i>> : i \in 1..n}
      BY <1>19
    <3> HIDE DEF bucket, group, G, n
    <3> QED BY <2>1, <3>1, <3>2
  <2>3. Complete(ep)' = G \cup {g}
    <3>1. \A h \in All : arrived'[h] = Size[h[1]] <=> arrived[h] = Size[h[1]] \/ h = g
      BY <1>1, <1>8, <1>12, <1>19
    <3> QED BY <1>2, <3>1 DEF Complete, EpochGroups
  <2>4. bucket \in SUBSET (Groups \X Nat) /\ group \subseteq bucket
    <3> HIDE DEF bucket, group, G
    <3> QED BY <1>9, <1>10, <2>1
  <2>5. GroupInv'
    <3>1. ~ (a + 1 < n)
      BY <1>1, <1>19
    <3> HIDE DEF bucket, group, ep, done, n, a
    <3> QED BY <1>7, <1>16, <2>4, <3>1
  <2>6. CASE G \cup {g} = All
    <3>1. done
      <4>1. Cardinality(RolloutsOf(All)) = EpochSize(ep[1])
        <5> HIDE DEF ep
        <5> QED BY <1>2, EpochCount DEF All
      <4>2. EpochSize(g[1]) \in Nat
        BY GroupParts, ConstTypes DEF EpochSize
      <4> HIDE DEF ep, G, All, bucket
      <4> QED BY <1>2, <2>2, <2>6, <4>1, <4>2
    <3> HIDE DEF bucket, group, done, G, All, ep
    <3>2. bucket = RolloutsOf(All)
      BY <2>2, <2>6
    <3>3. /\ pending_batches' = [pending_batches EXCEPT ![ep] = {}]
          /\ reported' = [reported EXCEPT ![ep] = <<RolloutsOf(All)>>]
      BY <1>6, <1>7, <3>1, <3>2
    <3>4. <<RolloutsOf(All)>> \in Seq(SUBSET (Groups \X Nat))
      BY <2>4, <3>2
    <3>5. EpochInv'
      BY <1>17, <2>3, <2>6, <3>3, <3>4
    <3> QED BY <2>5, <3>5
  <2>7. CASE G \cup {g} # All
    <3> HIDE DEF bucket, group, done, G, All, ep
    <3>1. ~ done
      BY <1>2, <1>5, <1>14, <2>2, <2>7 DEF done
    <3>2. /\ pending_batches' = [pending_batches EXCEPT ![ep] = bucket]
          /\ reported' = [reported EXCEPT ![ep] = <<>>]
      BY <1>6, <1>7, <3>1
    <3>3. EpochInv'
      BY <1>17, <1>15, <2>2, <2>3, <2>4, <2>7, <3>2
    <3> QED BY <2>5, <3>3
  <2> QED BY <2>6, <2>7
<1> QED
  <2> HIDE DEF n, a
  <2> QED BY <1>1, <1>18, <1>19

\* Every step preserves the invariant.
LEMMA InvNext == Inv /\ [Next]_vars => Inv'
<1> SUFFICES ASSUME Inv, [Next]_vars PROVE GroupInv' /\ EpochInv'
  BY SourceStep DEF Inv
<1>1. ASSUME UNCHANGED <<arrived, sinkVars>> PROVE GroupInv' /\ EpochInv'
  BY <1>1 DEF Inv, GroupInv, EpochInv, Complete, sinkVars
<1>2. CASE Start
  BY <1>1, <1>2 DEF Start, Trigger
<1>3. CASE Ship
  BY <1>1, <1>3 DEF Ship, Trigger
<1>4. CASE Open
  BY <1>1, <1>4 DEF Open
<1>5. ASSUME NEW g \in Groups, Arrives(g) PROVE GroupInv' /\ EpochInv'
  BY <1>5, ArrivesStep
<1>6. CASE UNCHANGED vars
  BY <1>1, <1>6 DEF vars
<1> QED BY <1>2, <1>3, <1>4, <1>5, <1>6 DEF Next

\* The invariant holds always.
LEMMA InvAlways == Spec => []Inv
BY InvInit, InvNext, PTL DEF Spec

-----------------------------------------------------------------------------
(* What follows                                                            *)

\* Types: no example is queued twice or again after it was opened, and the
\* sink holds only rollouts that arrived (EvalSource.trigger, EvalSink.add).
THEOREM TypesCorrect == Spec => []TypeOK
<1>1. Inv => TypeOK
  <2> SUFFICES ASSUME Inv PROVE TypeOK
    OBVIOUS
  <2> USE DEF Inv
  <2>1. ToSet(queue) \subseteq Groups \ opened
    <3>1. ToSet(queue) \subseteq Groups
      BY ToSetSeq DEF SourceInv
    <3> QED BY <3>1 DEF SourceInv
  <2>2. Cardinality(ToSet(queue)) = Len(queue)
    BY InjectiveCount DEF SourceInv
  <2>3. \A g \in Groups : pending_groups[g] \subseteq {<<g, i>> : i \in 1..arrived[g]}
    BY DEF GroupInv
  <2>4. \A ep \in Epochs : pending_batches[ep] \subseteq RolloutsOf(EpochGroups(ep))
    <3>1. \A ep \in Epochs : RolloutsOf(Complete(ep)) \subseteq RolloutsOf(EpochGroups(ep))
      BY DEF RolloutsOf, Complete
    <3> QED BY <3>1 DEF EpochInv
  <2> QED BY <2>1, <2>2, <2>3, <2>4 DEF TypeOK, SourceInv, GroupInv
<1> QED BY <1>1, InvAlways, PTL

\* An epoch is reported at most once and with exactly the rollouts of its own
\* examples, however epochs interleave (EvalSink.add, process_group).
THEOREM EpochsExact == Spec => []EpochExact
<1>1. Inv => EpochExact
  BY DEF Inv, EpochInv, EpochExact
<1> QED BY <1>1, InvAlways, PTL
===============================================================================
