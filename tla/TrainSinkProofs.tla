----------------------------- MODULE TrainSinkProofs -----------------------------
(***************************************************************************)
(* Proofs about TrainSink for every set of groups, group sizes, token      *)
(* counts and batch sizes.  Only complete groups leave pending_groups, so  *)
(* what an arrival changes and what process_batch moves never overlap:     *)
(* Placed says where the rollouts of complete groups are, Add how a group  *)
(* that completes enters it and Take how a cohort leaves it.               *)
(***************************************************************************)
EXTENDS TrainSink, SeqToolsProofs

\* Rollouts of complete groups, when arr rollouts of each group arrived.
Settled(arr) == {r \in Rollouts : arr[r[1]] = Size[r[1]]}

\* A rollout of a complete group that process_group or a filter rejects.
Lost(r, err, flag) ==
    r \in err \cup flag \/ (r[1] \in Scored /\ \E x \in err : x[1] = r[1])

\* Every rollout of a complete group is in the batch or in one of the cohorts,
\* or it is lost; those sent were in a cohort and are not lost since.
Placed(done, err, flag, bad, batch, cohs, sent) ==
    /\ flag \subseteq done
    /\ batch \in Seq(done) /\ IsInjective(batch)
    /\ cohs \subseteq Seq(done)
    /\ \A c \in cohs : IsInjective(c) /\ ToSet(c) \cap ToSet(batch) = {}
    /\ \A c, d \in cohs : c = d \/ ToSet(c) \cap ToSet(d) = {}
    /\ \A r \in ToSet(batch) : ~ Lost(r, err, flag)
    /\ \A r \in done : \/ Lost(r, err, flag) \/ r \in ToSet(batch)
                       \/ \E c \in cohs : r \in ToSet(c)
    /\ sent \in [Rollouts -> Nat]
    /\ \A r \in Rollouts :
        sent[r] > 0 => /\ sent[r] = 1 /\ ~ Lost(r, err, flag) /\ r \notin bad
                       /\ \E c \in cohs : r \in ToSet(c)

LoopInv ==
    /\ batching \in Batchings
    /\ main \in {"collect", "drain", "failed"}
    /\ step \in 1..(MaxSteps + 1)
    /\ empties \in 0..MaxEmpty /\ (main # "failed" => empties < MaxEmpty)

\* A group waits in the order of arrival until it is complete.
ArrivalInv ==
    /\ arrived \in [Groups -> Nat] /\ \A g \in Groups : arrived[g] <= Size[g]
    /\ pending_groups \in [Groups -> Seq(Groups \X Nat)]
    /\ \A g \in Groups :
        pending_groups[g] =
            IF arrived[g] < Size[g] THEN [i \in 1..arrived[g] |-> <<g, i>>] ELSE <<>>
    /\ UNION {errored, bare, pending_rollouts} \subseteq Arrived

PlacedInv ==
    Placed(Settled(arrived), errored, filtered, bare, pending_batch, cohorts, shipped)

Inv ==
    /\ LoopInv /\ ArrivalInv /\ PlacedInv
    /\ pending_tokens = TokensOf(pending_batch)
    /\ CohortsFull /\ NoFullBatchWaits

-----------------------------------------------------------------------------
(* Groups, rollouts and tokens                                             *)

\* The types of the constants.
LEMMA ConstTypes ==
    /\ Size \in [Groups -> Nat \ {0}] /\ Tokens \in [Groups -> Nat \ {0}]
    /\ BatchSize \in Nat \ {0} /\ TokenBatchSize \in Nat \ {0}
    /\ MaxSteps \in Nat \ {0} /\ MaxEmpty \in Nat \ {0}
    /\ Batchings \subseteq {"rollouts", "tokens"}
BY TrainAssumption

\* A rollout is a group and an index.
LEMMA RolloutParts ==
    /\ \A r \in Rollouts : r = <<r[1], r[2]>> /\ r[1] \in Groups /\ r[2] \in 1..Size[r[1]]
    /\ \A g \in Groups : \A i \in 1..Size[g] : <<g, i>> \in Rollouts
    /\ Rollouts \subseteq Groups \X Nat
<1>1. \A g \in Groups : \A i \in 1..Size[g] : <<g, i>> \in Rollouts
  BY DEF Rollouts
<1>2. ASSUME NEW r \in Rollouts
      PROVE  r = <<r[1], r[2]>> /\ r[1] \in Groups /\ r[2] \in 1..Size[r[1]]
  <2>1. \E g \in Groups : \E i \in 1..Size[g] : r = <<g, i>>
    BY DEF Rollouts
  <2> QED BY <2>1
<1>3. \A r \in Rollouts : Size[r[1]] \in Nat
  BY <1>2, ConstTypes
<1>4. Rollouts \subseteq Groups \X Nat
  BY <1>2, <1>3
<1> QED BY <1>1, <1>2, <1>4

\* Those that arrived are the first of their group.
LEMMA ArrivedParts ==
    ASSUME ArrivalInv
    PROVE  /\ Arrived \subseteq Rollouts
           /\ \A r \in Rollouts : r \in Arrived <=> r[2] <= arrived[r[1]]
           /\ Settled(arrived) \subseteq Arrived
<1>1. \A g \in Groups : arrived[g] \in Nat /\ Size[g] \in Nat /\ arrived[g] <= Size[g]
  BY ConstTypes DEF ArrivalInv
<1>2. ASSUME NEW r \in Arrived PROVE r \in Rollouts /\ r[2] <= arrived[r[1]]
  <2>1. PICK g \in Groups : \E i \in 1..arrived[g] : r = <<g, i>>
    BY DEF Arrived
  <2>2. PICK i \in 1..arrived[g] : r = <<g, i>>
    BY <2>1
  <2>3. i \in 1..Size[g] /\ i <= arrived[g]
    BY <1>1
  <2> QED BY <2>2, <2>3, RolloutParts
<1>3. ASSUME NEW r \in Rollouts, r[2] <= arrived[r[1]] PROVE r \in Arrived
  <2>1. r = <<r[1], r[2]>> /\ r[1] \in Groups /\ r[2] \in 1..Size[r[1]]
    BY RolloutParts
  <2>2. r[2] \in 1..arrived[r[1]]
    BY <1>1, <1>3, <2>1
  <2>3. <<r[1], r[2]>> \in Arrived
    BY <2>1, <2>2 DEF Arrived
  <2> QED BY <2>1, <2>3
<1>4. ASSUME NEW r \in Settled(arrived) PROVE r \in Arrived
  <2>1. r \in Rollouts /\ arrived[r[1]] = Size[r[1]]
    BY DEF Settled
  <2>2. r[2] <= arrived[r[1]]
    BY <1>1, <2>1, RolloutParts
  <2> QED BY <1>3, <2>1, <2>2
<1> QED BY <1>2, <1>3, <1>4

\* Token counts of rollouts, which TotalTokens adds up.
Costs(rs) == [i \in DOMAIN rs |-> Tokens[rs[i][1]]]

\* The costs of a concatenation.
LEMMA CostsConcat ==
    ASSUME NEW rs \in Seq(Groups \X Nat), NEW ss \in Seq(Groups \X Nat)
    PROVE  /\ Costs(rs) \in Seq(Nat) /\ Costs(ss) \in Seq(Nat)
           /\ Costs(rs \o ss) = Costs(rs) \o Costs(ss)
<1>1. ASSUME NEW t \in Seq(Groups \X Nat)
      PROVE  /\ Costs(t) \in Seq(Nat) /\ Len(Costs(t)) = Len(t)
             /\ \A i \in 1..Len(t) : Costs(t)[i] = Tokens[t[i][1]]
  <2>1. DOMAIN t = 1..Len(t) /\ Len(t) \in Nat
    OBVIOUS
  <2>2. \A i \in 1..Len(t) : t[i][1] \in Groups
    OBVIOUS
  <2>3. \A i \in 1..Len(t) : Tokens[t[i][1]] \in Nat
    BY <2>2, ConstTypes
  <2> QED BY <2>1, <2>3 DEF Costs
<1>2. rs \o ss \in Seq(Groups \X Nat)
  OBVIOUS
<1>3. Costs(rs) \in Seq(Nat) /\ Costs(ss) \in Seq(Nat) /\ Costs(rs \o ss) \in Seq(Nat)
  BY <1>1, <1>2
<1> DEFINE u == Costs(rs \o ss)
           v == Costs(rs) \o Costs(ss)
<1>4. /\ Len(rs) \in Nat /\ Len(ss) \in Nat /\ Len(rs \o ss) = Len(rs) + Len(ss)
      /\ \A i \in 1..(Len(rs) + Len(ss)) :
            (rs \o ss)[i] = IF i <= Len(rs) THEN rs[i] ELSE ss[i - Len(rs)]
  BY ConcatProperties
<1>5. /\ v \in Seq(Nat) /\ Len(v) = Len(rs) + Len(ss)
      /\ \A i \in 1..(Len(rs) + Len(ss)) :
            v[i] = IF i <= Len(rs) THEN Costs(rs)[i] ELSE Costs(ss)[i - Len(rs)]
  <2>1. Len(Costs(rs)) = Len(rs) /\ Len(Costs(ss)) = Len(ss)
    BY <1>1
  <2> DEFINE x == Costs(rs)
             y == Costs(ss)
  <2>2. x \in Seq(Nat) /\ y \in Seq(Nat) /\ Len(x) = Len(rs) /\ Len(y) = Len(ss)
    BY <1>3, <2>1
  <2>3. /\ x \o y \in Seq(Nat) /\ Len(x \o y) = Len(rs) + Len(ss)
        /\ \A i \in 1..(Len(rs) + Len(ss)) :
              (x \o y)[i] = IF i <= Len(rs) THEN x[i] ELSE y[i - Len(rs)]
    <3> HIDE DEF x, y
    <3> QED BY <2>2, ConcatProperties
  <2> QED BY <2>3
<1>6. ASSUME NEW i \in 1..(Len(rs) + Len(ss)) PROVE u[i] = v[i]
  <2>1. u[i] = Tokens[(rs \o ss)[i][1]]
    BY <1>1, <1>2, <1>4
  <2>2. CASE i <= Len(rs)
    <3>1. i \in 1..Len(rs)
      BY <1>4, <2>2
    <3> HIDE DEF v
    <3> QED BY <1>1, <1>4, <1>5, <2>1, <2>2, <3>1
  <2>3. CASE ~ (i <= Len(rs))
    <3>1. i - Len(rs) \in 1..Len(ss)
      BY <1>4, <2>3
    <3> HIDE DEF v
    <3> QED BY <1>1, <1>4, <1>5, <2>1, <2>3, <3>1
  <2> QED BY <2>2, <2>3
<1>7. u = v
  <2>1. u \in Seq(Nat) /\ Len(u) = Len(rs) + Len(ss)
    BY <1>1, <1>2, <1>3, <1>4
  <2> HIDE DEF u, v
  <2> QED BY <1>5, <1>6, <2>1, SeqEqual
<1> QED BY <1>3, <1>7

\* Tokens of a concatenation, of no rollouts, and of any.
LEMMA TotalTokensConcat ==
    ASSUME NEW rs \in Seq(Groups \X Nat), NEW ss \in Seq(Groups \X Nat)
    PROVE  /\ TotalTokens(rs) \in Nat /\ TotalTokens(ss) \in Nat
           /\ TotalTokens(rs \o ss) = TotalTokens(rs) + TotalTokens(ss)
<1>1. \A t : TotalTokens(t) = SumSeq(Costs(t))
  BY DEF TotalTokens, Costs
<1>2. /\ Costs(rs) \in Seq(Nat) /\ Costs(ss) \in Seq(Nat)
      /\ Costs(rs \o ss) = Costs(rs) \o Costs(ss)
  BY CostsConcat
<1> QED BY <1>1, <1>2, SumSeqType, SumSeqConcat

\* No rollouts, no tokens.
LEMMA TotalTokensEmpty == TotalTokens(<<>>) = 0
<1>1. Costs(<<>>) = <<>>
  BY DEF Costs
<1> QED BY <1>1, SumSeqEmpty DEF TotalTokens, Costs

-----------------------------------------------------------------------------
(* process_batch: the next cohort                                          *)

FullCohort(c) ==
    IF batching = "rollouts" THEN Len(c) = BatchSize
    ELSE TotalTokens(c) >= TokenBatchSize /\ TotalTokens(Front(c)) < TokenBatchSize

\* A batch that is due has a cohort of the size asked for, and Cut finds it.
LEMMA CutFull ==
    ASSUME NEW batch \in Seq(Groups \X Nat), batching \in {"rollouts", "tokens"},
           Ready(batch, TokensOf(batch))
    PROVE  /\ Cut(batch) \in 1..Len(batch)
           /\ FullCohort(SubSeq(batch, 1, Cut(batch)))
           /\ batching = "rollouts" => Cut(batch) = BatchSize
<1> DEFINE L == Len(batch)
           Pre(k) == SubSeq(batch, 1, k)
           K == {k \in 1..L : TotalTokens(Pre(k)) >= TokenBatchSize}
<1>1. L \in Nat /\ BatchSize \in Nat \ {0} /\ TokenBatchSize \in Nat \ {0}
  BY ConstTypes
<1>2. CASE batching = "rollouts"
  <2>1. L >= BatchSize /\ Cut(batch) = BatchSize
    BY <1>2 DEF Ready, Cut
  <2>2. BatchSize \in 1..L /\ BatchSize \in 0..L
    BY <1>1, <2>1
  <2>3. Len(SubSeq(batch, 1, BatchSize)) = BatchSize
    BY <2>2, Split
  <2> QED BY <1>2, <2>1, <2>2, <2>3 DEF FullCohort
<1>3. CASE batching # "rollouts"
  <2>1. TotalTokens(batch) >= TokenBatchSize
    BY <1>3 DEF Ready, TokensOf
  <2>2. \A k \in 0..L : Pre(k) \in Seq(Groups \X Nat) /\ Len(Pre(k)) = k /\ TotalTokens(Pre(k)) \in Nat
    <3>1. \A k \in 0..L : Pre(k) \in Seq(Groups \X Nat) /\ Len(Pre(k)) = k
      BY Split
    <3> HIDE DEF Pre
    <3> QED BY <3>1, TotalTokensConcat
  <2>3. L # 0
    <3>1. L = 0 => batch = <<>>
      OBVIOUS
    <3> QED BY <1>1, <2>1, <3>1, TotalTokensEmpty
  <2>4. Pre(L) = batch
    OBVIOUS
  <2>5. L \in K
    <3> HIDE DEF Pre
    <3> QED BY <1>1, <2>1, <2>3, <2>4
  <2> DEFINE n == Min(K \cup {L})
  <2>6. Cut(batch) = n
    BY <1>3 DEF Cut
  <2>7. K \cup {L} = K /\ K \in SUBSET Nat /\ K # {}
    <3> HIDE DEF Pre
    <3> QED BY <1>1, <2>5
  <2>8. n \in K /\ \A k \in K : n <= k
    <3> HIDE DEF K, L
    <3> QED BY <2>7, MinOf
  <2>9. n \in 1..L /\ TotalTokens(Pre(n)) >= TokenBatchSize
    <3> HIDE DEF n, Pre
    <3> QED BY <2>8
  <2>10. ~ (TotalTokens(Pre(n - 1)) >= TokenBatchSize)
    <3>1. CASE n = 1
      <4>1. Len(Pre(0)) = 0 /\ Pre(0) \in Seq(Groups \X Nat)
        <5> HIDE DEF Pre
        <5> QED BY <1>1, <2>2
      <4>2. Pre(0) = <<>>
        <5> HIDE DEF Pre
        <5> QED BY <4>1
      <4> HIDE DEF n, Pre
      <4> QED BY <1>1, <3>1, <4>2, TotalTokensEmpty
    <3>2. CASE n # 1
      <4> HIDE DEF n, Pre
      <4>1. n - 1 \in 1..L /\ ~ (n <= n - 1)
        BY <1>1, <2>9, <3>2
      <4>2. n - 1 \notin K
        <5> HIDE DEF K
        <5> QED BY <2>8, <4>1
      <4> QED BY <4>1, <4>2
    <3> QED BY <3>1, <3>2
  <2>11. Front(Pre(n)) = Pre(n - 1)
    <3> HIDE DEF n
    <3>1. n \in 0..L /\ n - 1 \in 0..L /\ n \in 1..L
      BY <1>1, <2>9
    <3>2. /\ Pre(n) \in Seq(Groups \X Nat) /\ Len(Pre(n)) = n
          /\ Len(Pre(n - 1)) = n - 1 /\ Pre(n - 1) \in Seq(Groups \X Nat)
      BY <2>2, <3>1
    <3>3. Front(Pre(n)) = SubSeq(Pre(n), 1, n - 1)
      <4> HIDE DEF Pre
      <4> QED BY <3>2, Zenon DEF Front
    <3>4. /\ \A i \in 1..n : Pre(n)[i] = batch[i]
          /\ \A i \in 1..(n - 1) : Pre(n - 1)[i] = batch[i]
      BY <3>1, Split
    <3> HIDE DEF Pre, L
    <3>5. n - 1 \in 0..Len(Pre(n))
      BY <3>1, <3>2
    <3>6. /\ Front(Pre(n)) \in Seq(Groups \X Nat) /\ Len(Front(Pre(n))) = n - 1
          /\ \A i \in 1..(n - 1) : Front(Pre(n))[i] = Pre(n)[i]
      BY <3>2, <3>3, <3>5, Split
    <3>7. \A i \in 1..(n - 1) : Front(Pre(n))[i] = Pre(n - 1)[i]
      BY <1>1, <3>1, <3>4, <3>6
    <3> QED BY <3>2, <3>6, <3>7
  <2>12. TotalTokens(Front(Pre(n))) < TokenBatchSize
    <3>1. n - 1 \in 0..L
      <4> HIDE DEF n
      <4> QED BY <1>1, <2>9
    <3>2. TotalTokens(Pre(n - 1)) \in Nat
      <4> HIDE DEF n, Pre
      <4> QED BY <2>2, <3>1
    <3> HIDE DEF n, Pre
    <3> QED BY <1>1, <2>10, <2>11, <3>2
  <2> HIDE DEF n
  <2> QED BY <1>3, <2>6, <2>9, <2>12 DEF FullCohort
<1> QED BY <1>2, <1>3

-----------------------------------------------------------------------------
(* A group that completes                                                  *)

\* A cohort and what stays behind have the batch's rollouts, each in one of them.
LEMMA ToSetSplit ==
    ASSUME NEW S, NEW s \in Seq(S), IsInjective(s), NEW n \in 0..Len(s)
    PROVE  LET c == SubSeq(s, 1, n)
               rest == SubSeq(s, n + 1, Len(s))
           IN  /\ c \in Seq(S) /\ rest \in Seq(S)
               /\ IsInjective(c) /\ IsInjective(rest)
               /\ ToSet(s) = ToSet(c) \cup ToSet(rest)
               /\ ToSet(c) \cap ToSet(rest) = {}
<1> DEFINE c == SubSeq(s, 1, n)
           rest == SubSeq(s, n + 1, Len(s))
           m == Len(s) - n
<1>1. /\ c \in Seq(S) /\ Len(c) = n /\ rest \in Seq(S) /\ Len(rest) = m
      /\ s = c \o rest
      /\ \A i \in 1..n : c[i] = s[i]
      /\ \A i \in 1..m : rest[i] = s[n + i]
  BY Split
<1>2. Len(s) \in Nat /\ DOMAIN s = 1..Len(s) /\ n \in Nat
  OBVIOUS
<1>3. \A i \in 1..n : i \in 1..Len(s)
  BY <1>2
<1>4. \A i \in 1..m : n + i \in 1..Len(s)
  BY <1>2
<1>5. \A i, j \in 1..Len(s) : s[i] = s[j] => i = j
  BY <1>2 DEF IsInjective
<1> HIDE DEF c, rest
<1>6. DOMAIN c = 1..n /\ DOMAIN rest = 1..m
  BY <1>1, <1>2
<1>7. \A i, j \in 1..n : c[i] = c[j] => i = j
  BY <1>1, <1>3, <1>5
<1>8. \A i, j \in 1..m : rest[i] = rest[j] => i = j
  <2>1. \A i, j \in 1..m : n + i = n + j => i = j
    BY <1>2
  <2> QED BY <1>1, <1>4, <1>5, <2>1
<1>9. IsInjective(c) /\ IsInjective(rest)
  BY <1>6, <1>7, <1>8 DEF IsInjective
<1>10. ToSet(s) = ToSet(c) \cup ToSet(rest)
  BY <1>1, ToSetConcat
<1>11. ToSet(c) \cap ToSet(rest) = {}
  <2>1. ASSUME NEW i \in 1..n, NEW j \in 1..m, c[i] = rest[j] PROVE FALSE
    <3>1. s[i] = s[n + j]
      BY <1>1, <2>1
    <3>2. i = n + j
      BY <1>3, <1>4, <1>5, <3>1
    <3> QED BY <1>2, <3>2
  <2> QED BY <1>6, <2>1 DEF ToSet
<1> QED BY <1>1, <1>9, <1>10, <1>11 DEF c, rest

\* Add: the rollouts of a group that completes enter the batch or are lost,
\* and an error of theirs is not one of the groups that were complete.
LEMMA AddKeeps ==
    ASSUME NEW done, NEW err, NEW flag, NEW bad, NEW batch, NEW cohs, NEW sent,
           Placed(done, err, flag, bad, batch, cohs, sent),
           NEW done2, NEW err2, NEW bad2, NEW drop, NEW added,
           done \subseteq done2, done2 \subseteq Rollouts,
           err \subseteq err2, \A r \in done : \A x \in err2 \ err : x[1] # r[1],
           done \cap (bad2 \ bad) = {},
           drop \subseteq done2 \ done,
           added \in Seq(done2), IsInjective(added), ToSet(added) \subseteq done2 \ done,
           \A r \in done2 \ done : r \in ToSet(added) <=> ~ Lost(r, err2, drop)
    PROVE  Placed(done2, err2, flag \cup drop, bad2, batch \o added, cohs, sent)
<1> DEFINE batch2 == batch \o added
           flag2 == flag \cup drop
<1>1. \A r \in done : Lost(r, err2, flag2) <=> Lost(r, err, flag)
  BY DEF Lost
<1>2. flag2 \subseteq done2
  BY DEF Placed
<1>3. batch \in Seq(done) /\ IsInjective(batch) /\ ToSet(batch) \subseteq done
  BY ToSetSeq DEF Placed
<1>4. batch \in Seq(done2)
  BY <1>3
<1>5. batch2 \in Seq(done2) /\ IsInjective(batch2) /\ ToSet(batch2) = ToSet(batch) \cup ToSet(added)
  BY <1>3, <1>4, InjectiveConcat, ToSetConcat
<1>6. cohs \subseteq Seq(done) /\ cohs \subseteq Seq(done2)
  BY DEF Placed
<1>7. \A c \in cohs : ToSet(c) \subseteq done
  BY <1>6, ToSetSeq
<1>8. \A c \in cohs : IsInjective(c) /\ ToSet(c) \cap ToSet(batch2) = {}
  BY <1>5, <1>7 DEF Placed
<1>9. \A r \in done2 \ done : Lost(r, err2, flag2) <=> Lost(r, err2, drop)
  BY DEF Lost, Placed
<1>10. \A r \in ToSet(batch2) : ~ Lost(r, err2, flag2)
  BY <1>1, <1>3, <1>5, <1>9 DEF Placed
<1>11. ASSUME NEW r \in done2
       PROVE  Lost(r, err2, flag2) \/ r \in ToSet(batch2) \/ \E c \in cohs : r \in ToSet(c)
  <2>1. CASE r \in done
    BY <1>1, <1>5, <2>1 DEF Placed
  <2>2. CASE r \notin done
    BY <1>5, <1>9, <2>2
  <2> QED BY <2>1, <2>2
<1>12. ASSUME NEW r \in Rollouts, sent[r] > 0
       PROVE  /\ sent[r] = 1 /\ ~ Lost(r, err2, flag2) /\ r \notin bad2
              /\ \E c \in cohs : r \in ToSet(c)
  <2>1. sent[r] = 1 /\ ~ Lost(r, err, flag) /\ r \notin bad /\ \E c \in cohs : r \in ToSet(c)
    BY <1>12 DEF Placed
  <2>2. r \in done
    BY <1>7, <2>1
  <2> QED BY <1>1, <2>1, <2>2
<1> HIDE DEF batch2, flag2
<1>13. /\ sent \in [Rollouts -> Nat]
       /\ \A c, d \in cohs : c = d \/ ToSet(c) \cap ToSet(d) = {}
  BY DEF Placed
<1>14. Placed(done2, err2, flag2, bad2, batch2, cohs, sent)
  BY <1>2, <1>5, <1>6, <1>8, <1>10, <1>11, <1>12, <1>13 DEF Placed
<1> QED BY <1>14 DEF batch2, flag2

\* Take: the next cohort leaves the batch, the post-batch filters flag some of
\* it and the others are sent, or none of it is.
LEMMA TakeKeeps ==
    ASSUME NEW done, NEW err, NEW flag, NEW bad, NEW batch, NEW cohs, NEW sent,
           Placed(done, err, flag, bad, batch, cohs, sent),
           done \subseteq Rollouts, NEW n \in 0..Len(batch), NEW hit, NEW sent2,
           LET c == SubSeq(batch, 1, n)
           IN  /\ hit \subseteq ToSet(c)
               /\ \/ sent2 = sent
                  \/ sent2 = [r \in Rollouts |-> sent[r] +
                                IF r \in ToSet(c) \ (hit \cup bad) THEN 1 ELSE 0]
    PROVE  Placed(done, err, flag \cup hit, bad, SubSeq(batch, n + 1, Len(batch)),
                  cohs \cup {SubSeq(batch, 1, n)}, sent2)
<1> DEFINE c == SubSeq(batch, 1, n)
           rest == SubSeq(batch, n + 1, Len(batch))
           flag2 == flag \cup hit
           cohs2 == cohs \cup {c}
<1>1. batch \in Seq(done) /\ IsInjective(batch) /\ ToSet(batch) \subseteq done
  BY ToSetSeq DEF Placed
<1>2. /\ c \in Seq(done) /\ rest \in Seq(done) /\ IsInjective(c) /\ IsInjective(rest)
      /\ ToSet(batch) = ToSet(c) \cup ToSet(rest) /\ ToSet(c) \cap ToSet(rest) = {}
  BY <1>1, ToSetSplit
<1>3. /\ hit \subseteq ToSet(c)
      /\ \/ sent2 = sent
         \/ sent2 = [r \in Rollouts |-> sent[r] + IF r \in ToSet(c) \ (hit \cup bad) THEN 1 ELSE 0]
  OBVIOUS
<1>4. cohs \subseteq Seq(done) /\ \A d \in cohs : IsInjective(d) /\ ToSet(d) \cap ToSet(batch) = {}
  BY DEF Placed
<1>5. /\ sent \in [Rollouts -> Nat] /\ flag \subseteq done
      /\ \A b, d \in cohs : b = d \/ ToSet(b) \cap ToSet(d) = {}
      /\ \A r \in ToSet(batch) : ~ Lost(r, err, flag)
      /\ \A r \in done : Lost(r, err, flag) \/ r \in ToSet(batch) \/ \E d \in cohs : r \in ToSet(d)
      /\ \A r \in Rollouts :
            sent[r] > 0 => /\ sent[r] = 1 /\ ~ Lost(r, err, flag) /\ r \notin bad
                           /\ \E d \in cohs : r \in ToSet(d)
  BY DEF Placed
<1> HIDE DEF c, rest
<1>6. flag2 \subseteq done
  BY <1>1, <1>2, <1>3, <1>5
<1>7. cohs2 \subseteq Seq(done) /\ \A d \in cohs2 : IsInjective(d) /\ ToSet(d) \cap ToSet(rest) = {}
  BY <1>2, <1>4
<1>8. \A b, d \in cohs2 : b = d \/ ToSet(b) \cap ToSet(d) = {}
  BY <1>2, <1>4, <1>5
<1>9. \A r : r \notin hit => (Lost(r, err, flag2) <=> Lost(r, err, flag))
  BY DEF Lost
<1>10. \A r \in ToSet(rest) : ~ Lost(r, err, flag2)
  BY <1>2, <1>3, <1>5, <1>9
<1>11. \A r \in done : Lost(r, err, flag2) \/ r \in ToSet(rest) \/ \E d \in cohs2 : r \in ToSet(d)
  <2>1. \A r : Lost(r, err, flag) => Lost(r, err, flag2)
    BY DEF Lost
  <2> QED BY <1>2, <1>5, <2>1
<1>12. sent2 \in [Rollouts -> Nat]
  BY <1>3, <1>5
<1>13. ASSUME NEW r \in Rollouts, sent2[r] > 0
       PROVE  /\ sent2[r] = 1 /\ ~ Lost(r, err, flag2) /\ r \notin bad
              /\ \E d \in cohs2 : r \in ToSet(d)
  <2>1. CASE sent[r] > 0
    <3>1. /\ sent[r] = 1 /\ ~ Lost(r, err, flag) /\ r \notin bad
          /\ \E d \in cohs : r \in ToSet(d)
      BY <1>5, <2>1
    <3>2. r \notin ToSet(c)
      BY <1>2, <1>4, <3>1
    <3>3. sent2[r] = 1
      BY <1>3, <1>5, <3>1, <3>2
    <3> QED BY <1>3, <1>9, <3>1, <3>2, <3>3
  <2>2. CASE ~ (sent[r] > 0)
    <3>1. sent[r] = 0
      BY <1>5, <2>2
    <3>2. r \in ToSet(c) \ (hit \cup bad) /\ sent2[r] = 1
      BY <1>3, <1>13, <3>1
    <3>3. ~ Lost(r, err, flag)
      BY <1>2, <1>5, <3>2
    <3> QED BY <1>9, <3>2, <3>3
  <2> QED BY <2>1, <2>2
<1>14. Placed(done, err, flag2, bad, rest, cohs2, sent2)
  <2> HIDE DEF flag2, cohs2
  <2> QED BY <1>2, <1>6, <1>7, <1>8, <1>10, <1>11, <1>12, <1>13 DEF Placed
<1> QED BY <1>14 DEF c, rest

-----------------------------------------------------------------------------
(* The invariant holds at first                                            *)

\* Nothing has arrived yet.
LEMMA InvInit == Init => Inv
<1> SUFFICES ASSUME Init PROVE Inv
  OBVIOUS
<1> USE DEF Init
<1>1. LoopInv
  BY ConstTypes DEF LoopInv
<1>2. ArrivalInv
  <2>1. \A g \in Groups : Size[g] \in Nat \ {0}
    BY ConstTypes
  <2>2. [i \in 1..0 |-> i] = <<>>
    OBVIOUS
  <2>3. \A g \in Groups : [i \in 1..0 |-> <<g, i>>] = <<>>
    OBVIOUS
  <2>4. arrived \in [Groups -> Nat] /\ \A g \in Groups : arrived[g] = 0
    OBVIOUS
  <2>5. /\ pending_groups \in [Groups -> Seq(Groups \X Nat)]
        /\ \A g \in Groups : pending_groups[g] = <<>>
    OBVIOUS
  <2>6. \A g \in Groups : arrived[g] <= Size[g]
    BY <2>1, <2>4
  <2>7. \A g \in Groups : pending_groups[g] =
            IF arrived[g] < Size[g] THEN [i \in 1..arrived[g] |-> <<g, i>>] ELSE <<>>
    BY <2>3, <2>4, <2>5
  <2>8. UNION {errored, bare, pending_rollouts} \subseteq Arrived
    OBVIOUS
  <2> QED BY <2>4, <2>5, <2>6, <2>7, <2>8 DEF ArrivalInv
<1>3. PlacedInv
  <2>1. \A r \in Rollouts : arrived[r[1]] = 0 /\ Size[r[1]] \in Nat \ {0}
    BY RolloutParts, ConstTypes
  <2>2. Settled(arrived) = {}
    BY <2>1 DEF Settled
  <2>3. ToSet(pending_batch) = {} /\ IsInjective(pending_batch) /\ pending_batch \in Seq({})
    BY DEF ToSet, IsInjective
  <2>4. shipped \in [Rollouts -> Nat] /\ \A r \in Rollouts : ~ (shipped[r] > 0)
    OBVIOUS
  <2> QED BY <2>2, <2>3, <2>4 DEF PlacedInv, Placed
<1>4. pending_tokens = TokensOf(pending_batch)
  BY TotalTokensEmpty DEF TokensOf
<1>5. CohortsFull /\ NoFullBatchWaits
  <2>1. Len(pending_batch) = 0 /\ BatchSize \in Nat \ {0}
    BY ConstTypes
  <2> QED BY <2>1 DEF CohortsFull, NoFullBatchWaits
<1> QED BY <1>1, <1>2, <1>3, <1>4, <1>5 DEF Inv

-----------------------------------------------------------------------------
(* One arrival                                                             *)

\* The group an arrival makes.
LEMMA GroupShape ==
    ASSUME ArrivalInv, NEW g \in Groups, arrived[g] < Size[g]
    PROVE  LET n == arrived[g] + 1
               group == Append(pending_groups[g], <<g, n>>)
           IN  /\ n \in Nat /\ n <= Size[g]
               /\ group = [i \in 1..n |-> <<g, i>>]
               /\ group \in Seq(Groups \X Nat) /\ Len(group) = n /\ IsInjective(group)
               /\ ToSet(group) = {<<g, i>> : i \in 1..n}
<1> DEFINE a == arrived[g]
           n == a + 1
           group == Append(pending_groups[g], <<g, n>>)
           sq == [i \in 1..n |-> <<g, i>>]
<1>1. a \in Nat /\ Size[g] \in Nat /\ n \in Nat /\ n <= Size[g]
  BY ConstTypes DEF ArrivalInv
<1>2. pending_groups[g] = [i \in 1..a |-> <<g, i>>]
  BY DEF ArrivalInv
<1>3. sq \in Seq(Groups \X Nat) /\ Len(sq) = n
  <2> HIDE DEF a
  <2> QED BY <1>1
<1>4. group = sq
  <2>1. [i \in 1..a |-> <<g, i>>] \in Seq(Groups \X Nat) /\ Len([i \in 1..a |-> <<g, i>>]) = a
    <3> HIDE DEF a
    <3> QED BY <1>1
  <2>2. /\ group \in Seq(Groups \X Nat) /\ Len(group) = n
        /\ \A i \in 1..n : group[i] = IF i <= a THEN pending_groups[g][i] ELSE <<g, n>>
    BY <1>1, <1>2, <2>1
  <2>3. \A i \in 1..n : group[i] = sq[i]
    <3>1. \A i \in 1..n : i <= a \/ i = n
      BY <1>1
    <3>2. \A i \in 1..a : pending_groups[g][i] = <<g, i>>
      BY <1>2
    <3> HIDE DEF a, group
    <3> QED BY <1>1, <2>2, <3>1, <3>2
  <2> HIDE DEF group, sq, n
  <2> QED BY <1>3, <2>2, <2>3, SeqEqual
<1>5. IsInjective(sq) /\ ToSet(sq) = {<<g, i>> : i \in 1..n}
  BY DEF IsInjective, ToSet
<1> HIDE DEF sq
<1>6. /\ group \in Seq(Groups \X Nat) /\ Len(group) = n /\ IsInjective(group)
      /\ ToSet(group) = {<<g, i>> : i \in 1..n}
  BY <1>3, <1>4, <1>5
<1> QED BY <1>1, <1>4, <1>6 DEF sq

\* The rollouts that arrived and those of complete groups.
LEMMA ArrivedGrows ==
    ASSUME ArrivalInv, NEW g \in Groups, arrived[g] < Size[g],
           arrived' = [arrived EXCEPT ![g] = @ + 1]
    PROVE  LET n == arrived[g] + 1
               mine == {<<g, i>> : i \in 1..n}
           IN  /\ arrived' \in [Groups -> Nat] /\ arrived'[g] = n
               /\ \A h \in Groups : h # g => arrived'[h] = arrived[h]
               /\ \A h \in Groups : arrived'[h] <= Size[h]
               /\ Arrived' = Arrived \cup {<<g, n>>}
               /\ Settled(arrived') = Settled(arrived) \cup IF n = Size[g] THEN mine ELSE {}
               /\ mine \cap Settled(arrived) = {} /\ mine \subseteq Arrived'
<1> DEFINE n == arrived[g] + 1
           mine == {<<g, i>> : i \in 1..n}
<1>1. /\ arrived \in [Groups -> Nat] /\ n \in Nat
      /\ \A h \in Groups : Size[h] \in Nat /\ arrived[h] <= Size[h]
  <2>1. \A h \in Groups : Size[h] \in Nat
    BY ConstTypes
  <2>2. arrived \in [Groups -> Nat] /\ \A h \in Groups : arrived[h] <= Size[h]
    BY DEF ArrivalInv
  <2> QED BY <2>1, <2>2
<1>2. /\ arrived' \in [Groups -> Nat] /\ arrived'[g] = n
      /\ \A h \in Groups : h # g => arrived'[h] = arrived[h]
  BY <1>1
<1>3. \A h \in Groups : arrived'[h] <= Size[h]
  BY <1>1, <1>2
<1>4. ASSUME NEW x PROVE x \in Arrived' <=> x \in Arrived \cup {<<g, n>>}
  <2>1. x \in Arrived' <=> \E h \in Groups : \E i \in 1..arrived'[h] : x = <<h, i>>
    BY DEF Arrived
  <2>2. x \in Arrived <=> \E h \in Groups : \E i \in 1..arrived[h] : x = <<h, i>>
    BY DEF Arrived
  <2>3. \A i : i \in 1..n <=> i \in 1..arrived[g] \/ i = n
    BY <1>1
  <2>4. ASSUME x \in Arrived' PROVE x \in Arrived \cup {<<g, n>>}
    <3>1. PICK h \in Groups : \E i \in 1..arrived'[h] : x = <<h, i>>
      BY <2>1, <2>4
    <3>2. PICK i \in 1..arrived'[h] : x = <<h, i>>
      BY <3>1
    <3>3. CASE h = g
      BY <1>2, <2>2, <2>3, <3>2, <3>3
    <3>4. CASE h # g
      BY <1>2, <2>2, <3>2, <3>4
    <3> QED BY <3>3, <3>4
  <2>5. ASSUME x \in Arrived \cup {<<g, n>>} PROVE x \in Arrived'
    <3>1. CASE x = <<g, n>>
      BY <1>2, <2>1, <2>3, <3>1
    <3>2. CASE x \in Arrived
      <4>1. PICK h \in Groups : \E i \in 1..arrived[h] : x = <<h, i>>
        BY <2>2, <3>2
      <4>2. PICK i \in 1..arrived[h] : x = <<h, i>>
        BY <4>1
      <4>3. i \in 1..arrived'[h]
        BY <1>2, <2>3
      <4> QED BY <2>1, <4>2, <4>3
    <3> QED BY <2>5, <3>1, <3>2
  <2> QED BY <2>4, <2>5
<1>5. Arrived' = Arrived \cup {<<g, n>>}
  BY <1>4
<1>6. \A r \in Rollouts : r = <<r[1], r[2]>> /\ r[1] \in Groups /\ r[2] \in 1..Size[r[1]]
  BY RolloutParts
<1>7. n # Size[g] => n < Size[g]
  BY <1>1
<1>8. mine \subseteq Rollouts
  <2>1. \A i \in 1..n : i \in 1..Size[g]
    BY <1>1
  <2> QED BY <2>1, RolloutParts
<1>9. n = Size[g] => \A r \in Rollouts : r[1] = g => r \in mine
  BY <1>6
<1>10. Settled(arrived') = Settled(arrived) \cup IF n = Size[g] THEN mine ELSE {}
  <2> HIDE DEF n
  <2>1. \A r \in Rollouts : r[1] # g => arrived'[r[1]] = arrived[r[1]]
    BY <1>2, <1>6
  <2>2. \A r \in Rollouts : r[1] = g => arrived'[r[1]] = n /\ arrived[r[1]] # Size[r[1]]
    BY <1>1, <1>2
  <2>3. \A r \in mine : r[1] = g
    OBVIOUS
  <2> HIDE DEF mine
  <2>4. ASSUME NEW r \in Rollouts
        PROVE  arrived'[r[1]] = Size[r[1]] <=>
                  arrived[r[1]] = Size[r[1]] \/ (n = Size[g] /\ r \in mine)
    BY <1>9, <2>1, <2>2, <2>3
  <2> QED BY <1>8, <2>4 DEF Settled
<1>11. mine \cap Settled(arrived) = {}
  BY <1>1 DEF Settled
<1>12. mine \subseteq Arrived'
  BY <1>2 DEF Arrived
<1> QED BY <1>1, <1>2, <1>3, <1>5, <1>10, <1>11, <1>12

\* What process_group hands on, in the order of arrival: of a complete group
\* exactly the rollouts that are not lost, of a partial one none.
LEMMA AddedContent ==
    ASSUME ArrivalInv, NEW g \in Groups, arrived[g] < Size[g], NEW err, NEW drop,
           LET group == Append(pending_groups[g], <<g, arrived[g] + 1>>)
           IN  /\ drop \subseteq Survivors(g, group, err)
               /\ \A x \in err : x[1] = g => x \in ToSet(group)
    PROVE  LET n == arrived[g] + 1
               group == Append(pending_groups[g], <<g, n>>)
               survivors == Survivors(g, group, err)
               added == Selected(group, survivors \ drop)
               mine == {<<g, i>> : i \in 1..n}
           IN  /\ added \in Seq(Groups \X Nat) /\ IsInjective(added)
               /\ ToSet(added) \subseteq mine /\ drop \subseteq mine
               /\ Len(added) <= Size[g]
               /\ n # Size[g] => ToSet(added) = {} /\ drop = {}
               /\ n = Size[g] => \A r \in mine : r \in ToSet(added) <=> ~ Lost(r, err, drop)
<1> DEFINE n == arrived[g] + 1
           mine == {<<g, i>> : i \in 1..n}
           group == Append(pending_groups[g], <<g, n>>)
           survivors == Survivors(g, group, err)
           added == Selected(group, survivors \ drop)
           clean == ToSet(group) \ err
<1>1. /\ n \in Nat /\ n <= Size[g] /\ Size[g] \in Nat
      /\ group \in Seq(Groups \X Nat) /\ Len(group) = n /\ IsInjective(group)
      /\ ToSet(group) = mine
  BY GroupShape, ConstTypes
<1>2. drop \subseteq survivors /\ \A x \in err : x[1] = g => x \in ToSet(group)
  OBVIOUS
<1>3. survivors = IF Len(group) < Size[g] \/ (g \in Scored /\ clean # ToSet(group))
                  THEN {} ELSE clean
  BY DEF Survivors
<1>4. \A r \in mine : r[1] = g
  OBVIOUS
<1> HIDE DEF group, survivors, mine
<1>5. /\ added \in Seq(Groups \X Nat) /\ IsInjective(added)
      /\ ToSet(added) = ToSet(group) \cap (survivors \ drop)
  BY <1>1, SelectedContent
<1> HIDE DEF added
<1>6. survivors \subseteq mine
  BY <1>1, <1>3
<1>7. ToSet(added) = survivors \ drop /\ ToSet(added) \subseteq mine /\ drop \subseteq mine
  BY <1>1, <1>2, <1>5, <1>6
<1>8. Len(added) <= Size[g]
  <2>1. /\ IsFiniteSet(ToSet(group)) /\ Cardinality(ToSet(group)) = Len(group)
        /\ Cardinality(ToSet(added)) = Len(added)
    BY <1>1, <1>5, InjectiveCount
  <2>2. ToSet(added) \subseteq ToSet(group)
    BY <1>5
  <2>3. Cardinality(ToSet(added)) <= Cardinality(ToSet(group))
    BY <2>1, <2>2, FS_Subset
  <2>4. Len(added) \in Nat
    BY <1>5
  <2> HIDE DEF n
  <2> QED BY <1>1, <2>1, <2>3, <2>4
<1>9. n # Size[g] => ToSet(added) = {} /\ drop = {}
  <2>1. n # Size[g] => Len(group) < Size[g]
    BY <1>1
  <2> QED BY <1>2, <1>3, <1>7, <2>1
<1>10. ASSUME n = Size[g], NEW r \in mine PROVE r \in ToSet(added) <=> ~ Lost(r, err, drop)
  <2>1. ~ (Len(group) < Size[g])
    BY <1>1, <1>10
  <2>2. clean # ToSet(group) <=> \E x \in err : x[1] = g
    BY <1>1, <1>2, <1>4
  <2>3. r \in survivors <=> r \notin err /\ ~ (g \in Scored /\ \E x \in err : x[1] = g)
    BY <1>1, <1>3, <2>1, <2>2
  <2>4. r[1] = g
    BY <1>4
  <2> QED BY <1>7, <2>3, <2>4 DEF Lost
<1> QED BY <1>5, <1>7, <1>8, <1>9, <1>10 DEF added, survivors, group, mine

\* The batch with what an arrival adds to it, before process_batch.
LEMMA AddStep ==
    ASSUME Inv, NEW g \in Groups, arrived[g] < Size[g],
           arrived' = [arrived EXCEPT ![g] = @ + 1],
           errored' \in {errored, errored \cup {<<g, arrived[g] + 1>>}},
           bare' \in {bare, bare \cup {<<g, arrived[g] + 1>>}},
           NEW drop,
           drop \subseteq Survivors(g, Append(pending_groups[g], <<g, arrived[g] + 1>>), errored')
    PROVE  LET group == Append(pending_groups[g], <<g, arrived[g] + 1>>)
               added == Selected(group, Survivors(g, group, errored') \ drop)
               batch == pending_batch \o added
           IN  /\ Placed(Settled(arrived'), errored', filtered \cup drop, bare', batch,
                         cohorts, shipped)
               /\ batch \in Seq(Groups \X Nat) /\ Settled(arrived') \subseteq Rollouts
               /\ pending_tokens + TokensOf(added) = TokensOf(batch)
               /\ Len(batch) <= Len(pending_batch) + Size[g]
<1> DEFINE r == <<g, arrived[g] + 1>>
           n == arrived[g] + 1
           mine == {<<g, i>> : i \in 1..n}
           group == Append(pending_groups[g], r)
           survivors == Survivors(g, group, errored')
           added == Selected(group, survivors \ drop)
           batch == pending_batch \o added
           done == Settled(arrived)
           done2 == Settled(arrived')
<1>1. ArrivalInv /\ PlacedInv /\ pending_tokens = TokensOf(pending_batch)
  BY DEF Inv
<1>2. ToSet(group) = mine /\ n \in Nat
  BY <1>1, GroupShape
<1>3. /\ done2 = done \cup IF n = Size[g] THEN mine ELSE {}
      /\ mine \cap done = {} /\ r \in mine
      /\ Arrived \subseteq Rollouts
  <2>1. n \in 1..n
    BY <1>1, <1>2 DEF ArrivalInv
  <2>2. r \in mine
    BY <2>1
  <2> QED BY <1>1, <2>2, ArrivedGrows, ArrivedParts
<1>4. errored \subseteq Arrived
  BY <1>1 DEF ArrivalInv
<1>5. \A x \in errored' : x[1] = g => x \in ToSet(group)
  <2>1. ASSUME NEW x \in errored, x[1] = g PROVE x \in mine
    <3>1. x \in Rollouts /\ x[2] <= arrived[g] /\ x = <<g, x[2]>> /\ x[2] \in 1..Size[g]
      BY <1>1, <1>3, <1>4, <2>1, ArrivedParts, RolloutParts
    <3>2. arrived[g] \in Nat /\ Size[g] \in Nat
      BY <1>1, ConstTypes DEF ArrivalInv
    <3>3. x[2] \in 1..n
      BY <3>1, <3>2
    <3> QED BY <3>1, <3>3
  <2> HIDE DEF mine, group
  <2> QED BY <1>2, <1>3, <2>1
<1>6. /\ added \in Seq(Groups \X Nat) /\ IsInjective(added)
      /\ ToSet(added) \subseteq mine /\ drop \subseteq mine
      /\ Len(added) <= Size[g]
      /\ n # Size[g] => ToSet(added) = {} /\ drop = {}
      /\ n = Size[g] => \A x \in mine : x \in ToSet(added) <=> ~ Lost(x, errored', drop)
  BY <1>1, <1>5, AddedContent
<1>7. done \subseteq done2 /\ done2 \subseteq Rollouts /\ done \subseteq Rollouts
  BY <1>3 DEF Settled
<1> HIDE DEF done, done2, mine, added, survivors, group
<1>8. /\ drop \subseteq done2 \ done /\ ToSet(added) \subseteq done2 \ done
      /\ \A x \in done2 \ done : x \in ToSet(added) <=> ~ Lost(x, errored', drop)
  BY <1>3, <1>6
<1>9. added \in Seq(done2)
  <2>1. added \in Seq(Groups \X Nat)
    BY <1>6
  <2>2. \A i \in 1..Len(added) : added[i] \in done2
    BY <1>8, <2>1, ToSetSeq
  <2> QED BY <2>1, <2>2
<1>10. \A x \in done : \A y \in errored' \ errored : y[1] # x[1]
  <2>1. \A x \in done : arrived[x[1]] = Size[x[1]]
    BY DEF done, Settled
  <2>2. \A y \in errored' \ errored : y[1] = g
    OBVIOUS
  <2>3. arrived[g] # Size[g]
    <3>1. arrived[g] \in Nat /\ Size[g] \in Nat
      BY <1>1, ConstTypes DEF ArrivalInv
    <3> QED BY <3>1
  <2> QED BY <2>1, <2>2, <2>3
<1>11. errored \subseteq errored' /\ done \cap (bare' \ bare) = {}
  BY <1>3
<1>12. Placed(done, errored, filtered, bare, pending_batch, cohorts, shipped)
  BY <1>1 DEF PlacedInv, done
<1>13. Placed(done2, errored', filtered \cup drop, bare', batch, cohorts, shipped)
  <2> HIDE DEF batch
  <2>1. batch = pending_batch \o added
    BY DEF batch
  <2> QED BY <1>6, <1>7, <1>8, <1>9, <1>10, <1>11, <1>12, <2>1, AddKeeps
<1>14. pending_batch \in Seq(Groups \X Nat)
  <2>1. pending_batch \in Seq(done)
    BY <1>12 DEF Placed
  <2>2. done \subseteq Groups \X Nat
    BY <1>7, RolloutParts
  <2> QED BY <2>1, <2>2
<1>15. batch \in Seq(Groups \X Nat) /\ Len(batch) = Len(pending_batch) + Len(added)
  BY <1>6, <1>14, ConcatProperties
<1>16. pending_tokens + TokensOf(added) = TokensOf(batch)
  BY <1>1, <1>6, <1>14, TotalTokensConcat DEF TokensOf
<1>17. Len(batch) <= Len(pending_batch) + Size[g]
  <2>1. Len(pending_batch) \in Nat /\ Len(added) \in Nat /\ Size[g] \in Nat
    BY <1>6, <1>14, ConstTypes
  <2> HIDE DEF batch
  <2> QED BY <1>6, <1>15, <2>1
<1> QED BY <1>7, <1>13, <1>15, <1>16, <1>17 DEF batch, added, survivors, group, done2

-----------------------------------------------------------------------------
(* process_batch and the main loop                                         *)

\* Finalising a batch sends its samples or gives up.
LEMMA FinalizeStep ==
    ASSUME LoopInv, main # "failed", NEW samples, Finalize(samples), batching' = batching
    PROVE  /\ LoopInv'
           /\ \/ shipped' = shipped
              \/ shipped' = [r \in Rollouts |-> shipped[r] + IF r \in samples THEN 1 ELSE 0]
<1> USE ConstTypes DEF LoopInv, Finalize, loopVars
<1>1. CASE main = "drain" \/ step > MaxSteps
  BY <1>1
<1>2. CASE ~ (main = "drain" \/ step > MaxSteps) /\ samples = {}
  BY <1>2 DEF GivesUp
<1>3. CASE ~ (main = "drain" \/ step > MaxSteps) /\ samples # {}
  BY <1>3
<1> QED BY <1>1, <1>2, <1>3

\* process_batch takes a cohort if one is due, and the main loop finalises it.
LEMMA BatchStep ==
    ASSUME LoopInv, main # "failed", CohortsFull, batching' = batching,
           NEW batch \in Seq(Groups \X Nat), NEW tokens, NEW window, NEW flagged,
           Placed(Settled(arrived'), errored', flagged, bare', batch, cohorts, shipped),
           Settled(arrived') \subseteq Rollouts, tokens = TokensOf(batch),
           (batching = "rollouts" /\ \A g \in Groups : Size[g] <= BatchSize)
                => Len(batch) < 2 * BatchSize,
           Waits(batch, tokens, window, flagged) \/ ProcessBatch(batch, tokens, window, flagged)
    PROVE  /\ LoopInv' /\ PlacedInv' /\ CohortsFull' /\ NoFullBatchWaits'
           /\ (pending_tokens = TokensOf(pending_batch))'
           /\ pending_rollouts' \in {{}, window}
<1>1. batching \in {"rollouts", "tokens"} /\ BatchSize \in Nat \ {0}
  BY ConstTypes DEF LoopInv
<1>2. \A rs : TotalTokens(rs)' = TotalTokens(rs) /\ TokensOf(rs)' = TokensOf(rs)
  BY DEF TokensOf, TotalTokens
<1>3. CASE Waits(batch, tokens, window, flagged)
  <2>1. /\ ~ Ready(batch, tokens) /\ pending_batch' = batch /\ pending_tokens' = tokens
        /\ pending_rollouts' = window /\ filtered' = flagged /\ cohorts' = cohorts
        /\ shipped' = shipped /\ main' = main /\ step' = step /\ empties' = empties
    BY <1>3 DEF Waits, loopVars
  <2>2. LoopInv'
    BY <2>1 DEF LoopInv
  <2>3. PlacedInv'
    BY <2>1 DEF PlacedInv
  <2>4. CohortsFull'
    BY <1>2, <2>1 DEF CohortsFull
  <2>5. NoFullBatchWaits'
    <3>1. Len(batch) \in Nat
      OBVIOUS
    <3> QED BY <1>1, <2>1, <3>1 DEF NoFullBatchWaits, Ready
  <2>6. (pending_tokens = TokensOf(pending_batch))'
    BY <1>2, <2>1
  <2> QED BY <2>1, <2>2, <2>3, <2>4, <2>5, <2>6
<1>4. CASE ProcessBatch(batch, tokens, window, flagged)
  <2> DEFINE n == Cut(batch)
             cohort == SubSeq(batch, 1, n)
             rest == SubSeq(batch, n + 1, Len(batch))
  <2>1. /\ Ready(batch, tokens) /\ pending_batch' = rest
        /\ pending_tokens' = tokens - TokensOf(cohort)
        /\ cohorts' = cohorts \cup {cohort}
        /\ \E hit \in SUBSET ToSet(cohort) :
              LET samples == ToSet(cohort) \ (hit \cup bare')
              IN  /\ filtered' = flagged \cup hit
                  /\ pending_rollouts' = NextWindow(samples, window)
                  /\ Finalize(samples)
    BY <1>4 DEF ProcessBatch, Overflow, TokensLeft
  <2>2. PICK hit \in SUBSET ToSet(cohort) :
            LET samples == ToSet(cohort) \ (hit \cup bare')
            IN  /\ filtered' = flagged \cup hit
                /\ pending_rollouts' = NextWindow(samples, window)
                /\ Finalize(samples)
    BY <2>1
  <2> DEFINE samples == ToSet(cohort) \ (hit \cup bare')
  <2>3. /\ filtered' = flagged \cup hit /\ Finalize(samples)
        /\ pending_rollouts' \in {{}, window}
    BY <2>2 DEF NextWindow
  <2>4. /\ n \in 1..Len(batch) /\ FullCohort(cohort)
        /\ batching = "rollouts" => n = BatchSize
    BY <1>1, <2>1, CutFull
  <2>5. n \in 0..Len(batch)
    <3> HIDE DEF n
    <3> QED BY <2>4
  <2>6. /\ cohort \in Seq(Groups \X Nat) /\ rest \in Seq(Groups \X Nat)
        /\ Len(rest) = Len(batch) - n /\ batch = cohort \o rest
    <3> HIDE DEF n
    <3> QED BY <2>5, Split
  <2> HIDE DEF samples
  <2>7. /\ LoopInv'
        /\ \/ shipped' = shipped
           \/ shipped' = [r \in Rollouts |-> shipped[r] + IF r \in samples THEN 1 ELSE 0]
    BY <2>3, FinalizeStep
  <2>8. PlacedInv'
    <3>1. /\ hit \subseteq ToSet(cohort)
          /\ \/ shipped' = shipped
             \/ shipped' = [r \in Rollouts |-> shipped[r] +
                                IF r \in ToSet(cohort) \ (hit \cup bare') THEN 1 ELSE 0]
      BY <2>7 DEF samples
    <3> HIDE DEF n
    <3>2. Placed(Settled(arrived'), errored', flagged \cup hit, bare', rest,
                 cohorts \cup {cohort}, shipped')
      BY <2>5, <3>1, TakeKeeps
    <3> QED BY <2>1, <2>3, <3>2 DEF PlacedInv
  <2>9. CohortsFull'
    <3> HIDE DEF cohort
    <3>1. \A c \in cohorts \cup {cohort} : FullCohort(c)
      BY <2>4 DEF CohortsFull, FullCohort
    <3> QED BY <1>2, <2>1, <3>1 DEF CohortsFull, FullCohort
  <2>10. NoFullBatchWaits'
    <3> HIDE DEF n
    <3>1. Len(batch) \in Nat /\ n \in Nat
      BY <2>5
    <3>2. pending_batch' = rest
      BY <2>1
    <3> HIDE DEF rest
    <3> QED BY <1>1, <2>4, <2>6, <3>1, <3>2 DEF NoFullBatchWaits
  <2>11. (pending_tokens = TokensOf(pending_batch))'
    <3> HIDE DEF cohort, rest
    <3>1. TokensOf(batch) - TokensOf(cohort) = TokensOf(rest)
      <4>1. /\ TotalTokens(cohort) \in Nat /\ TotalTokens(rest) \in Nat
            /\ TotalTokens(batch) = TotalTokens(cohort) + TotalTokens(rest)
        BY <2>6, TotalTokensConcat
      <4> QED BY <4>1 DEF TokensOf
    <3> QED BY <1>2, <2>1, <3>1
  <2> QED BY <2>3, <2>7, <2>8, <2>9, <2>10, <2>11
<1> QED BY <1>3, <1>4

\* An arrival, with all that follows from it.
LEMMA ArrivesStep ==
    ASSUME Inv, NEW g \in Groups, Arrives(g)
    PROVE  Inv'
<1> DEFINE r == <<g, arrived[g] + 1>>
           n == arrived[g] + 1
           group == Append(pending_groups[g], r)
           survivors == Survivors(g, group, errored')
           window == pending_rollouts \cup {r}
<1>1. /\ main # "failed" /\ arrived[g] < Size[g] /\ batching' = batching
      /\ arrived' = [arrived EXCEPT ![g] = @ + 1]
      /\ pending_groups' = [pending_groups EXCEPT ![g] =
            IF Len(group) >= Size[g] THEN <<>> ELSE group]
      /\ errored' \in {errored, errored \cup {r}} /\ bare' \in {bare, bare \cup {r}}
      /\ \E drop \in SUBSET survivors :
            LET added == Selected(group, survivors \ drop)
                batch == pending_batch \o added
                tokens == pending_tokens + TokensOf(added)
            IN  \/ Waits(batch, tokens, window, filtered \cup drop)
                \/ ProcessBatch(batch, tokens, window, filtered \cup drop)
  BY DEF Arrives
<1>2. PICK drop \in SUBSET survivors :
            LET added == Selected(group, survivors \ drop)
                batch == pending_batch \o added
                tokens == pending_tokens + TokensOf(added)
            IN  \/ Waits(batch, tokens, window, filtered \cup drop)
                \/ ProcessBatch(batch, tokens, window, filtered \cup drop)
  BY <1>1
<1> DEFINE added == Selected(group, survivors \ drop)
           batch == pending_batch \o added
           tokens == pending_tokens + TokensOf(added)
<1>3. LoopInv /\ ArrivalInv /\ CohortsFull /\ NoFullBatchWaits
  BY DEF Inv
<1>4. /\ Placed(Settled(arrived'), errored', filtered \cup drop, bare', batch, cohorts, shipped)
      /\ batch \in Seq(Groups \X Nat) /\ Settled(arrived') \subseteq Rollouts
      /\ tokens = TokensOf(batch)
      /\ Len(batch) <= Len(pending_batch) + Size[g]
  BY <1>1, AddStep
<1>5. \/ Waits(batch, tokens, window, filtered \cup drop)
      \/ ProcessBatch(batch, tokens, window, filtered \cup drop)
  BY <1>2
<1> HIDE DEF batch, tokens, window
<1>6. (batching = "rollouts" /\ \A h \in Groups : Size[h] <= BatchSize)
            => Len(batch) < 2 * BatchSize
  <2>1. Len(batch) \in Nat /\ Size[g] \in Nat /\ BatchSize \in Nat
    BY <1>4, ConstTypes
  <2>2. Len(pending_batch) \in Nat
    BY DEF Inv, PlacedInv, Placed
  <2> QED BY <1>3, <1>4, <2>1, <2>2 DEF NoFullBatchWaits
<1>7. /\ LoopInv' /\ PlacedInv' /\ CohortsFull' /\ NoFullBatchWaits'
      /\ (pending_tokens = TokensOf(pending_batch))'
      /\ pending_rollouts' \in {{}, window}
  BY <1>1, <1>3, <1>4, <1>5, <1>6, BatchStep
<1>8. ArrivalInv'
  <2>1. /\ n \in Nat /\ n <= Size[g] /\ Size[g] \in Nat
        /\ group = [i \in 1..n |-> <<g, i>>] /\ group \in Seq(Groups \X Nat) /\ Len(group) = n
    BY <1>1, <1>3, GroupShape, ConstTypes
  <2>2. /\ arrived' \in [Groups -> Nat] /\ arrived'[g] = n
        /\ \A h \in Groups : h # g => arrived'[h] = arrived[h]
        /\ \A h \in Groups : arrived'[h] <= Size[h]
        /\ Arrived' = Arrived \cup {r}
    BY <1>1, <1>3, ArrivedGrows
  <2>3. /\ pending_groups \in [Groups -> Seq(Groups \X Nat)]
        /\ \A h \in Groups : pending_groups[h] =
              IF arrived[h] < Size[h] THEN [i \in 1..arrived[h] |-> <<h, i>>] ELSE <<>>
        /\ UNION {errored, bare, pending_rollouts} \subseteq Arrived
    BY <1>3 DEF ArrivalInv
  <2>4. errored' \subseteq Arrived' /\ bare' \subseteq Arrived' /\ pending_rollouts' \subseteq Arrived'
    <3> HIDE DEF r
    <3> QED BY <1>1, <1>7, <2>2, <2>3 DEF window
  <2> HIDE DEF group, n
  <2>5. /\ pending_groups' \in [Groups -> Seq(Groups \X Nat)]
        /\ pending_groups'[g] = IF Len(group) >= Size[g] THEN <<>> ELSE group
        /\ \A h \in Groups : h # g => pending_groups'[h] = pending_groups[h]
    <3>1. (IF Len(group) >= Size[g] THEN <<>> ELSE group) \in Seq(Groups \X Nat)
      BY <2>1
    <3> QED BY <1>1, <2>3, <3>1
  <2>6. ASSUME NEW h \in Groups
        PROVE  pending_groups'[h] =
              IF arrived'[h] < Size[h] THEN [i \in 1..arrived'[h] |-> <<h, i>>] ELSE <<>>
    <3>1. CASE h = g
      <4>1. arrived'[g] < Size[g] <=> ~ (Len(group) >= Size[g])
        BY <2>1, <2>2
      <4> QED BY <2>1, <2>2, <2>5, <3>1, <4>1
    <3>2. CASE h # g
      BY <2>2, <2>3, <2>5, <3>2
    <3> QED BY <3>1, <3>2
  <2>7. UNION {errored', bare', pending_rollouts'} \subseteq Arrived'
    BY <2>4
  <2> QED BY <2>2, <2>5, <2>6, <2>7 DEF ArrivalInv
<1> QED BY <1>7, <1>8 DEF Inv

\* Every step preserves the invariant.
LEMMA InvNext == Inv /\ [Next]_vars => Inv'
<1> SUFFICES ASSUME Inv, [Next]_vars PROVE Inv'
  OBVIOUS
<1>1. ASSUME NEW g \in Groups, Arrives(g) PROVE Inv'
  BY <1>1, ArrivesStep
<1>2. CASE UNCHANGED vars
  <2>1. /\ arrived' = arrived /\ Settled(arrived') = Settled(arrived) /\ Arrived' = Arrived
        /\ batching' = batching
    BY <1>2 DEF vars, Settled, Arrived
  <2>2. LoopInv' /\ ArrivalInv' /\ PlacedInv'
    BY <1>2, <2>1 DEF Inv, vars, loopVars, LoopInv, ArrivalInv, PlacedInv
  <2>3. CohortsFull' /\ NoFullBatchWaits' /\ (pending_tokens = TokensOf(pending_batch))'
    BY <1>2, <2>1 DEF Inv, vars, CohortsFull, NoFullBatchWaits, TokensOf, TotalTokens
  <2> QED BY <2>2, <2>3 DEF Inv
<1> QED BY <1>1, <1>2 DEF Next

\* The invariant holds always.
LEMMA InvAlways == Spec => []Inv
BY InvInit, InvNext, PTL DEF Spec

-----------------------------------------------------------------------------
(* What follows                                                            *)

\* Types: every rollout the sink stores anywhere is one that arrived, and the
\* counters of the main loop keep their bounds (main_loop, TrainSink.add).
THEOREM TypesCorrect == Spec => []TypeOK
<1>1. Inv => TypeOK
  <2> SUFFICES ASSUME Inv PROVE TypeOK
    OBVIOUS
  <2>1. LoopInv /\ ArrivalInv /\ PlacedInv /\ pending_tokens = TokensOf(pending_batch)
    BY DEF Inv
  <2>2. Settled(arrived) \subseteq Arrived /\ Arrived \subseteq Groups \X Nat
    BY <2>1, ArrivedParts, RolloutParts
  <2>3. pending_batch \in Seq(Arrived) /\ filtered \subseteq Arrived
    BY <2>1, <2>2 DEF PlacedInv, Placed
  <2>4. UNION {errored, bare, filtered, pending_rollouts} \subseteq Arrived
    BY <2>1, <2>3 DEF ArrivalInv
  <2>5. pending_tokens \in Nat
    <3>1. pending_batch \in Seq(Groups \X Nat)
      BY <2>2, <2>3
    <3>2. TotalTokens(pending_batch) \in Nat
      BY <3>1, TotalTokensConcat
    <3> QED BY <2>1, <3>2 DEF TokensOf
  <2>6. ASSUME NEW g \in Groups PROVE pending_groups[g] \in Seq(Arrived)
    <3>1. arrived[g] \in Nat
      BY <2>1 DEF ArrivalInv
    <3>2. CASE arrived[g] < Size[g]
      <4>1. \A i \in 1..arrived[g] : <<g, i>> \in Arrived
        BY DEF Arrived
      <4>2. [i \in 1..arrived[g] |-> <<g, i>>] \in Seq(Arrived)
        BY <3>1, <4>1
      <4> QED BY <2>1, <3>2, <4>2 DEF ArrivalInv
    <3>3. CASE ~ (arrived[g] < Size[g])
      BY <2>1, <3>3 DEF ArrivalInv
    <3> QED BY <3>2, <3>3
  <2> QED BY <2>1, <2>3, <2>4, <2>5, <2>6 DEF TypeOK, LoopInv, ArrivalInv
<1> QED BY <1>1, InvAlways, PTL

\* How often an element occurs in a sequence without repetitions.
LEMMA OccursOnce ==
    ASSUME NEW S, NEW rs \in Seq(S), IsInjective(rs), NEW r
    PROVE  Occurrences(r, rs) = IF r \in ToSet(rs) THEN 1 ELSE 0
<1> DEFINE At == {i \in DOMAIN rs : rs[i] = r}
<1>1. CASE r \in ToSet(rs)
  <2>1. PICK i \in DOMAIN rs : rs[i] = r
    BY <1>1 DEF ToSet
  <2>2. At = {i}
    BY <2>1 DEF IsInjective
  <2>3. Cardinality({i}) = 1
    BY FS_Singleton
  <2> QED BY <1>1, <2>2, <2>3 DEF Occurrences
<1>2. CASE r \notin ToSet(rs)
  <2>1. At = {}
    BY <1>2 DEF ToSet
  <2>2. Cardinality({}) = 0
    BY FS_EmptySet
  <2> QED BY <1>2, <2>1, <2>2 DEF Occurrences
<1> QED BY <1>1, <1>2

\* Every rollout that arrived is in exactly one place or was rejected: nothing
\* is lost to overflow and nothing is trained on twice (add, process_group,
\* process_batch).
THEOREM NothingLostOrTwice == Spec => []EachOnce
<1>1. Inv => EachOnce
  <2> SUFFICES ASSUME Inv, NEW r \in Arrived
               PROVE  LET places == Occurrences(r, pending_groups[r[1]])
                                    + Occurrences(r, pending_batch)
                                    + Cardinality({c \in cohorts : r \in ToSet(c)})
                      IN  places = 1 \/ (places = 0 /\ Rejected(r))
    BY DEF EachOnce
  <2> DEFINE g == r[1]
             inGroup == Occurrences(r, pending_groups[g])
             inBatch == Occurrences(r, pending_batch)
             Cut0 == {c \in cohorts : r \in ToSet(c)}
  <2>1. ArrivalInv /\ PlacedInv
    BY DEF Inv
  <2>2. /\ r \in Rollouts /\ r = <<g, r[2]>> /\ g \in Groups
        /\ r[2] \in 1..Size[g] /\ r[2] <= arrived[g]
    BY <2>1, ArrivedParts, RolloutParts
  <2>3. arrived[g] \in Nat /\ Size[g] \in Nat /\ arrived[g] <= Size[g]
    BY <2>1, <2>2, ConstTypes DEF ArrivalInv
  <2> DEFINE done == Settled(arrived)
  <2>4. /\ pending_batch \in Seq(done) /\ IsInjective(pending_batch)
        /\ cohorts \subseteq Seq(done)
        /\ \A c \in cohorts : ToSet(c) \cap ToSet(pending_batch) = {}
        /\ \A c, d \in cohorts : c = d \/ ToSet(c) \cap ToSet(d) = {}
        /\ r \in done => \/ Lost(r, errored, filtered) \/ r \in ToSet(pending_batch)
                         \/ \E c \in cohorts : r \in ToSet(c)
    BY <2>1 DEF PlacedInv, Placed
  <2>5. /\ inBatch = IF r \in ToSet(pending_batch) THEN 1 ELSE 0
        /\ ToSet(pending_batch) \subseteq done /\ \A c \in cohorts : ToSet(c) \subseteq done
    BY <2>4, OccursOnce, ToSetSeq
  <2>6. Cardinality(Cut0) = IF \E c \in cohorts : r \in ToSet(c) THEN 1 ELSE 0
    <3>1. CASE \E c \in cohorts : r \in ToSet(c)
      <4>1. PICK c \in cohorts : r \in ToSet(c)
        BY <3>1
      <4>2. Cut0 = {c}
        BY <2>4, <4>1
      <4>3. Cardinality({c}) = 1
        BY FS_Singleton
      <4> QED BY <3>1, <4>2, <4>3
    <3>2. CASE ~ \E c \in cohorts : r \in ToSet(c)
      <4>1. Cut0 = {}
        BY <3>2
      <4>2. Cardinality({}) = 0
        BY FS_EmptySet
      <4> QED BY <3>2, <4>1, <4>2
    <3> QED BY <3>1, <3>2
  <2>7. CASE arrived[g] < Size[g]
    <3>1. r \notin done
      BY <2>3, <2>7 DEF Settled
    <3>2. inBatch = 0 /\ Cardinality(Cut0) = 0
      BY <2>5, <2>6, <3>1
    <3>3. inGroup = 1
      <4> DEFINE sq == [i \in 1..arrived[g] |-> <<g, i>>]
      <4>1. pending_groups[g] = sq
        BY <2>1, <2>2, <2>7 DEF ArrivalInv
      <4>2. sq \in Seq(Groups \X Nat)
        BY <2>2, <2>3
      <4>3. IsInjective(sq) /\ r \in ToSet(sq)
        <5>1. r[2] \in 1..arrived[g] /\ r = <<g, r[2]>>
          BY <2>2, <2>3
        <5> QED BY <5>1 DEF IsInjective, ToSet
      <4> HIDE DEF sq, g
      <4> QED BY <4>1, <4>2, <4>3, OccursOnce
    <3> HIDE DEF inGroup, inBatch, Cut0
    <3>4. inGroup + inBatch + Cardinality(Cut0) = 1
      BY <3>2, <3>3
    <3> QED BY <3>4 DEF inGroup, inBatch, Cut0
  <2>8. CASE ~ (arrived[g] < Size[g])
    <3>1. arrived[g] = Size[g] /\ r \in done
      BY <2>2, <2>3, <2>8 DEF Settled
    <3>2. inGroup = 0
      <4>1. pending_groups[g] = <<>>
        BY <2>1, <2>2, <2>8 DEF ArrivalInv
      <4>2. {i \in DOMAIN <<>> : <<>>[i] = r} = {}
        OBVIOUS
      <4> HIDE DEF g
      <4> QED BY <4>1, <4>2, FS_EmptySet DEF Occurrences
    <3>3. Rejected(r) <=> Lost(r, errored, filtered)
      BY <3>1 DEF Rejected, Lost
    <3> HIDE DEF inGroup, inBatch, Cut0, done
    <3>4. \/ inGroup + inBatch + Cardinality(Cut0) = 1
          \/ inGroup + inBatch + Cardinality(Cut0) = 0 /\ Rejected(r)
      BY <2>4, <2>5, <2>6, <3>1, <3>2, <3>3
    <3> QED BY <3>4 DEF inGroup, inBatch, Cut0
  <2> QED BY <2>7, <2>8
<1> QED BY <1>1, InvAlways, PTL

\* What is sent to the trainer is sent once, was not rejected and has samples,
\* and its whole group arrived (process_group, finalize_train_batch).
THEOREM SentOnceAndClean == Spec => []ShippedClean
<1>1. Inv => ShippedClean
  <2> SUFFICES ASSUME Inv, NEW r \in Rollouts, shipped[r] > 0
               PROVE  /\ shipped[r] = 1 /\ arrived[r[1]] = Size[r[1]]
                      /\ ~ Rejected(r) /\ r \notin bare
    BY DEF ShippedClean
  <2>1. /\ shipped[r] = 1 /\ ~ Lost(r, errored, filtered) /\ r \notin bare
        /\ \E c \in cohorts : r \in ToSet(c)
        /\ cohorts \subseteq Seq(Settled(arrived))
    BY DEF Inv, PlacedInv, Placed
  <2>2. r \in Settled(arrived)
    BY <2>1, ToSetSeq
  <2> QED BY <2>1, <2>2 DEF Settled, Rejected, Lost
<1> QED BY <1>1, InvAlways, PTL

\* Batches have the size asked for: batch_size rollouts, or the fewest that
\* reach token_batch_size (process_batch).
THEOREM BatchesFull == Spec => []CohortsFull
BY InvAlways, PTL DEF Inv

\* As long as no group is larger than a batch, taking at most one batch per
\* arrival leaves no complete one behind (add).
THEOREM NoBatchLeft == Spec => []NoFullBatchWaits
BY InvAlways, PTL DEF Inv
===============================================================================
