----------------------------- MODULE SeqToolsProofs -----------------------------
(***************************************************************************)
(* Facts about SeqTools, and the forms of induction they rest on, which    *)
(* are stated about sets so that the provers can instantiate them.         *)
(***************************************************************************)
EXTENDS SeqTools, SequenceTheorems, FiniteSetTheorems, WellFoundedInduction, TLAPS

\* A set of naturals has a least element.
LEMMA LeastOf ==
    ASSUME NEW S \in SUBSET Nat, S # {}
    PROVE  \E x \in S : \A y \in S : x <= y
<1> DEFINE R == {pair \in Nat \X Nat : pair[1] < pair[2]}
<1>1. R = OpToRel(<, Nat)
  BY Zenon DEF OpToRel
<1>2. IsWellFoundedOn(R, Nat)
  BY <1>1, NatLessThanWellFounded, Zenon
<1>3. PICK x \in S : \A y \in S : ~ <<y, x>> \in R
  <2> HIDE DEF R
  <2> QED BY <1>2, WFMin
<1>4. \A y \in S : x \in Nat /\ y \in Nat /\ ~ (y < x)
  BY <1>3
<1> QED BY <1>4

\* Min and Max of a set of naturals, bounded for the latter.
LEMMA MinOf ==
    ASSUME NEW S \in SUBSET Nat, S # {}
    PROVE  Min(S) \in S /\ \A y \in S : Min(S) <= y
<1>1. PICK x \in S : \A y \in S : x <= y
  BY LeastOf
<1> QED BY <1>1, Zenon DEF Min

\* A bounded one has a greatest.
LEMMA MaxOf ==
    ASSUME NEW S \in SUBSET Nat, S # {}, NEW b \in Nat, \A y \in S : y <= b
    PROVE  Max(S) \in S /\ \A y \in S : y <= Max(S)
<1> DEFINE T == {b - y : y \in S}
<1>1. T \in SUBSET Nat /\ T # {}
  <2>1. \A y \in S : b - y \in Nat
    OBVIOUS
  <2>2. PICK z \in S : TRUE
    OBVIOUS
  <2>3. b - z \in T
    OBVIOUS
  <2> QED BY <2>1, <2>3
<1>2. PICK x \in T : \A y \in T : x <= y
  <2> HIDE DEF T
  <2> QED BY <1>1, LeastOf
<1>3. PICK m \in S : x = b - m
  OBVIOUS
<1>4. ASSUME NEW y \in S PROVE m >= y
  <2>1. b - y \in T
    OBVIOUS
  <2>2. x <= b - y
    BY <1>2, <2>1
  <2> QED BY <1>3, <2>2
<1>5. Max(S) \in S /\ \A y \in S : Max(S) >= y
  BY <1>4 DEF Max
<1> QED BY <1>5

\* Induction up to n: a set with 0 that is closed under successor has all of 0..n.
LEMMA UpToInduction ==
    ASSUME NEW n \in Nat, NEW T, 0 \in T, \A i \in 0..(n - 1) : i \in T => i + 1 \in T
    PROVE  \A i \in 0..n : i \in T
<1> DEFINE Out == {i \in 0..n : i \notin T}
<1>1. SUFFICES ASSUME Out # {} PROVE FALSE
  OBVIOUS
<1>2. Out \in SUBSET Nat
  OBVIOUS
<1>3. PICK x \in Out : \A y \in Out : x <= y
  <2> HIDE DEF Out
  <2> QED BY <1>1, <1>2, LeastOf
<1>4. x # 0 /\ x - 1 \in 0..(n - 1) /\ x - 1 \notin Out
  BY <1>3
<1>5. x - 1 \in T
  BY <1>4
<1>6. (x - 1) + 1 \in T
  BY <1>4, <1>5
<1> QED BY <1>6

\* The functions on 0..n that start with base and follow step.
StepMaps(n, X) == [1..n -> [X -> X]]
Recursions(n, X, base, step) ==
    {f \in [0..n -> X] : f[0] = base /\ \A i \in 1..n : f[i] = step[i][f[i - 1]]}

\* There is one: each value is obtained from the one before.
LEMMA RecursionUpTo ==
    ASSUME NEW n \in Nat, NEW X, NEW base \in X, NEW step \in StepMaps(n, X)
    PROVE  \E f : f \in Recursions(n, X, base, step)
<1> USE DEF StepMaps
<1> DEFINE Good(m, f) == /\ f \in [0..m -> X] /\ f[0] = base
                         /\ \A i \in 1..m : f[i] = step[i][f[i - 1]]
           T == {m \in 0..n : \E f : Good(m, f)}
<1>1. 0 \in T
  <2> DEFINE f == [i \in {0} |-> base]
  <2>1. 0..0 = {0} /\ 1..0 = {}
    OBVIOUS
  <2>2. Good(0, f)
    BY <2>1
  <2>3. 0 \in 0..n
    OBVIOUS
  <2> HIDE DEF f, Good
  <2> QED BY <2>2, <2>3
<1>2. ASSUME NEW m \in 0..(n - 1), m \in T PROVE m + 1 \in T
  <2>1. PICK f : Good(m, f)
    BY <1>2
  <2> DEFINE g == [i \in 0..(m + 1) |-> IF i <= m THEN f[i] ELSE step[m + 1][f[m]]]
  <2>2. g \in [0..(m + 1) -> X]
    <3>1. step[m + 1][f[m]] \in X
      BY <2>1
    <3>2. ASSUME NEW i \in 0..(m + 1) PROVE (IF i <= m THEN f[i] ELSE step[m + 1][f[m]]) \in X
      BY <2>1, <3>1
    <3> QED BY <3>2
  <2>3. g[0] = base /\ \A i \in 1..m : g[i] = step[i][g[i - 1]]
    BY <2>1
  <2>4. g[m + 1] = step[m + 1][g[m]]
    OBVIOUS
  <2> HIDE DEF g
  <2>5. \A i \in 1..(m + 1) : g[i] = step[i][g[i - 1]]
    <3>1. ASSUME NEW i \in 1..(m + 1) PROVE i \in 1..m \/ (i = m + 1 /\ i - 1 = m)
      OBVIOUS
    <3> QED BY <2>3, <2>4, <3>1
  <2>6. Good(m + 1, g)
    BY <2>2, <2>3, <2>5
  <2>7. m + 1 \in 0..n
    OBVIOUS
  <2> HIDE DEF Good
  <2> QED BY <2>6, <2>7
<1>3. \A m \in 0..n : m \in T
  <2> HIDE DEF T
  <2> QED BY <1>1, <1>2, UpToInduction
<1>4. PICK f : Good(n, f)
  BY <1>3
<1>5. f \in Recursions(n, X, base, step)
  BY <1>4 DEF Recursions
<1> QED BY <1>5

-----------------------------------------------------------------------------
(* Sequences without repetition                                            *)

\* The elements of a sequence.
LEMMA ToSetSeq ==
    ASSUME NEW S, NEW s \in Seq(S)
    PROVE  /\ DOMAIN s = 1..Len(s) /\ Len(s) \in Nat
           /\ ToSet(s) = {s[i] : i \in 1..Len(s)} /\ ToSet(s) \subseteq S
BY DEF ToSet

\* Without repetitions there are as many as it is long.
LEMMA InjectiveCount ==
    ASSUME NEW S, NEW s \in Seq(S), IsInjective(s)
    PROVE  IsFiniteSet(ToSet(s)) /\ Cardinality(ToSet(s)) = Len(s)
<1> DEFINE n == Len(s)
<1>1. n \in Nat /\ DOMAIN s = 1..n /\ s = [i \in 1..n |-> s[i]]
  OBVIOUS
<1>2. s \in Bijection(1..n, ToSet(s))
  <2> HIDE DEF n
  <2>1. s \in [1..n -> ToSet(s)]
    BY <1>1 DEF ToSet
  <2> QED BY <1>1, <2>1 DEF Bijection, Injection, Surjection, IsInjective, ToSet
<1>3. ExistsBijection(1..n, ToSet(s))
  <2> HIDE DEF n
  <2> QED BY <1>2 DEF ExistsBijection
<1>4. IsFiniteSet(1..n) /\ Cardinality(1..n) = n
  <2> HIDE DEF n
  <2>1. 1 \in Int /\ n \in Int
    BY <1>1
  <2>2. IsFiniteSet(1..n) /\ Cardinality(1..n) = IF 1 > n THEN 0 ELSE n - 1 + 1
    BY <2>1, FS_Interval, Zenon
  <2> QED BY <1>1, <2>2
<1>5. IsFiniteSet(ToSet(s)) /\ Cardinality(ToSet(s)) = n
  <2> HIDE DEF n
  <2> QED BY <1>3, <1>4, FS_Bijection
<1> QED BY <1>5

\* The elements of a concatenation ...
LEMMA ToSetConcat ==
    ASSUME NEW S, NEW s \in Seq(S), NEW t \in Seq(S)
    PROVE  ToSet(s \o t) = ToSet(s) \cup ToSet(t)
<1> DEFINE u == s \o t
           m == Len(s)
           n == Len(t)
<1>1. /\ u \in Seq(S) /\ Len(u) = m + n /\ m \in Nat /\ n \in Nat
      /\ \A i \in 1..m : u[i] = s[i]
      /\ \A i \in 1..n : u[m + i] = t[i]
  OBVIOUS
<1>2. /\ ToSet(u) = {u[i] : i \in 1..(m + n)}
      /\ ToSet(s) = {s[i] : i \in 1..m} /\ ToSet(t) = {t[i] : i \in 1..n}
  <2>1. ToSet(u) = {u[i] : i \in 1..Len(u)}
    <3> HIDE DEF u
    <3> QED BY <1>1, ToSetSeq
  <2> QED BY <1>1, <2>1, ToSetSeq
<1> HIDE DEF u, m, n
<1>3. ASSUME NEW i \in 1..(m + n) PROVE u[i] \in ToSet(s) \cup ToSet(t)
  <2>1. CASE i <= m
    <3>1. i \in 1..m
      BY <1>1, <2>1
    <3> QED BY <1>1, <1>2, <3>1
  <2>2. CASE i > m
    <3>1. i - m \in 1..n /\ m + (i - m) = i
      BY <1>1, <2>2
    <3> QED BY <1>1, <1>2, <3>1
  <2> QED BY <1>1, <2>1, <2>2
<1>4. ASSUME NEW i \in 1..m PROVE s[i] \in ToSet(u)
  <2>1. i \in 1..(m + n)
    BY <1>1
  <2> QED BY <1>1, <1>2, <2>1
<1>5. ASSUME NEW i \in 1..n PROVE t[i] \in ToSet(u)
  <2>1. m + i \in 1..(m + n)
    BY <1>1
  <2> QED BY <1>1, <1>2, <2>1
<1>6. ToSet(u) = ToSet(s) \cup ToSet(t)
  BY <1>2, <1>3, <1>4, <1>5
<1> QED BY <1>6 DEF u

\* ... which has no repetitions if its parts have none and nothing in common.
LEMMA InjectiveConcat ==
    ASSUME NEW S, NEW s \in Seq(S), NEW t \in Seq(S),
           IsInjective(s), IsInjective(t), ToSet(s) \cap ToSet(t) = {}
    PROVE  IsInjective(s \o t)
<1> DEFINE m == Len(s)
           u == s \o t
<1>1. u \in Seq(S) /\ DOMAIN u = 1..(m + Len(t)) /\ m \in Nat /\ Len(t) \in Nat
  OBVIOUS
<1>2. \A i \in 1..(m + Len(t)) :
          /\ i <= m => i \in 1..m /\ u[i] = s[i] /\ u[i] \in ToSet(s)
          /\ i > m => i - m \in 1..Len(t) /\ u[i] = t[i - m] /\ u[i] \in ToSet(t)
  BY DEF ToSet
<1>3. /\ \A i, j \in 1..m : s[i] = s[j] => i = j
      /\ \A i, j \in 1..Len(t) : t[i] = t[j] => i = j
  BY DEF IsInjective
<1> HIDE DEF m, u
<1>4. ASSUME NEW i \in 1..(m + Len(t)), NEW j \in 1..(m + Len(t)), u[i] = u[j]
      PROVE  i = j
  <2>1. CASE i <= m /\ j <= m
    BY <1>2, <1>3, <1>4, <2>1
  <2>2. CASE i > m /\ j > m
    <3>1. i - m = j - m
      BY <1>2, <1>3, <1>4, <2>2
    <3> QED BY <1>1, <3>1
  <2>3. CASE (i <= m) # (j <= m)
    BY <1>1, <1>2, <1>4, <2>3
  <2> QED BY <1>1, <2>1, <2>2, <2>3
<1>5. IsInjective(u)
  BY <1>1, <1>4 DEF IsInjective
<1> QED BY <1>5 DEF u

\* What is left without the first element.
LEMMA InjectiveTail ==
    ASSUME NEW S, NEW s \in Seq(S), s # <<>>, IsInjective(s)
    PROVE  /\ Tail(s) \in Seq(S) /\ IsInjective(Tail(s))
           /\ Head(s) \in ToSet(s) /\ ToSet(Tail(s)) = ToSet(s) \ {Head(s)}
<1> DEFINE t == Tail(s)
<1>1. /\ t \in Seq(S) /\ Len(t) = Len(s) - 1 /\ Len(s) \in Nat \ {0}
      /\ \A i \in 1..Len(t) : t[i] = s[i + 1]
      /\ Head(s) = s[1]
  OBVIOUS
<1>2. \A i, j \in 1..Len(s) : s[i] = s[j] => i = j
  BY DEF IsInjective
<1> HIDE DEF t
<1>3. IsInjective(t)
  BY <1>1, <1>2 DEF IsInjective
<1>4. Head(s) \in ToSet(s)
  BY <1>1 DEF ToSet
<1>5. ASSUME NEW x \in ToSet(t) PROVE x \in ToSet(s) \ {Head(s)}
  <2>1. PICK i \in 1..Len(t) : x = t[i]
    BY <1>1, ToSetSeq
  <2>2. i + 1 \in 1..Len(s) /\ x = s[i + 1] /\ i + 1 # 1 /\ 1 \in 1..Len(s)
    BY <1>1, <2>1
  <2>3. x # s[1]
    BY <1>2, <2>2
  <2> QED BY <1>1, <2>2, <2>3, ToSetSeq
<1>6. ASSUME NEW x \in ToSet(s), x # Head(s) PROVE x \in ToSet(t)
  <2>1. PICK i \in 1..Len(s) : x = s[i]
    BY ToSetSeq
  <2>2. i - 1 \in 1..Len(t) /\ t[i - 1] = x
    BY <1>1, <1>6, <2>1
  <2> QED BY <1>1, <2>2, ToSetSeq
<1>7. ToSet(t) = ToSet(s) \ {Head(s)}
  BY <1>5, <1>6
<1> QED BY <1>1, <1>3, <1>4, <1>7 DEF t

-----------------------------------------------------------------------------
(* Selected                                                                *)

\* The recursion that defines Selected has a solution, and it is in Seq(S).
LEMMA SelectedUnfolds ==
    ASSUME NEW S, NEW s \in Seq(S), NEW A
    PROVE  \E u \in [0..Len(s) -> Seq(S)] :
              /\ Selected(s, A) = u[Len(s)]
              /\ u[0] = <<>>
              /\ \A i \in 1..Len(s) :
                    u[i] = IF s[i] \in A THEN Append(u[i - 1], s[i]) ELSE u[i - 1]
<1> DEFINE n == Len(s)
           Next(v, i) == IF s[i] \in A THEN Append(v, s[i]) ELSE v
           Solves(g) == g = [i \in 0..n |-> IF i = 0 THEN <<>> ELSE Next(g[i - 1], i)]
           u == CHOOSE g : Solves(g)
           step == [i \in 1..n |-> [v \in Seq(S) |-> Next(v, i)]]
<1>1. n \in Nat /\ \A i \in 1..n : s[i] \in S
  OBVIOUS
<1>2. Selected(s, A) = u[n]
  BY Zenon DEF Selected
<1>3. step \in [1..n -> [Seq(S) -> Seq(S)]]
  <2>1. ASSUME NEW i \in 1..n, NEW v \in Seq(S) PROVE Next(v, i) \in Seq(S)
    BY <1>1
  <2> HIDE DEF Next, n
  <2> QED BY <2>1
<1>4. <<>> \in Seq(S)
  OBVIOUS
<1>5. PICK f \in [0..n -> Seq(S)] : f[0] = <<>> /\ \A i \in 1..n : f[i] = step[i][f[i - 1]]
  <2>1. step \in StepMaps(n, Seq(S))
    BY <1>3 DEF StepMaps
  <2> HIDE DEF step, n
  <2>2. \E f : f \in Recursions(n, Seq(S), <<>>, step)
    BY <1>1, <1>4, <2>1, RecursionUpTo
  <2> QED BY <2>2 DEF Recursions
<1>6. \A i \in 1..n : f[i - 1] \in Seq(S) /\ f[i] = Next(f[i - 1], i)
  <2>1. ASSUME NEW i \in 1..n PROVE i - 1 \in 0..n
    BY <1>1
  <2>2. ASSUME NEW i \in 1..n PROVE f[i - 1] \in Seq(S)
    BY <2>1
  <2> HIDE DEF Next, n
  <2> QED BY <1>5, <2>2
<1>7. Solves(f)
  <2> HIDE DEF Next
  <2>1. ASSUME NEW i \in 0..n PROVE f[i] = IF i = 0 THEN <<>> ELSE Next(f[i - 1], i)
    BY <1>1, <1>5, <1>6
  <2> QED BY <2>1
<1>8. Solves(u)
  <2> HIDE DEF Solves
  <2> QED BY <1>7
<1>9. u[0] = <<>> /\ \A i \in 1..n : u[i] = Next(u[i - 1], i)
  <2> HIDE DEF u, Next
  <2>1. u[0] = <<>>
    BY <1>1, <1>8
  <2>2. \A i \in 1..n : i \in 0..n /\ i # 0
    BY <1>1
  <2>3. \A i \in 1..n : u[i] = Next(u[i - 1], i)
    BY <1>8, <2>2
  <2> QED BY <2>1, <2>3
<1>10. u \in [0..n -> Seq(S)]
  <2> DEFINE T == {i \in 0..n : u[i] \in Seq(S)}
  <2>1. 0 \in T
    <3>1. u[0] \in Seq(S)
      BY <1>4, <1>9, Zenon
    <3> HIDE DEF u, n
    <3> QED BY <1>1, <3>1
  <2>2. ASSUME NEW i \in 0..(n - 1), i \in T PROVE i + 1 \in T
    <3>1. i + 1 \in 1..n /\ (i + 1) - 1 = i
      BY <1>1
    <3>2. u[i + 1] = Next(u[i], i + 1)
      <4> HIDE DEF u, Next, n
      <4> QED BY <3>1, <1>9
    <3>3. Next(u[i], i + 1) \in Seq(S)
      <4> HIDE DEF u
      <4> QED BY <2>2, <3>1, <1>1
    <3> HIDE DEF u, Next, n
    <3> QED BY <3>1, <3>2, <3>3
  <2>3. \A i \in 0..n : i \in T
    <3> HIDE DEF T, n
    <3> QED BY <1>1, <2>1, <2>2, UpToInduction
  <2>4. u = [i \in 0..n |-> u[i]]
    <3> HIDE DEF u, Next
    <3> QED BY <1>8
  <2> HIDE DEF u, n
  <2> QED BY <2>3, <2>4
<1> HIDE DEF u
<1> QED BY <1>2, <1>9, <1>10

\* Selected has the elements of s in A, each as often as s has it.
LEMMA SelectedContent ==
    ASSUME NEW S, NEW s \in Seq(S), NEW A
    PROVE  /\ Selected(s, A) \in Seq(S)
           /\ ToSet(Selected(s, A)) = ToSet(s) \cap A
           /\ IsInjective(s) => IsInjective(Selected(s, A))
<1>1. PICK u \in [0..Len(s) -> Seq(S)] :
          /\ Selected(s, A) = u[Len(s)]
          /\ u[0] = <<>>
          /\ \A i \in 1..Len(s) : u[i] = IF s[i] \in A THEN Append(u[i - 1], s[i]) ELSE u[i - 1]
  BY SelectedUnfolds
<1> DEFINE n == Len(s)
<1>2. /\ u \in [0..n -> Seq(S)] /\ Selected(s, A) = u[n]
      /\ u[0] = <<>>
      /\ \A i \in 1..n : u[i] = IF s[i] \in A THEN Append(u[i - 1], s[i]) ELSE u[i - 1]
  BY <1>1
<1> DEFINE From(v, i) == {v[k] : k \in 1..Len(v)} = {s[j] : j \in 1..i} \cap A
           Once(v) == IsInjective(s) => IsInjective(v)
<1> DEFINE T == {i \in 0..n : From(u[i], i) /\ Once(u[i])}
<1>3. n \in Nat
  OBVIOUS
<1>4. 0 \in T
  <2>1. From(u[0], 0) /\ Once(u[0])
    BY <1>2 DEF IsInjective
  <2> HIDE DEF From, Once
  <2> QED BY <1>3, <2>1
<1>5. ASSUME NEW i \in 0..(n - 1), i \in T PROVE i + 1 \in T
  <2> DEFINE v == u[i]
             w == u[i + 1]
             x == s[i + 1]
  <2>1. i \in Nat /\ i + 1 \in 0..n /\ i + 1 \in 1..n /\ (i + 1) - 1 = i
    BY <1>3
  <2>2. v \in Seq(S) /\ w \in Seq(S) /\ x \in S
    BY <2>1
  <2>3. w = IF x \in A THEN Append(v, x) ELSE v
    BY <1>2, <2>1
  <2>4. From(v, i) /\ Once(v)
    BY <1>5
  <2>5. {s[j] : j \in 1..(i + 1)} = {s[j] : j \in 1..i} \cup {x}
    BY <2>1
  <2> HIDE DEF v, w, x
  <2>6. CASE x \in A
    <3>1. w = Append(v, x)
      BY <2>3, <2>6
    <3>2. {w[k] : k \in 1..Len(w)} = {v[k] : k \in 1..Len(v)} \cup {x}
      BY <2>2, <3>1
    <3>3. From(w, i + 1)
      BY <2>4, <2>5, <2>6, <3>2
    <3>4. ASSUME IsInjective(s) PROVE IsInjective(w)
      <4>1. x \notin {s[j] : j \in 1..i}
        BY <2>1, <3>4 DEF IsInjective, x
      <4>2. x \notin {v[k] : k \in 1..Len(v)}
        BY <2>4, <4>1
      <4>3. \A k, l \in 1..Len(v) : v[k] = v[l] => k = l
        BY <2>2, <2>4, <3>4 DEF IsInjective
      <4> QED BY <2>2, <3>1, <4>2, <4>3 DEF IsInjective
    <3> QED BY <2>1, <3>3, <3>4 DEF w
  <2>7. CASE x \notin A
    <3>1. w = v
      BY <2>3, <2>7
    <3>2. From(w, i + 1) /\ Once(w)
      BY <2>4, <2>5, <2>7, <3>1
    <3> QED BY <2>1, <3>2 DEF w
  <2> QED BY <2>6, <2>7
<1>6. \A i \in 0..n : i \in T
  <2> HIDE DEF T, n
  <2> QED BY <1>3, <1>4, <1>5, UpToInduction
<1>7. From(Selected(s, A), n) /\ Once(Selected(s, A)) /\ Selected(s, A) \in Seq(S)
  <2> HIDE DEF From, Once, n
  <2> QED BY <1>2, <1>3, <1>6
<1> QED BY <1>7 DEF ToSet

\* Whatever follows the recursion ends in Selected.
LEMMA SelectedIs ==
    ASSUME NEW S, NEW s \in Seq(S), NEW A, NEW v, v[0] = <<>>,
           \A i \in 1..Len(s) :
                v[i] = IF s[i] \in A THEN Append(v[i - 1], s[i]) ELSE v[i - 1]
    PROVE  Selected(s, A) = v[Len(s)]
<1>1. PICK u \in [0..Len(s) -> Seq(S)] :
          /\ Selected(s, A) = u[Len(s)]
          /\ u[0] = <<>>
          /\ \A i \in 1..Len(s) :
                u[i] = IF s[i] \in A THEN Append(u[i - 1], s[i]) ELSE u[i - 1]
  BY SelectedUnfolds
<1> DEFINE T == {i \in 0..Len(s) : u[i] = v[i]}
<1>2. Len(s) \in Nat /\ 0 \in T
  BY <1>1
<1>3. ASSUME NEW i \in 0..(Len(s) - 1), i \in T PROVE i + 1 \in T
  <2>1. i + 1 \in 1..Len(s) /\ (i + 1) - 1 = i /\ i + 1 \in 0..Len(s)
    BY <1>2
  <2>2. u[i + 1] = v[i + 1]
    BY <1>1, <1>3, <2>1
  <2> QED BY <2>1, <2>2
<1>4. \A i \in 0..Len(s) : i \in T
  <2> HIDE DEF T
  <2> QED BY <1>2, <1>3, UpToInduction
<1> QED BY <1>1, <1>2, <1>4

\* Nothing is left out if all of s is in A.
LEMMA SelectedAll ==
    ASSUME NEW S, NEW s \in Seq(S), NEW A, \A i \in 1..Len(s) : s[i] \in A
    PROVE  Selected(s, A) = s
<1> DEFINE v == [i \in 0..Len(s) |-> SubSeq(s, 1, i)]
<1>1. Len(s) \in Nat /\ \A i \in 1..Len(s) : s[i] \in S
  OBVIOUS
<1>2. v[0] = <<>>
  BY <1>1, SubSeqEmpty
<1>3. ASSUME NEW i \in 1..Len(s) PROVE v[i] = Append(v[i - 1], s[i])
  <2>1. SubSeq(s, 1, i) = SubSeq(s, 1, i - 1) \o <<s[i]>>
    BY <1>1, SubSeqRecursiveSecond
  <2>2. SubSeq(s, 1, i - 1) \in Seq(S)
    BY <1>1, SubSeqProperties
  <2>3. i - 1 \in 0..Len(s) /\ i \in 0..Len(s)
    BY <1>1
  <2> QED BY <1>1, <2>1, <2>2, <2>3, AppendIsConcat
<1>4. v[Len(s)] = s
  BY <1>1, SubSeqFull
<1> HIDE DEF v
<1> QED BY <1>2, <1>3, <1>4, SelectedIs

\* Nothing is left if none of s is in A.
LEMMA SelectedNone ==
    ASSUME NEW S, NEW s \in Seq(S), NEW A, \A i \in 1..Len(s) : s[i] \notin A
    PROVE  Selected(s, A) = <<>>
<1> DEFINE v == [i \in 0..Len(s) |-> <<>>]
<1>1. Len(s) \in Nat
  OBVIOUS
<1>2. v[0] = <<>> /\ v[Len(s)] = <<>> /\ \A i \in 1..Len(s) : v[i] = v[i - 1]
  BY <1>1
<1> HIDE DEF v
<1> QED BY <1>2, SelectedIs

\* u holds what has been selected after each element of s.
Selects(u, S, s, A) ==
    /\ u \in [0..Len(s) -> Seq(S)]
    /\ Selected(s, A) = u[Len(s)]
    /\ u[0] = <<>>
    /\ \A i \in 1..Len(s) :
          u[i] = IF s[i] \in A THEN Append(u[i - 1], s[i]) ELSE u[i - 1]

\* SelectedUnfolds by this name.
LEMMA SelectsExists ==
    ASSUME NEW S, NEW s \in Seq(S), NEW A
    PROVE  \E u : Selects(u, S, s, A)
BY SelectedUnfolds DEF Selects

\* Appending to a concatenation appends to its second part.
AppendMoves(a, b, x) == Append(a \o b, x) = a \o Append(b, x)

\* ... whatever the sequences.
LEMMA AppendConcat ==
    ASSUME NEW S, NEW a \in Seq(S), NEW b \in Seq(S), NEW x \in S
    PROVE  AppendMoves(a, b, x)
<1> DEFINE l == Append(a \o b, x)
           r == a \o Append(b, x)
<1>1. a \o b \in Seq(S) /\ Append(b, x) \in Seq(S)
  OBVIOUS
<1>2. l \in Seq(S) /\ r \in Seq(S)
  BY <1>1
<1>3. Len(l) = Len(r)
  BY <1>1
<1>4. \A i \in 1..Len(l) : l[i] = r[i]
  BY <1>1
<1> HIDE DEF l, r
<1>5. l = r
  BY <1>2, <1>3, <1>4, SeqEqual
<1> QED BY <1>5 DEF l, r, AppendMoves

\* What is selected of a concatenation.
LEMMA SelectedConcat ==
    ASSUME NEW S, NEW s \in Seq(S), NEW t \in Seq(S), NEW A
    PROVE  Selected(s \o t, A) = Selected(s, A) \o Selected(t, A)
<1> DEFINE m == Len(s)
           n == Len(t)
<1> SUFFICES ASSUME NEW q \in Seq(S), q = s \o t
             PROVE  Selected(q, A) = Selected(s, A) \o Selected(t, A)
  <2>1. s \o t \in Seq(S)
    OBVIOUS
  <2> QED BY <2>1, Zenon
<1>1. /\ m \in Nat /\ n \in Nat /\ Len(q) = m + n
      /\ \A i \in 1..m : q[i] = s[i]
      /\ \A i \in 1..n : q[m + i] = t[i]
  OBVIOUS
<1>2. PICK u : Selects(u, S, q, A)
  BY SelectsExists, Zenon
<1>3. PICK w : Selects(w, S, t, A)
  BY SelectsExists, Zenon
<1>4. /\ u \in [0..Len(q) -> Seq(S)]
      /\ Selected(q, A) = u[Len(q)]
      /\ u[0] = <<>>
      /\ \A i \in 1..Len(q) :
            u[i] = IF q[i] \in A THEN Append(u[i - 1], q[i]) ELSE u[i - 1]
  BY <1>2, Zenon DEF Selects
<1>5. /\ w \in [0..n -> Seq(S)]
      /\ Selected(t, A) = w[n]
      /\ w[0] = <<>>
      /\ \A i \in 1..n : w[i] = IF t[i] \in A THEN Append(w[i - 1], t[i]) ELSE w[i - 1]
  BY <1>3, Zenon DEF Selects
<1>6. Selected(s, A) = u[m] /\ u[m] \in Seq(S)
  <2>1. \A i \in 1..m : i \in 1..Len(q) /\ q[i] = s[i]
    BY <1>1
  <2>2. \A i \in 1..m : u[i] = IF s[i] \in A THEN Append(u[i - 1], s[i]) ELSE u[i - 1]
    BY <1>4, <2>1
  <2>3. Selected(s, A) = u[m]
    BY <1>4, <2>2, SelectedIs, Zenon
  <2>4. m \in 0..Len(q)
    BY <1>1
  <2> QED BY <1>4, <2>3, <2>4
<1> DEFINE T == {j \in 0..n : u[m + j] = u[m] \o w[j]}
<1>7. 0 \in T
  <2>1. u[m] \o <<>> = u[m]
    BY <1>6, ConcatEmptySeq
  <2>2. 0 \in 0..n /\ m + 0 = m
    BY <1>1
  <2> QED BY <1>5, <2>1, <2>2, Zenon
<1>8. ASSUME NEW j \in 0..(n - 1), j \in T PROVE j + 1 \in T
  <2>1. /\ j + 1 \in 1..n /\ (j + 1) - 1 = j /\ m + (j + 1) \in 1..Len(q)
        /\ (m + (j + 1)) - 1 = m + j /\ q[m + (j + 1)] = t[j + 1] /\ j \in 0..n
        /\ j + 1 \in 0..n
    BY <1>1
  <2>2. /\ u[m + (j + 1)] = IF t[j + 1] \in A THEN Append(u[m + j], t[j + 1]) ELSE u[m + j]
        /\ w[j + 1] = IF t[j + 1] \in A THEN Append(w[j], t[j + 1]) ELSE w[j]
    BY <1>4, <1>5, <2>1
  <2>3. w[j] \in Seq(S) /\ t[j + 1] \in S /\ u[m + j] = u[m] \o w[j]
    <3>1. w[j] \in Seq(S)
      BY <1>5, <2>1, Zenon
    <3>3. t[j + 1] \in S
      BY <2>1
    <3>2. u[m + j] = u[m] \o w[j]
      BY <1>8, Zenon
    <3> QED BY <3>1, <3>2, <3>3
  <2>4. Append(u[m] \o w[j], t[j + 1]) = u[m] \o Append(w[j], t[j + 1])
    <3>1. u[m] \in Seq(S) /\ w[j] \in Seq(S) /\ t[j + 1] \in S
      BY <1>6, <2>3, Zenon
    <3>2. AppendMoves(u[m], w[j], t[j + 1])
      BY <3>1, AppendConcat, Zenon
    <3> QED BY <3>2 DEF AppendMoves
  <2>5. u[m + (j + 1)] = u[m] \o w[j + 1]
    BY <2>2, <2>3, <2>4
  <2> QED BY <2>1, <2>5
<1>9. \A j \in 0..n : j \in T
  <2> HIDE DEF T, n
  <2> QED BY <1>1, <1>7, <1>8, UpToInduction
<1>10. u[m + n] = u[m] \o w[n]
  <2>1. n \in 0..n
    BY <1>1
  <2> QED BY <1>9, <2>1, Zenon
<1> QED BY <1>1, <1>4, <1>5, <1>6, <1>10, Zenon

\* The same by a name.
SelectsEach(s, t, A) == Selected(s \o t, A) = Selected(s, A) \o Selected(t, A)

\* What is selected of a concatenation, under a name.
LEMMA SelectedEach ==
    ASSUME NEW S, NEW s \in Seq(S), NEW t \in Seq(S), NEW A
    PROVE  SelectsEach(s, t, A)
BY SelectedConcat DEF SelectsEach

\* A sequence is what comes up to a position and what comes after it.
LEMMA Split ==
    ASSUME NEW S, NEW s \in Seq(S), NEW n \in 0..Len(s)
    PROVE  /\ SubSeq(s, 1, n) \in Seq(S) /\ Len(SubSeq(s, 1, n)) = n
           /\ SubSeq(s, n + 1, Len(s)) \in Seq(S)
           /\ Len(SubSeq(s, n + 1, Len(s))) = Len(s) - n
           /\ s = SubSeq(s, 1, n) \o SubSeq(s, n + 1, Len(s))
           /\ \A i \in 1..n : SubSeq(s, 1, n)[i] = s[i]
           /\ \A i \in 1..(Len(s) - n) : SubSeq(s, n + 1, Len(s))[i] = s[n + i]
<1> DEFINE u == SubSeq(s, 1, n)
           v == SubSeq(s, n + 1, Len(s))
<1>1. /\ u \in Seq(S) /\ Len(u) = n
      /\ \A i \in 1..n : u[i] = s[i]
  OBVIOUS
<1>2. v \in Seq(S) /\ Len(v) = Len(s) - n
  OBVIOUS
<1>3. \A i \in 1..(Len(s) - n) : v[i] = s[n + i]
  OBVIOUS
<1>4. s = u \o v
  <2> HIDE DEF u, v
  <2>1. PICK w : w = u \o v
    OBVIOUS
  <2>2. n \in Nat /\ Len(s) \in Nat /\ n <= Len(s)
    OBVIOUS
  <2>3. w \in Seq(S) /\ Len(w) = Len(s)
    <3>1. w \in Seq(S) /\ Len(w) = Len(u) + Len(v)
      BY <1>1, <1>2, <2>1, ConcatProperties
    <3> QED BY <1>1, <1>2, <2>2, <3>1
  <2>4. \A i \in 1..n : w[i] = u[i]
    BY <1>1, <1>2, <2>1, <2>2
  <2>5. \A i \in 1..(Len(s) - n) : w[n + i] = v[i]
    BY <1>1, <1>2, <2>1, <2>2
  <2>6. ASSUME NEW i \in 1..Len(s) PROVE s[i] = w[i]
    <3>1. CASE i <= n
      BY <1>1, <2>2, <2>4, <3>1
    <3>2. CASE ~ (i <= n)
      <4>1. i - n \in 1..(Len(s) - n) /\ n + (i - n) = i
        BY <2>2, <3>2
      <4> QED BY <1>3, <2>5, <4>1
    <3> QED BY <3>1, <3>2
  <2>7. s = w
    BY <2>3, <2>6, SeqEqual
  <2> QED BY <2>1, <2>7
<1> QED BY <1>1, <1>2, <1>3, <1>4

\* What is selected of the first k is the beginning of what is selected of all.
LEMMA SelectedPrefix ==
    ASSUME NEW S, NEW s \in Seq(S), NEW k \in 0..Len(s), NEW A,
           NEW a, a = Selected(SubSeq(s, 1, k), A)
    PROVE  /\ a \in Seq(S) /\ Len(a) \in 0..Len(Selected(s, A))
           /\ \A i \in 1..Len(a) : i \in 1..Len(Selected(s, A)) /\ a[i] = Selected(s, A)[i]
<1> DEFINE p == SubSeq(s, 1, k)
           r == SubSeq(s, k + 1, Len(s))
           b == Selected(r, A)
           c == Selected(s, A)
<1>1. p \in Seq(S) /\ r \in Seq(S) /\ s = p \o r
  BY Split
<1> HIDE DEF p, r
<1>2. SelectsEach(p, r, A)
  BY <1>1, SelectedEach, Zenon
<1>3. a = Selected(p, A)
  BY DEF p
<1>4. c = a \o b
  BY <1>1, <1>2, <1>3 DEF SelectsEach
<1>5. a \in Seq(S) /\ b \in Seq(S)
  <2>1. Selected(p, A) \in Seq(S)
    BY <1>1, SelectedContent
  <2>2. Selected(r, A) \in Seq(S)
    BY <1>1, SelectedContent
  <2> QED BY <1>3, <2>1, <2>2
<1> HIDE DEF b, c
<1>6. Len(a) \in 0..Len(c) /\ \A i \in 1..Len(a) : i \in 1..Len(c) /\ a[i] = c[i]
  BY <1>4, <1>5
<1> QED BY <1>5, <1>6 DEF c

-----------------------------------------------------------------------------
(* FlattenSeq                                                              *)

\* The recursion that defines FlattenSeq, from the empty sequence on.
LEMMA FlattenUnfolds ==
    ASSUME NEW S, NEW q \in Seq(Seq(S)), q # <<>>
    PROVE  \E u \in [0..Len(q) -> Seq(S)] :
              /\ FlattenSeq(q) = u[Len(q)]
              /\ u[0] = <<>>
              /\ \A i \in 1..Len(q) : u[i] = u[i - 1] \o q[i]
<1> DEFINE n == Len(q)
           Solves(g) == g = [i \in 1..n |-> IF i = 1 THEN q[i] ELSE g[i - 1] \o q[i]]
           g == CHOOSE h : Solves(h)
           step == [i \in 1..n |-> [v \in Seq(S) |-> v \o q[i]]]
<1>1. n \in Nat /\ n # 0 /\ \A i \in 1..n : q[i] \in Seq(S)
  OBVIOUS
<1>2. FlattenSeq(q) = g[n]
  <2>1. ~ (Len(q) = 0)
    BY <1>1
  <2> QED BY <2>1, Zenon DEF FlattenSeq
<1>3. <<>> \in Seq(S)
  OBVIOUS
<1>4. PICK f \in [0..n -> Seq(S)] : f[0] = <<>> /\ \A i \in 1..n : f[i] = step[i][f[i - 1]]
  <2>1. step \in StepMaps(n, Seq(S))
    <3>1. ASSUME NEW i \in 1..n, NEW v \in Seq(S) PROVE v \o q[i] \in Seq(S)
      BY <1>1, ConcatProperties
    <3> HIDE DEF n
    <3> QED BY <3>1 DEF StepMaps
  <2> HIDE DEF step, n
  <2>2. \E f : f \in Recursions(n, Seq(S), <<>>, step)
    BY <1>1, <1>3, <2>1, RecursionUpTo
  <2> QED BY <2>2 DEF Recursions
<1>5. \A i \in 1..n : f[i - 1] \in Seq(S) /\ f[i] = f[i - 1] \o q[i]
  <2>1. ASSUME NEW i \in 1..n PROVE i - 1 \in 0..n
    BY <1>1
  <2> HIDE DEF n
  <2> QED BY <1>4, <2>1
<1> DEFINE h == [i \in 1..n |-> f[i]]
<1>6. Solves(h)
  <2>1. f[1] = q[1]
    <3>1. 1 \in 1..n /\ 1 - 1 = 0
      BY <1>1
    <3>2. <<>> \o q[1] = q[1]
      BY <1>1, <3>1, ConcatEmptySeq
    <3> QED BY <1>4, <1>5, <3>1, <3>2
  <2>2. ASSUME NEW i \in 1..n
        PROVE  f[i] = IF i = 1 THEN q[i] ELSE h[i - 1] \o q[i]
    <3>1. i # 1 => i - 1 \in 1..n
      BY <1>1
    <3> QED BY <1>5, <2>1, <3>1
  <2> HIDE DEF n
  <2> QED BY <2>2
<1>7. Solves(g)
  <2> HIDE DEF Solves, h
  <2> QED BY <1>6
<1>8. g[1] = q[1] /\ \A i \in 2..n : g[i] = g[i - 1] \o q[i]
  <2>1. 1 \in 1..n /\ \A i \in 2..n : i \in 1..n /\ i # 1
    BY <1>1
  <2> HIDE DEF g, n
  <2> QED BY <1>7, <2>1
<1> DEFINE T == {i \in 0..n : i # 0 => g[i] = f[i]}
<1>9. 0 \in T
  BY <1>1
<1>10. ASSUME NEW i \in 0..(n - 1), i \in T PROVE i + 1 \in T
  <2>1. i + 1 \in 1..n /\ i + 1 \in 0..n /\ (i + 1) - 1 = i /\ (i # 0 => i + 1 \in 2..n)
    BY <1>1
  <2>2. CASE i = 0
    <3>1. f[1] = q[1]
      <4>1. 1 \in 1..n /\ 1 - 1 = 0
        BY <1>1
      <4>2. <<>> \o q[1] = q[1]
        BY <1>1, <4>1, ConcatEmptySeq
      <4> QED BY <1>4, <1>5, <4>1, <4>2
    <3> HIDE DEF g, n
    <3> QED BY <1>8, <2>1, <2>2, <3>1
  <2>3. CASE i # 0
    <3> HIDE DEF g, n
    <3>1. g[i + 1] = g[i] \o q[i + 1] /\ f[i + 1] = f[i] \o q[i + 1]
      BY <1>5, <1>8, <2>1, <2>3
    <3> QED BY <1>10, <2>1, <2>3, <3>1
  <2> QED BY <2>2, <2>3
<1>11. \A i \in 0..n : i \in T
  <2> HIDE DEF T, n
  <2> QED BY <1>1, <1>9, <1>10, UpToInduction
<1>12. g[n] = f[n]
  <2> HIDE DEF g
  <2> QED BY <1>1, <1>11
<1> HIDE DEF g
<1> QED BY <1>2, <1>4, <1>5, <1>12

-----------------------------------------------------------------------------
(* SumSeq                                                                  *)

\* The partial sums of a sequence, the last of which is its SumSeq.
LEMMA SumSeqUnfolds ==
    ASSUME NEW s \in Seq(Nat)
    PROVE  \E u \in [0..Len(s) -> Nat] :
              /\ SumSeq(s) = u[Len(s)]
              /\ u[0] = 0
              /\ \A i \in 1..Len(s) : u[i] = u[i - 1] + s[i]
<1> DEFINE n == Len(s)
           Solves(g) == g = [i \in 0..n |-> IF i = 0 THEN 0 ELSE g[i - 1] + s[i]]
           u == CHOOSE g : Solves(g)
           step == [i \in 1..n |-> [v \in Nat |-> v + s[i]]]
<1>1. n \in Nat /\ 0 \in Nat /\ \A i \in 1..n : s[i] \in Nat
  OBVIOUS
<1>2. SumSeq(s) = u[n]
  BY Zenon DEF SumSeq
<1>3. step \in StepMaps(n, Nat)
  BY <1>1 DEF StepMaps
<1>4. PICK f : f \in Recursions(n, Nat, 0, step)
  <2> HIDE DEF step, n
  <2> QED BY <1>1, <1>3, RecursionUpTo
<1>5. f \in [0..n -> Nat] /\ f[0] = 0
  BY <1>4 DEF Recursions
<1>6. ASSUME NEW i \in 1..n PROVE f[i] = f[i - 1] + s[i]
  <2>1. i - 1 \in 0..n /\ f[i] = step[i][f[i - 1]]
    <3> HIDE DEF step, n
    <3> QED BY <1>1, <1>4 DEF Recursions
  <2>2. f[i - 1] \in Nat
    BY <1>5, <2>1
  <2> QED BY <2>1, <2>2
<1>7. Solves(f)
  <2>1. ASSUME NEW i \in 0..n PROVE f[i] = IF i = 0 THEN 0 ELSE f[i - 1] + s[i]
    <3> HIDE DEF n
    <3> QED BY <1>1, <1>5, <1>6
  <2> QED BY <1>5, <2>1
<1>8. Solves(u)
  <2> HIDE DEF Solves
  <2> QED BY <1>7
<1>9. u[0] = 0 /\ \A i \in 1..n : u[i] = u[i - 1] + s[i]
  <2> HIDE DEF u
  <2> QED BY <1>1, <1>8
<1>10. u \in [0..n -> Nat]
  <2> HIDE DEF u
  <2> DEFINE T == {i \in 0..n : u[i] \in Nat}
  <2>1. 0 \in T
    BY <1>1, <1>9
  <2>2. ASSUME NEW i \in 0..(n - 1), i \in T PROVE i + 1 \in T
    <3>1. i + 1 \in 1..n /\ (i + 1) - 1 = i
      BY <1>1
    <3>2. u[i + 1] = u[i] + s[i + 1] /\ s[i + 1] \in Nat
      BY <1>1, <1>9, <3>1
    <3> QED BY <2>2, <3>1, <3>2
  <2>3. \A i \in 0..n : i \in T
    <3> HIDE DEF T, n
    <3> QED BY <1>1, <2>1, <2>2, UpToInduction
  <2>4. u = [i \in 0..n |-> u[i]]
    BY <1>8
  <2> HIDE DEF n
  <2> QED BY <2>3, <2>4
<1> HIDE DEF u
<1> QED BY <1>2, <1>9, <1>10

\* Sums are naturals, and at least each of the terms.
LEMMA SumSeqType ==
    ASSUME NEW s \in Seq(Nat)
    PROVE  SumSeq(s) \in Nat
<1>1. PICK u \in [0..Len(s) -> Nat] : SumSeq(s) = u[Len(s)]
  BY SumSeqUnfolds
<1>2. Len(s) \in 0..Len(s)
  OBVIOUS
<1> QED BY <1>1, <1>2

\* The empty sum.
LEMMA SumSeqEmpty == SumSeq(<<>>) = 0
<1>1. <<>> \in Seq(Nat) /\ Len(<<>>) = 0
  OBVIOUS
<1>2. PICK u \in [0..Len(<<>>) -> Nat] : SumSeq(<<>>) = u[Len(<<>>)] /\ u[0] = 0
  BY <1>1, SumSeqUnfolds
<1> QED BY <1>1, <1>2

\* The sum of a concatenation.
LEMMA SumSeqConcat ==
    ASSUME NEW s \in Seq(Nat), NEW t \in Seq(Nat)
    PROVE  SumSeq(s \o t) = SumSeq(s) + SumSeq(t)
<1> DEFINE m == Len(s)
           n == Len(t)
<1>1. PICK u \in [0..m -> Nat] :
          SumSeq(s) = u[m] /\ u[0] = 0 /\ \A i \in 1..m : u[i] = u[i - 1] + s[i]
  BY SumSeqUnfolds
<1>2. PICK v \in [0..n -> Nat] :
          SumSeq(t) = v[n] /\ v[0] = 0 /\ \A i \in 1..n : v[i] = v[i - 1] + t[i]
  BY SumSeqUnfolds
<1>3. s \o t \in Seq(Nat) /\ Len(s \o t) = m + n /\ m \in Nat /\ n \in Nat
  OBVIOUS
<1>4. PICK w \in [0..(m + n) -> Nat] :
          /\ SumSeq(s \o t) = w[m + n]
          /\ w[0] = 0
          /\ \A i \in 1..(m + n) : w[i] = w[i - 1] + (s \o t)[i]
  <2>1. \E w \in [0..Len(s \o t) -> Nat] :
          /\ SumSeq(s \o t) = w[Len(s \o t)]
          /\ w[0] = 0
          /\ \A i \in 1..Len(s \o t) : w[i] = w[i - 1] + (s \o t)[i]
    BY <1>3, SumSeqUnfolds
  <2> QED BY <1>3, <2>1
<1>5. /\ \A i \in 1..m : (s \o t)[i] = s[i]
      /\ \A i \in 1..n : (s \o t)[m + i] = t[i]
  OBVIOUS
<1> HIDE DEF m, n
<1>6. w[m] = u[m]
  <2> DEFINE T == {i \in 0..m : w[i] = u[i]}
  <2>1. 0 \in T
    BY <1>1, <1>3, <1>4
  <2>2. ASSUME NEW i \in 0..(m - 1), i \in T PROVE i + 1 \in T
    <3>1. i + 1 \in 1..m /\ i + 1 \in 1..(m + n) /\ (i + 1) - 1 = i
      BY <1>3
    <3>2. w[i + 1] = w[i] + s[i + 1] /\ u[i + 1] = u[i] + s[i + 1]
      BY <1>1, <1>4, <1>5, <3>1
    <3> QED BY <2>2, <3>1, <3>2
  <2>3. \A i \in 0..m : i \in T
    <3> HIDE DEF T
    <3> QED BY <1>3, <2>1, <2>2, UpToInduction
  <2> QED BY <1>3, <2>3
<1>7. w[m + n] = u[m] + v[n]
  <2> DEFINE T == {i \in 0..n : w[m + i] = u[m] + v[i]}
  <2>1. 0 \in T
    BY <1>1, <1>2, <1>3, <1>6
  <2>2. ASSUME NEW i \in 0..(n - 1), i \in T PROVE i + 1 \in T
    <3>1. /\ i + 1 \in 1..n /\ i \in 0..n /\ m \in 0..m /\ (i + 1) - 1 = i
          /\ m + (i + 1) \in 1..(m + n) /\ (m + (i + 1)) - 1 = m + i
      BY <1>3
    <3>2. w[m + (i + 1)] = w[m + i] + t[i + 1]
      BY <1>4, <1>5, <3>1
    <3>3. v[i + 1] = v[i] + t[i + 1]
      BY <1>2, <3>1
    <3>4. t[i + 1] \in Nat
      BY <3>1 DEF n
    <3>5. v[i] \in Nat /\ u[m] \in Nat
      BY <3>1
    <3>6. w[m + (i + 1)] = u[m] + v[i + 1]
      BY <2>2, <3>2, <3>3, <3>4, <3>5
    <3> QED BY <3>1, <3>6
  <2>3. \A i \in 0..n : i \in T
    <3> HIDE DEF T
    <3> QED BY <1>3, <2>1, <2>2, UpToInduction
  <2> QED BY <1>3, <2>3
<1> QED BY <1>1, <1>2, <1>4, <1>7

-----------------------------------------------------------------------------
(* Arithmetic, and the orders that lists are sorted by                     *)

\* Products of naturals.
LEMMA TimesNat ==
    /\ \A a, b \in Nat : a * b \in Nat
    /\ \A a, b \in Nat \ {0} : a * b \in Nat \ {0}
    /\ \A a \in Nat : a * 0 = 0
OBVIOUS

\* Division with remainder ...
LEMMA DivMod ==
    ASSUME NEW N \in Nat \ {0}, NEW i \in Nat
    PROVE  /\ i = N * (i \div N) + (i % N)
           /\ i % N \in 0..(N - 1) /\ i \div N \in Nat
OBVIOUS

\* ... is unique.
LEMMA DivModUnique ==
    ASSUME NEW N \in Nat \ {0}, NEW q \in Nat, NEW r \in 0..(N - 1)
    PROVE  (N * q + r) % N = r /\ (N * q + r) \div N = q
OBVIOUS

\* An interval from 1.
LEMMA UpTo1 ==
    ASSUME NEW n \in Nat
    PROVE  IsFiniteSet(1..n) /\ Cardinality(1..n) = n
<1>1. IsFiniteSet(1..n) /\ Cardinality(1..n) = IF 1 > n THEN 0 ELSE n - 1 + 1
  <2>1. 1 \in Int /\ n \in Int
    OBVIOUS
  <2> QED BY <2>1, FS_Interval, Zenon
<1> QED BY <1>1

\* What a strict total order of a set is.
StrictOrder(S, before) ==
    /\ \A x \in S : <<x, x>> \notin before
    /\ \A x, y \in S : x # y => <<x, y>> \in before \/ <<y, x>> \in before
    /\ \A x, y, z \in S : <<x, y>> \in before /\ <<y, z>> \in before => <<x, z>> \in before

\* How many elements come before one.
Rank(S, before, x) == Cardinality({y \in S : <<y, x>> \in before})

\* Ranks in a strict order are 0 to the number of elements - 1, each taken once.
LEMMA RankOf ==
    ASSUME NEW S, IsFiniteSet(S), NEW before, StrictOrder(S, before)
    PROVE  /\ \A x \in S : Rank(S, before, x) \in 0..(Cardinality(S) - 1)
           /\ \A x, y \in S : Rank(S, before, x) = Rank(S, before, y) => x = y
           /\ \A k \in 0..(Cardinality(S) - 1) : \E x \in S : Rank(S, before, x) = k
<1> DEFINE n == Cardinality(S)
           P(x) == {y \in S : <<y, x>> \in before}
           f == [x \in S |-> Rank(S, before, x)]
           T == 0..(n - 1)
<1>1. n \in Nat
  BY FS_CardinalityType
<1>2. \A x \in S : /\ P(x) \in SUBSET S /\ IsFiniteSet(P(x)) /\ Cardinality(P(x)) \in Nat
                   /\ Cardinality(P(x)) <= n /\ (n = Cardinality(P(x)) => S = P(x))
                   /\ Rank(S, before, x) = Cardinality(P(x))
  <2> TAKE x \in S
  <2>1. P(x) \in SUBSET S
    OBVIOUS
  <2>2. Rank(S, before, x) = Cardinality(P(x))
    BY DEF Rank
  <2> HIDE DEF P
  <2>3. IsFiniteSet(P(x)) /\ Cardinality(P(x)) <= n /\ (n = Cardinality(P(x)) => S = P(x))
    BY <2>1, FS_Subset
  <2>4. Cardinality(P(x)) \in Nat
    BY <2>3, FS_CardinalityType
  <2> QED BY <2>1, <2>2, <2>3, <2>4
<1>3. \A x \in S : Rank(S, before, x) \in T
  <2> TAKE x \in S
  <2>1. P(x) # S
    BY DEF StrictOrder
  <2> HIDE DEF P
  <2> QED BY <1>1, <1>2, <2>1
<1>4. ASSUME NEW x \in S, NEW y \in S, <<x, y>> \in before
      PROVE  Rank(S, before, x) < Rank(S, before, y)
  <2>1. P(x) \subseteq P(y) /\ P(x) # P(y)
    BY <1>4 DEF StrictOrder
  <2> HIDE DEF P
  <2>2. IsFiniteSet(P(y)) /\ P(x) \in SUBSET P(y)
    BY <1>2, <2>1
  <2>3. Cardinality(P(x)) <= Cardinality(P(y)) /\ (Cardinality(P(y)) = Cardinality(P(x)) => P(y) = P(x))
    BY <2>2, FS_Subset
  <2> QED BY <1>2, <2>1, <2>3
<1>5. \A x, y \in S : Rank(S, before, x) = Rank(S, before, y) => x = y
  <2> SUFFICES ASSUME NEW x \in S, NEW y \in S, x # y PROVE Rank(S, before, x) # Rank(S, before, y)
    OBVIOUS
  <2>1. <<x, y>> \in before \/ <<y, x>> \in before
    BY DEF StrictOrder
  <2> QED BY <1>1, <1>3, <1>4, <2>1
<1>6. f \in Injection(S, T)
  BY <1>3, <1>5 DEF Injection, IsInjective
<1>7. IsFiniteSet(T) /\ Cardinality(T) = n
  <2>1. 0 \in Int /\ n - 1 \in Int
    BY <1>1
  <2>2. IsFiniteSet(T) /\ Cardinality(T) = IF 0 > n - 1 THEN 0 ELSE (n - 1) - 0 + 1
    BY <2>1, FS_Interval, Zenon
  <2> QED BY <1>1, <2>2
<1>8. f \in Surjection(S, T)
  <2> HIDE DEF f, T
  <2> QED BY <1>6, <1>7, FS_Injection
<1>9. \A k \in T : \E x \in S : f[x] = k
  <2> HIDE DEF f, T
  <2> QED BY <1>8 DEF Surjection
<1> QED BY <1>3, <1>5, <1>9

\* Computed changes nothing.
LEMMA ComputedIs ==
    ASSUME NEW S, NEW s \in Seq(S)
    PROVE  Computed(s) = s
BY ConcatEmptySeq DEF Computed

\* q lists the elements of S, each once.
Lists(q, S) ==
    /\ q \in Seq(S) /\ Len(q) = Cardinality(S) /\ q \in [1..Cardinality(S) -> S]
    /\ \A i, j \in 1..Len(q) : q[i] = q[j] => i = j
    /\ \A x \in S : \E i \in 1..Len(q) : q[i] = x

\* InOrder does.
LEMMA InOrderIs ==
    ASSUME NEW S, IsFiniteSet(S), NEW before, StrictOrder(S, before), NEW q, q = InOrder(S, before)
    PROVE  Lists(q, S)
<1> DEFINE n == Cardinality(S)
           at(k) == CHOOSE x \in S : Cardinality({y \in S : <<y, x>> \in before}) = k - 1
           f == [k \in 1..n |-> at(k)]
<1>1. n \in Nat
  BY FS_CardinalityType
<1>2. \A k \in 1..n : at(k) \in S /\ Rank(S, before, at(k)) = k - 1
  <2> TAKE k \in 1..n
  <2>1. k - 1 \in 0..(n - 1)
    BY <1>1
  <2>2. \E x \in S : Rank(S, before, x) = k - 1
    BY <2>1, RankOf
  <2> QED BY <2>2 DEF Rank
<1> HIDE DEF at
<1>3. f \in [1..n -> S] /\ \A k \in 1..n : f[k] = at(k)
  BY <1>2
<1>4. q = Computed(f)
  BY Zenon DEF InOrder, at
<1> HIDE DEF f
<1>5. f \in Seq(S) /\ Len(f) = n
  BY <1>1, <1>3
<1>6. q = f
  BY <1>4, <1>5, ComputedIs
<1>7. \A i, j \in 1..n : f[i] = f[j] => i = j
  <2> SUFFICES ASSUME NEW i \in 1..n, NEW j \in 1..n, f[i] = f[j] PROVE i = j
    OBVIOUS
  <2>1. i - 1 = j - 1
    BY <1>2, <1>3
  <2> QED BY <2>1
<1>8. \A x \in S : \E i \in 1..n : f[i] = x
  <2> TAKE x \in S
  <2> DEFINE i == Rank(S, before, x) + 1
  <2>1. i \in 1..n /\ i - 1 = Rank(S, before, x)
    BY <1>1, RankOf
  <2>2. Rank(S, before, at(i)) = Rank(S, before, x) /\ at(i) \in S
    BY <1>2, <2>1
  <2>3. at(i) = x
    BY <2>2, RankOf
  <2> QED BY <1>3, <2>1, <2>3
<1> QED BY <1>3, <1>5, <1>6, <1>7, <1>8 DEF Lists

\* Three keys, each for those that are equal in the ones before.
ByKeys(S, a, b, c, before) ==
    /\ \A x \in S : a[x] \in Int /\ b[x] \in Int /\ c[x] \in Int
    /\ \A x, y \in S : c[x] = c[y] => x = y
    /\ \A x, y \in S : <<x, y>> \in before <=>
          (a[x] < a[y] \/ (a[x] = a[y] /\ (b[x] < b[y] \/ (b[x] = b[y] /\ c[x] < c[y]))))

\* They order a set when the last one tells its elements apart.
LEMMA StrictByKeys ==
    ASSUME NEW S, NEW a, NEW b, NEW c, NEW before, ByKeys(S, a, b, c, before)
    PROVE  StrictOrder(S, before)
<1> USE DEF ByKeys
<1>1. \A x \in S : a[x] \in Int /\ b[x] \in Int /\ c[x] \in Int
  OBVIOUS
<1>2. \A x \in S : <<x, x>> \notin before
  BY <1>1
<1>3. \A x, y \in S : x # y => <<x, y>> \in before \/ <<y, x>> \in before
  BY <1>1
<1>4. ASSUME NEW x \in S, NEW y \in S, NEW z \in S, <<x, y>> \in before, <<y, z>> \in before
      PROVE  <<x, z>> \in before
  BY <1>1, <1>4
<1> QED BY <1>2, <1>3, <1>4 DEF StrictOrder

\* An element comes before all others.
HasFirst(S, before) == \E x \in S : \A y \in S \ {x} : <<x, y>> \in before

\* A finite set has a first element in a strict order.
LEMMA FirstInOrder ==
    ASSUME NEW S, IsFiniteSet(S), S # {}, NEW before, StrictOrder(S, before)
    PROVE  HasFirst(S, before)
<1> DEFINE n == Cardinality(S)
<1>1. n \in Nat /\ n # 0
  BY FS_CardinalityType, FS_EmptySet
<1>2. PICK x \in S : Rank(S, before, x) = 0
  <2>1. 0 \in 0..(n - 1)
    BY <1>1
  <2> QED BY <2>1, RankOf
<1>3. ASSUME NEW y \in S, <<y, x>> \in before PROVE FALSE
  <2> DEFINE P == {z \in S : <<z, x>> \in before}
  <2>1. P \in SUBSET S /\ y \in P /\ Cardinality(P) = 0
    BY <1>2, <1>3 DEF Rank
  <2> HIDE DEF P
  <2>2. IsFiniteSet(P)
    BY <2>1, FS_Subset
  <2> QED BY <2>1, <2>2, FS_EmptySet
<1> QED BY <1>3 DEF StrictOrder, HasFirst

\* What starts and goes on like a recursion is one.
LEMMA SameRecursion ==
    ASSUME NEW n \in Nat, NEW X, NEW base \in X, NEW step \in StepMaps(n, X), NEW u,
           u = [i \in 0..n |-> u[i]], u[0] = base,
           \A i \in 1..n : u[i - 1] \in X => u[i] = step[i][u[i - 1]]
    PROVE  u \in Recursions(n, X, base, step)
<1> DEFINE T == {i \in 0..n : u[i] \in X}
<1>1. 0 \in T
  OBVIOUS
<1>2. ASSUME NEW i \in 0..(n - 1), i \in T PROVE i + 1 \in T
  <2>1. i + 1 \in 1..n /\ (i + 1) - 1 = i /\ i + 1 \in 0..n
    OBVIOUS
  <2>2. u[i + 1] = step[i + 1][u[i]] /\ u[i] \in X
    BY <1>2, <2>1
  <2>3. step[i + 1] \in [X -> X]
    BY <2>1 DEF StepMaps
  <2> QED BY <2>1, <2>2, <2>3
<1>3. \A i \in 0..n : i \in T
  <2> HIDE DEF T
  <2> QED BY <1>1, <1>2, UpToInduction
<1>4. u \in [0..n -> X]
  BY <1>3
<1>5. \A i \in 1..n : i - 1 \in 0..n
  OBVIOUS
<1> QED BY <1>3, <1>4, <1>5 DEF Recursions

\* A permutation of 1..n.
Permutes(order, n) ==
    /\ order \in [1..n -> 1..n]
    /\ \A i, j \in 1..n : order[i] = order[j] => i = j
    /\ \A i \in 1..n : \E j \in 1..n : order[j] = i

\* Listing 1..n in order is one.
LEMMA OrderPermutes ==
    ASSUME NEW n \in Nat, NEW before, StrictOrder(1..n, before)
    PROVE  Permutes(InOrder(1..n, before), n)
<1> DEFINE q == InOrder(1..n, before)
<1>1. IsFiniteSet(1..n) /\ Cardinality(1..n) = n
  BY UpTo1
<1> HIDE DEF q
<1>2. /\ Len(q) = n /\ q \in [1..n -> 1..n]
      /\ \A i, j \in 1..Len(q) : q[i] = q[j] => i = j
      /\ \A x \in 1..n : \E i \in 1..Len(q) : q[i] = x
  <2>1. Lists(q, 1..n)
    BY <1>1, InOrderIs, Zenon DEF q
  <2> QED BY <1>1, <2>1 DEF Lists
<1>3. Permutes(q, n)
  BY <1>2 DEF Permutes
<1> QED BY <1>3 DEF q

-----------------------------------------------------------------------------
(* Concatenations and sums                                                 *)

\* u has the elements of s, then those of t.
IsConcat(u, s, t, S) ==
    /\ s \in Seq(S) /\ t \in Seq(S)
    /\ u \in Seq(S) /\ Len(u) = Len(s) + Len(t)
    /\ \A i \in 1..Len(s) : u[i] = s[i]
    /\ \A i \in 1..Len(t) : u[Len(s) + i] = t[i]

\* It is the concatenation.
LEMMA ConcatIs ==
    ASSUME NEW S, NEW s \in Seq(S), NEW t \in Seq(S)
    PROVE  IsConcat(s \o t, s, t, S) /\ \A u : IsConcat(u, s, t, S) => u = s \o t
<1>1. IsConcat(s \o t, s, t, S)
  BY DEF IsConcat
<1>2. ASSUME NEW u, IsConcat(u, s, t, S) PROVE u = s \o t
  <2> DEFINE v == s \o t
  <2>1. IsConcat(v, s, t, S)
    BY <1>1
  <2> HIDE DEF v
  <2>2. Len(s) \in Nat /\ Len(t) \in Nat /\ u \in Seq(S) /\ v \in Seq(S) /\ Len(u) = Len(v)
        /\ Len(u) = Len(s) + Len(t)
    BY <1>2, <2>1 DEF IsConcat
  <2>3. ASSUME NEW i \in 1..Len(u) PROVE u[i] = v[i]
    <3>1. CASE i <= Len(s)
      <4>1. i \in 1..Len(s)
        BY <2>2, <3>1
      <4> QED BY <1>2, <2>1, <4>1 DEF IsConcat
    <3>2. CASE ~ (i <= Len(s))
      <4>1. i - Len(s) \in 1..Len(t) /\ Len(s) + (i - Len(s)) = i
        BY <2>2, <3>2
      <4> QED BY <1>2, <2>1, <4>1 DEF IsConcat
    <3> QED BY <3>1, <3>2
  <2>4. u = v
    BY <2>2, <2>3, SeqEqual
  <2> QED BY <2>4 DEF v
<1> QED BY <1>1, <1>2

\* Appending is the concatenation with one element.
LEMMA AppendIs ==
    ASSUME NEW S, NEW s \in Seq(S), NEW x \in S
    PROVE  IsConcat(Append(s, x), s, <<x>>, S)
BY DEF IsConcat

\* A sequence up to a position, and after it.
LEMMA CutIs ==
    ASSUME NEW S, NEW s \in Seq(S), NEW n \in 0..Len(s)
    PROVE  \E a, b : IsConcat(s, a, b, S) /\ Len(a) = n
<1> DEFINE a == SubSeq(s, 1, n)
           b == SubSeq(s, n + 1, Len(s))
<1>1. /\ a \in Seq(S) /\ Len(a) = n
      /\ b \in Seq(S) /\ Len(b) = Len(s) - n
      /\ \A i \in 1..n : a[i] = s[i]
      /\ \A i \in 1..(Len(s) - n) : b[i] = s[n + i]
  BY Split
<1>2. n \in Nat /\ Len(s) \in Nat
  OBVIOUS
<1> HIDE DEF a, b
<1>3. IsConcat(s, a, b, S)
  BY <1>1, <1>2 DEF IsConcat
<1> QED BY <1>1, <1>3

\* Elements and repetitions of a concatenation.
ConcatHas(u, s, t) ==
    /\ ToSet(u) = ToSet(s) \cup ToSet(t)
    /\ IsInjective(s) /\ IsInjective(t) /\ ToSet(s) \cap ToSet(t) = {} => IsInjective(u)
    /\ IsInjective(u) => IsInjective(s) /\ IsInjective(t) /\ ToSet(s) \cap ToSet(t) = {}

\* They are those of its parts.
LEMMA ConcatSet ==
    ASSUME NEW S, NEW u, NEW s, NEW t, IsConcat(u, s, t, S)
    PROVE  ConcatHas(u, s, t)
<1>1. s \in Seq(S) /\ t \in Seq(S) /\ Len(s) \in Nat /\ Len(t) \in Nat
  BY DEF IsConcat
<1>2. u = s \o t
  BY <1>1, ConcatIs, Zenon
<1>3. ToSet(u) = ToSet(s) \cup ToSet(t)
  BY <1>1, <1>2, ToSetConcat, Zenon
<1>4. IsInjective(s) /\ IsInjective(t) /\ ToSet(s) \cap ToSet(t) = {} => IsInjective(u)
  BY <1>1, <1>2, InjectiveConcat, Zenon
<1>5. ASSUME IsInjective(u)
      PROVE  IsInjective(s) /\ IsInjective(t) /\ ToSet(s) \cap ToSet(t) = {}
  <2>1. DOMAIN u = 1..(Len(s) + Len(t)) /\ DOMAIN s = 1..Len(s) /\ DOMAIN t = 1..Len(t)
    BY <1>1 DEF IsConcat
  <2>2. \A i \in 1..Len(s) : i \in 1..(Len(s) + Len(t)) /\ u[i] = s[i]
    BY <1>1 DEF IsConcat
  <2>3. \A i \in 1..Len(t) : Len(s) + i \in 1..(Len(s) + Len(t)) /\ u[Len(s) + i] = t[i]
    BY <1>1 DEF IsConcat
  <2>4. \A i, j \in 1..(Len(s) + Len(t)) : u[i] = u[j] => i = j
    BY <1>5, <2>1 DEF IsInjective
  <2>5. IsInjective(s)
    BY <2>1, <2>2, <2>4 DEF IsInjective
  <2>6. \A i, j \in 1..Len(t) : t[i] = t[j] => i = j
    <3> SUFFICES ASSUME NEW i \in 1..Len(t), NEW j \in 1..Len(t), t[i] = t[j] PROVE i = j
      OBVIOUS
    <3>1. Len(s) + i = Len(s) + j
      BY <2>3, <2>4
    <3> QED BY <1>1, <3>1
  <2>7. ASSUME NEW i \in 1..Len(s), NEW j \in 1..Len(t) PROVE s[i] # t[j]
    <3>1. i # Len(s) + j
      BY <1>1
    <3> QED BY <2>2, <2>3, <2>4, <3>1
  <2> QED BY <2>1, <2>5, <2>6, <2>7 DEF IsInjective, ToSet
<1> QED BY <1>3, <1>4, <1>5 DEF ConcatHas

-----------------------------------------------------------------------------

\* The weights of the elements of a sequence.
Weights(S) == [S -> Nat]
Image(w, s) == [i \in 1..Len(s) |-> w[s[i]]]
Sum(w, s) == SumSeq(Image(w, s))

\* a lists the weights of the elements of s.
IsImage(a, w, s) ==
    a \in Seq(Nat) /\ Len(a) = Len(s) /\ \A i \in 1..Len(s) : a[i] = w[s[i]]

\* They are naturals, as many as there are elements.
LEMMA ImageParts ==
    ASSUME NEW S, NEW w \in Weights(S), NEW s \in Seq(S)
    PROVE  IsImage(Image(w, s), w, s) /\ Sum(w, s) \in Nat
<1>1. Len(s) \in Nat /\ \A i \in 1..Len(s) : w[s[i]] \in Nat
  BY DEF Weights
<1>2. /\ Image(w, s) \in Seq(Nat) /\ Len(Image(w, s)) = Len(s)
      /\ \A i \in 1..Len(s) : Image(w, s)[i] = w[s[i]]
  BY <1>1 DEF Image
<1> HIDE DEF Image
<1>3. SumSeq(Image(w, s)) \in Nat
  BY <1>2, SumSeqType
<1> QED BY <1>2, <1>3 DEF IsImage, Sum

\* u weighs as much as s and t.
SumAdds(w, u, s, t) ==
    Sum(w, u) = Sum(w, s) + Sum(w, t) /\ Sum(w, s) \in Nat /\ Sum(w, t) \in Nat

\* The weight of a concatenation.
LEMMA SumImageConcat ==
    ASSUME NEW S, NEW w \in Weights(S), NEW u, NEW s, NEW t, IsConcat(u, s, t, S)
    PROVE  SumAdds(w, u, s, t)
<1>2. /\ u \in Seq(S) /\ Len(u) = Len(s) + Len(t) /\ Len(s) \in Nat /\ Len(t) \in Nat
      /\ s \in Seq(S) /\ t \in Seq(S)
  BY DEF IsConcat
<1> DEFINE a == Image(w, s)
           b == Image(w, t)
           c == Image(w, u)
<1>a. a \in Seq(Nat) /\ Len(a) = Len(s) /\ \A i \in 1..Len(s) : a[i] = w[s[i]]
  <2>1. IsImage(a, w, s)
    BY <1>2, ImageParts, Zenon
  <2> HIDE DEF a
  <2> QED BY <2>1 DEF IsImage
<1>b. b \in Seq(Nat) /\ Len(b) = Len(t) /\ \A i \in 1..Len(t) : b[i] = w[t[i]]
  <2>1. IsImage(b, w, t)
    BY <1>2, ImageParts, Zenon
  <2> HIDE DEF b
  <2> QED BY <2>1 DEF IsImage
<1>c. c \in Seq(Nat) /\ Len(c) = Len(u) /\ \A i \in 1..Len(u) : c[i] = w[u[i]]
  <2>1. IsImage(c, w, u)
    BY <1>2, ImageParts, Zenon
  <2> HIDE DEF c
  <2> QED BY <2>1 DEF IsImage
<1> HIDE DEF a, b, c
<1>4. IsConcat(c, a, b, Nat)
  <2>1. \A i \in 1..Len(s) : i \in 1..Len(u) /\ u[i] = s[i]
    BY <1>2 DEF IsConcat
  <2>2. \A i \in 1..Len(t) : Len(s) + i \in 1..Len(u) /\ u[Len(s) + i] = t[i]
    BY <1>2 DEF IsConcat
  <2>3. \A i \in 1..Len(s) : c[i] = a[i]
    BY <1>a, <1>c, <2>1
  <2>4. ASSUME NEW i \in 1..Len(t) PROVE c[Len(s) + i] = b[i]
    <3>1. c[Len(s) + i] = w[u[Len(s) + i]]
      BY <1>c, <2>2
    <3> QED BY <1>b, <2>2, <3>1
  <2> QED BY <1>2, <1>a, <1>b, <1>c, <2>3, <2>4 DEF IsConcat
<1>5. c = a \o b
  BY <1>a, <1>b, <1>4, ConcatIs, Zenon
<1>6. SumSeq(c) = SumSeq(a) + SumSeq(b)
  BY <1>a, <1>b, <1>5, SumSeqConcat
<1>7. SumSeq(a) \in Nat /\ SumSeq(b) \in Nat
  BY <1>a, <1>b, SumSeqType
<1> QED BY <1>6, <1>7 DEF a, b, c, SumAdds, Sum

\* A sum of one term.
LEMMA SumSeqOne ==
    ASSUME NEW x \in Nat
    PROVE  SumSeq(<<x>>) = x
<1>1. <<x>> \in Seq(Nat) /\ Len(<<x>>) = 1
  OBVIOUS
<1>2. PICK u \in [0..1 -> Nat] : SumSeq(<<x>>) = u[1] /\ u[0] = 0 /\ \A i \in 1..1 : u[i] = u[i - 1] + <<x>>[i]
  BY <1>1, SumSeqUnfolds
<1>3. u[1] = u[0] + x
  BY <1>2
<1> QED BY <1>2, <1>3

\* u weighs as much as s and x.
SumAppends(w, u, s, x) ==
    Sum(w, <<x>>) = w[x] /\ Sum(w, u) = Sum(w, s) + w[x] /\ Sum(w, s) \in Nat /\ w[x] \in Nat

\* The weight of one element, and of one more.
LEMMA SumImageAppend ==
    ASSUME NEW S, NEW w \in Weights(S), NEW s \in Seq(S), NEW x \in S
    PROVE  SumAppends(w, Append(s, x), s, x)
<1>1. w[x] \in Nat
  BY DEF Weights
<1>2. Image(w, <<x>>) = <<w[x]>>
  BY DEF Image
<1>3. SumSeq(<<w[x]>>) = w[x]
  BY <1>1, SumSeqOne
<1>4. IsConcat(Append(s, x), s, <<x>>, S)
  BY AppendIs
<1>5. SumAdds(w, Append(s, x), s, <<x>>)
  BY <1>4, SumImageConcat, Zenon
<1> QED BY <1>1, <1>2, <1>3, <1>5 DEF Sum, SumAdds, SumAppends

\* z is s without its element x.
Without(z, s, x, w, S) ==
    /\ z \in Seq(S) /\ Len(s) = Len(z) + 1
    /\ ToSet(s) = ToSet(z) \cup {x}
    /\ IsInjective(s) => IsInjective(z) /\ x \notin ToSet(z)
    /\ Sum(w, s) = Sum(w, z) + w[x]
    /\ Sum(w, z) \in Nat

\* Every element can be left out.
LEMMA LeftOut ==
    ASSUME NEW S, NEW w \in Weights(S), NEW s \in Seq(S), NEW x \in ToSet(s)
    PROVE  \E z : Without(z, s, x, w, S)
<1>1. PICK i \in 1..Len(s) : s[i] = x
  BY DEF ToSet
<1>2. x \in S /\ Len(s) \in Nat /\ i \in 0..Len(s) /\ i - 1 \in 0..i
  BY <1>1
<1>3. PICK a, b : IsConcat(s, a, b, S) /\ Len(a) = i
  BY <1>2, CutIs
<1>4. a \in Seq(S) /\ b \in Seq(S) /\ a[i] = x /\ Len(s) = Len(a) + Len(b) /\ Len(b) \in Nat
  BY <1>1, <1>2, <1>3 DEF IsConcat
<1>5. PICK c, d : IsConcat(a, c, d, S) /\ Len(c) = i - 1
  BY <1>2, <1>3, <1>4, CutIs
<1>6. c \in Seq(S) /\ d \in Seq(S) /\ d = <<x>>
  <2>0. d \in Seq(S) /\ c \in Seq(S) /\ Len(a) = Len(c) + Len(d) /\ Len(d) \in Nat
        /\ \A j \in 1..Len(d) : d[j] = a[Len(c) + j]
    BY <1>5 DEF IsConcat
  <2>1. Len(d) = 1
    <3>1. i \in Nat /\ Len(a) = i /\ Len(c) = i - 1
      BY <1>3, <1>5
    <3>2. Len(a) = Len(c) + Len(d) /\ Len(d) \in Nat
      BY <2>0
    <3>3. \A k, l \in Nat : k = (k - 1) + l => l = 1
      OBVIOUS
    <3> QED BY <3>1, <3>2, <3>3
  <2>2. d[1] = a[Len(c) + 1] /\ Len(c) + 1 = i
    BY <1>2, <1>5, <2>0, <2>1
  <2> QED BY <1>2, <1>4, <2>0, <2>1, <2>2
<1>7. PICK z : IsConcat(z, c, b, S)
  BY <1>4, <1>6, ConcatIs, Zenon
<1>8. z \in Seq(S) /\ Len(s) = Len(z) + 1
  <2>1. z \in Seq(S) /\ Len(z) = Len(c) + Len(b)
    BY <1>7 DEF IsConcat
  <2> QED BY <1>2, <1>3, <1>4, <1>5, <2>1
<1>9. ToSet(d) = {x}
  BY <1>6 DEF ToSet
<1>10. ConcatHas(s, a, b) /\ ConcatHas(a, c, d) /\ ConcatHas(z, c, b)
  <2>1. ConcatHas(s, a, b)
    BY <1>3, ConcatSet, Zenon
  <2>2. ConcatHas(a, c, d)
    BY <1>5, ConcatSet, Zenon
  <2>3. ConcatHas(z, c, b)
    BY <1>7, ConcatSet, Zenon
  <2> QED BY <2>1, <2>2, <2>3
<1>11. IsInjective(s) => IsInjective(z) /\ x \notin ToSet(z)
  BY <1>9, <1>10 DEF ConcatHas
<1>12. SumAdds(w, s, a, b)
  BY <1>3, SumImageConcat, Zenon
<1>13. SumAdds(w, a, c, d)
  BY <1>5, SumImageConcat, Zenon
<1>14. SumAdds(w, z, c, b)
  BY <1>7, SumImageConcat, Zenon
<1>15. Sum(w, d) = w[x]
  <2>1. SumAppends(w, Append(c, x), c, x)
    BY <1>2, <1>6, SumImageAppend, Zenon
  <2> QED BY <1>6, <2>1 DEF SumAppends
<1>16. Sum(w, s) = Sum(w, z) + w[x] /\ Sum(w, z) \in Nat
  BY <1>12, <1>13, <1>14, <1>15 DEF SumAdds
<1>17. ToSet(s) = ToSet(z) \cup {x}
  BY <1>9, <1>10 DEF ConcatHas
<1> QED BY <1>8, <1>11, <1>16, <1>17 DEF Without

\* Some of the elements of a sequence weigh no more than all of them.
LEMMA SumSub ==
    ASSUME NEW S, NEW w \in Weights(S), NEW s \in Seq(S), NEW t \in Seq(S),
           IsInjective(t), ToSet(t) \subseteq ToSet(s)
    PROVE  Sum(w, t) <= Sum(w, s)
<1> DEFINE Less(r, q) == Sum(w, r) <= Sum(w, q)
           P(m) == \A q, r \in Seq(S) :
                      Len(r) = m /\ IsInjective(r) /\ ToSet(r) \subseteq ToSet(q) => Less(r, q)
           T == {m \in 0..Len(t) : P(m)}
<1>1. Len(t) \in Nat
  OBVIOUS
<1>2. P(0)
  <2> SUFFICES ASSUME NEW q \in Seq(S), NEW r \in Seq(S), Len(r) = 0 PROVE Less(r, q)
    OBVIOUS
  <2>1. Image(w, r) = <<>>
    BY DEF Image
  <2>2. Sum(w, q) \in Nat
    BY ImageParts
  <2>3. Sum(w, r) = 0
    BY <2>1, SumSeqEmpty DEF Sum
  <2> QED BY <2>2, <2>3
<1>3. ASSUME NEW m \in 0..(Len(t) - 1), P(m) PROVE P(m + 1)
  <2> SUFFICES ASSUME NEW q \in Seq(S), NEW r \in Seq(S),
                      Len(r) = m + 1, IsInjective(r), ToSet(r) \subseteq ToSet(q)
               PROVE  Less(r, q)
    OBVIOUS
  <2>1. PICK x : x \in ToSet(r) /\ x \in ToSet(q)
    <3>1. m + 1 \in 1..Len(r) /\ DOMAIN r = 1..Len(r)
      BY <1>1
    <3>2. r[m + 1] \in ToSet(r)
      BY <3>1 DEF ToSet
    <3> QED BY <3>2
  <2>2. PICK y : Without(y, r, x, w, S)
    BY <2>1, LeftOut
  <2>3. PICK z : Without(z, q, x, w, S)
    BY <2>1, LeftOut
  <2>4. y \in Seq(S) /\ z \in Seq(S) /\ Len(y) = m /\ IsInjective(y)
    BY <1>1, <2>2, <2>3 DEF Without
  <2>5. ToSet(y) \subseteq ToSet(z)
    BY <2>2, <2>3 DEF Without
  <2>6. Less(y, z)
    <3> HIDE DEF Less
    <3> QED BY <1>3, <2>4, <2>5
  <2>7. w[x] \in Nat
    BY <2>1 DEF ToSet, Weights
  <2> QED BY <2>2, <2>3, <2>6, <2>7 DEF Without
<1>4. \A m \in 0..Len(t) : m \in T
  <2>1. 0 \in T
    BY <1>1, <1>2
  <2>2. ASSUME NEW m \in 0..(Len(t) - 1), m \in T PROVE m + 1 \in T
    <3>1. m + 1 \in 0..Len(t)
      BY <1>1
    <3> HIDE DEF P
    <3> QED BY <1>3, <2>2, <3>1
  <2> HIDE DEF T
  <2> QED BY <1>1, <2>1, <2>2, UpToInduction
<1> HIDE DEF Less
<1>5. P(Len(t))
  <2>1. Len(t) \in 0..Len(t)
    BY <1>1
  <2> HIDE DEF P
  <2> QED BY <1>4, <2>1
<1>6. Less(t, s)
  BY <1>5
<1> QED BY <1>6 DEF Less

\* A sequence is the function of its entries.
LEMMA Entries ==
    ASSUME NEW S, NEW s \in Seq(S)
    PROVE  /\ Len(s) \in Nat /\ DOMAIN s = 1..Len(s)
           /\ s = [i \in 1..Len(s) |-> s[i]]
OBVIOUS

\* What a flattened sequence of sequences holds.
LEMMA FlattenContent ==
    ASSUME NEW S, NEW q \in Seq(Seq(S)), q # <<>>
    PROVE  /\ FlattenSeq(q) \in Seq(S)
           /\ ToSet(FlattenSeq(q)) = UNION {ToSet(q[i]) : i \in 1..Len(q)}
<1> DEFINE n == Len(q)
           E(i) == UNION {ToSet(q[j]) : j \in 1..i}
<1>1. n \in Nat /\ \A i \in 1..n : q[i] \in Seq(S)
  OBVIOUS
<1>2. PICK u \in [0..n -> Seq(S)] :
          /\ FlattenSeq(q) = u[n]
          /\ u[0] = <<>>
          /\ \A i \in 1..n : u[i] = u[i - 1] \o q[i]
  BY FlattenUnfolds
<1> HIDE DEF n
<1> DEFINE T == {i \in 0..n : ToSet(u[i]) = E(i)}
<1>3. 0 \in T
  <2>1. ToSet(u[0]) = {}
    BY <1>2 DEF ToSet
  <2>2. E(0) = {}
    OBVIOUS
  <2>3. 0 \in 0..n
    BY <1>1
  <2> QED BY <2>1, <2>2, <2>3, Zenon
<1>4. ASSUME NEW i \in 0..(n - 1), i \in T PROVE i + 1 \in T
  <2> DEFINE k == i + 1
  <2>1. k \in 1..n /\ k - 1 = i /\ i \in 0..n /\ k \in 0..n /\ 1..k = (1..i) \cup {k}
    BY <1>1
  <2> HIDE DEF k
  <2>2. u[k] = u[i] \o q[k] /\ u[i] \in Seq(S) /\ q[k] \in Seq(S)
    BY <1>1, <1>2, <2>1
  <2>3. ToSet(u[k]) = ToSet(u[i]) \cup ToSet(q[k])
    BY <2>2, ToSetConcat
  <2>4. E(k) = E(i) \cup ToSet(q[k])
    BY <2>1
  <2> HIDE DEF E
  <2>5. k \in T
    BY <1>4, <2>1, <2>3, <2>4
  <2> QED BY <2>5 DEF k
<1>5. \A i \in 0..n : i \in T
  <2> HIDE DEF T
  <2> QED BY <1>1, <1>3, <1>4, UpToInduction
<1>6. n \in 0..n
  BY <1>1
<1>7. ToSet(u[n]) = E(n)
  <2> HIDE DEF E
  <2> QED BY <1>5, <1>6
<1>8. u[n] \in Seq(S)
  BY <1>2, <1>6
<1> QED BY <1>2, <1>7, <1>8 DEF n
===============================================================================
