---------------------------- MODULE PackedGridProofs ----------------------------
(***************************************************************************)
(* Proofs about Packing and PackedGrid, for every value of their           *)
(* constants: the micro batches that pack() sends make an even grid.       *)
(***************************************************************************)
EXTENDS PackedGrid, MultiRunProofs

-----------------------------------------------------------------------------
(* Bins: what first fit makes of a set of samples                          *)

\* Numbers by their keys, and by themselves where those are equal.
LEMMA StrictByKey ==
    ASSUME NEW n \in Nat, NEW keys, \A i \in 1..n : keys[i] \in Int
    PROVE  StrictOrder(1..n, {w \in (1..n) \X (1..n) :
              \/ keys[w[1]] > keys[w[2]]
              \/ keys[w[1]] = keys[w[2]] /\ w[1] < w[2]})
<1>1. \A i \in 1..n : i \in Int /\ keys[i] \in Int
  OBVIOUS
<1> QED BY <1>1 DEF StrictOrder

\* t has the elements of s in some order.
Rearranged(t, s, S) ==
    /\ t \in Seq(S) /\ Len(t) = Len(s) /\ ToSet(t) = ToSet(s)
    /\ IsInjective(s) => IsInjective(t)

\* So does a permutation.
LEMMA PermutedIs ==
    ASSUME NEW S, NEW s \in Seq(S), NEW order, Permutes(order, Len(s))
    PROVE  Rearranged([i \in 1..Len(s) |-> s[order[i]]], s, S)
<1> DEFINE n == Len(s)
           t == [i \in 1..Len(s) |-> s[order[i]]]
<1>1. n \in Nat /\ DOMAIN s = 1..n /\ \A i \in 1..n : s[i] \in S
  OBVIOUS
<1>2. /\ \A i \in 1..n : order[i] \in 1..n
      /\ \A i, j \in 1..n : order[i] = order[j] => i = j
      /\ \A i \in 1..n : \E j \in 1..n : order[j] = i
  BY DEF Permutes
<1> HIDE DEF n
<1>3. t = [i \in 1..n |-> s[order[i]]]
  BY DEF n
<1>4. t \in Seq(S) /\ Len(t) = n /\ DOMAIN t = 1..n /\ \A i \in 1..n : t[i] = s[order[i]]
  <2>1. \A i \in 1..n : s[order[i]] \in S
    BY <1>1, <1>2
  <2>2. t \in [1..n -> S]
    BY <1>3, <2>1
  <2> QED BY <1>1, <1>3, <2>2
<1> HIDE DEF t
<1>a. ToSet(t) = {t[i] : i \in 1..n} /\ ToSet(s) = {s[i] : i \in 1..n}
  BY <1>1, <1>4 DEF ToSet
<1>5. ToSet(t) = ToSet(s)
  <2>1. ASSUME NEW i \in 1..n PROVE t[i] \in ToSet(s)
    <3>1. order[i] \in 1..n /\ t[i] = s[order[i]]
      BY <1>2, <1>4
    <3> QED BY <1>a, <3>1
  <2>2. ASSUME NEW i \in 1..n PROVE s[i] \in ToSet(t)
    <3>1. PICK j \in 1..n : order[j] = i
      BY <1>2
    <3>2. t[j] = s[i]
      BY <1>4, <3>1
    <3> QED BY <1>a, <3>2
  <2>3. ToSet(t) \subseteq ToSet(s)
    BY <1>a, <2>1, Zenon
  <2>4. ToSet(s) \subseteq ToSet(t)
    BY <1>a, <2>2, Zenon
  <2> QED BY <2>3, <2>4, Zenon
<1>6. ASSUME IsInjective(s) PROVE IsInjective(t)
  <2>1. \A i, j \in 1..n : s[i] = s[j] => i = j
    BY <1>1, <1>6 DEF IsInjective
  <2>2. ASSUME NEW i \in 1..n, NEW j \in 1..n, t[i] = t[j] PROVE i = j
    <3> DEFINE k == order[i]
               l == order[j]
    <3>1. s[k] = s[l] /\ k \in 1..n /\ l \in 1..n
      BY <1>2, <1>4, <2>2
    <3>2. k = l => i = j
      BY <1>2
    <3> HIDE DEF k, l
    <3> QED BY <2>1, <3>1, <3>2
  <2>3. \A i, j \in DOMAIN t : t[i] = t[j] => i = j
    BY <1>4, <2>2
  <2> QED BY <2>3 DEF IsInjective
<1> QED BY <1>4, <1>5, <1>6 DEF Rearranged, n, t

\* Sorting by decreasing keys permutes.
LEMMA DescendingIs ==
    ASSUME NEW S, NEW s \in Seq(S), NEW keys, \A i \in 1..Len(s) : keys[i] \in Int
    PROVE  Rearranged(Descending(s, keys), s, S)
<1> DEFINE n == Len(s)
           before == {w \in (1..n) \X (1..n) :
                        \/ keys[w[1]] > keys[w[2]]
                        \/ keys[w[1]] = keys[w[2]] /\ w[1] < w[2]}
           order == InOrder(1..n, before)
<1>1. n \in Nat
  OBVIOUS
<1>2. StrictOrder(1..n, before)
  <2> HIDE DEF n
  <2>1. \A i \in 1..n : keys[i] \in Int
    BY DEF n
  <2> QED BY <1>1, <2>1, StrictByKey
<1> HIDE DEF before
<1>3. Permutes(order, n)
  BY <1>1, <1>2, OrderPermutes
<1>4. Descending(s, keys) = [i \in 1..Len(s) |-> s[order[i]]]
  BY Zenon DEF Descending, before
<1> HIDE DEF order
<1>5. Rearranged([i \in 1..Len(s) |-> s[order[i]]], s, S)
  BY <1>3, PermutedIs
<1> QED BY <1>4, <1>5

-----------------------------------------------------------------------------

\* Samples that were cut to the sequence length, and have tokens left.
Pieces(A) == \A x \in A : Size(x) \in 1..SeqLen

\* How many tokens each of them has.
SizeOf(A) == [x \in A |-> Size(x)]

\* Lengths are sums of weights.
LEMMA LengthIs ==
    ASSUME NEW A, Pieces(A), NEW s \in Seq(A)
    PROVE  SizeOf(A) \in Weights(A) /\ Length(s) = Sum(SizeOf(A), s) /\ Length(s) \in Nat
<1>0. SeqLen \in Nat
  BY PackingAssumption
<1>1. SizeOf(A) \in Weights(A)
  BY <1>0 DEF Pieces, SizeOf, Weights
<1>2. \A i \in 1..Len(s) : SizeOf(A)[s[i]] = Size(s[i])
  BY DEF SizeOf
<1>3. Sizes(s) = Image(SizeOf(A), s)
  BY <1>2 DEF Sizes, Image
<1>4. Length(s) = Sum(SizeOf(A), s)
  BY <1>3 DEF Length, Sum
<1>5. Sum(SizeOf(A), s) \in Nat
  BY <1>1, ImageParts
<1> QED BY <1>1, <1>4, <1>5

\* A bin that a micro batch can be made of.
GoodBin(bin, A) ==
    /\ bin \in Seq(A) /\ bin # <<>> /\ IsInjective(bin)
    /\ Length(bin) <= SeqLen
    /\ \A x, y \in ToSet(bin) : x.routed = y.routed
    /\ \A x \in ToSet(bin) : Multimodal(x) => Len(bin) = 1

\* The bins hold the samples B, each once.
Divides(bins, B, A) ==
    /\ bins \in Seq(Seq(A)) /\ \A b \in 1..Len(bins) : GoodBin(bins[b], A)
    /\ \A b, c \in 1..Len(bins) : b # c => ToSet(bins[b]) \cap ToSet(bins[c]) = {}
    /\ \A b \in 1..Len(bins) : ToSet(bins[b]) \subseteq B
    /\ \A x \in B : \E b \in 1..Len(bins) : x \in ToSet(bins[b])

\* One more bin.
LEMMA DividesMore ==
    ASSUME NEW A, NEW B, NEW bins, Divides(bins, B, A), NEW bin, GoodBin(bin, A),
           ToSet(bin) \cap B = {}
    PROVE  Divides(Append(bins, bin), B \cup ToSet(bin), A)
<1> DEFINE n == Len(bins)
           more == Append(bins, bin)
<1>1. bins \in Seq(Seq(A)) /\ n \in Nat /\ bin \in Seq(A)
  BY DEF Divides, GoodBin
<1>2. /\ more \in Seq(Seq(A)) /\ Len(more) = n + 1 /\ more[n + 1] = bin
      /\ \A b \in 1..n : more[b] = bins[b]
  BY <1>1
<1> HIDE DEF n, more
<1>3. \A b \in 1..(n + 1) : b \in 1..n \/ b = n + 1
  BY <1>1
<1>4. \A b \in 1..n : b \in 1..(n + 1)
  BY <1>1
<1>5. n + 1 \in 1..(n + 1)
  BY <1>1
<1>6. /\ \A b \in 1..n : GoodBin(bins[b], A)
      /\ \A b, c \in 1..n : b # c => ToSet(bins[b]) \cap ToSet(bins[c]) = {}
      /\ \A b \in 1..n : ToSet(bins[b]) \subseteq B
      /\ \A x \in B : \E b \in 1..n : x \in ToSet(bins[b])
  BY DEF Divides, n
<1>7. \A b \in 1..(n + 1) : GoodBin(more[b], A) /\ ToSet(more[b]) \subseteq B \cup ToSet(bin)
  BY <1>2, <1>3, <1>6
<1>8. ASSUME NEW b \in 1..(n + 1), NEW c \in 1..(n + 1), b # c
      PROVE  ToSet(more[b]) \cap ToSet(more[c]) = {}
  <2>1. CASE b \in 1..n /\ c \in 1..n
    BY <1>2, <1>6, <1>8, <2>1
  <2>2. CASE b = n + 1 /\ c \in 1..n
    BY <1>2, <1>6, <2>2
  <2>3. CASE c = n + 1 /\ b \in 1..n
    BY <1>2, <1>6, <2>3
  <2> QED BY <1>3, <1>8, <2>1, <2>2, <2>3
<1>9. ASSUME NEW x \in B \cup ToSet(bin) PROVE \E b \in 1..(n + 1) : x \in ToSet(more[b])
  BY <1>2, <1>4, <1>5, <1>6
<1>10. Divides(more, B \cup ToSet(bin), A)
  BY <1>2, <1>7, <1>8, <1>9 DEF Divides
<1> QED BY <1>10 DEF more

\* Another bin in the place of one.
LEMMA DividesOther ==
    ASSUME NEW A, NEW B, NEW bins, Divides(bins, B, A), NEW bin, GoodBin(bin, A),
           NEW b \in 1..Len(bins), ToSet(bin) \cap B \subseteq ToSet(bins[b])
    PROVE  Divides([bins EXCEPT ![b] = bin], (B \ ToSet(bins[b])) \cup ToSet(bin), A)
<1> DEFINE n == Len(bins)
           other == [bins EXCEPT ![b] = bin]
           C == (B \ ToSet(bins[b])) \cup ToSet(bin)
<1>1. bins \in Seq(Seq(A)) /\ n \in Nat /\ bin \in Seq(A) /\ b \in 1..n
  BY DEF Divides, GoodBin
<1>2. /\ other \in Seq(Seq(A)) /\ Len(other) = n /\ other[b] = bin
      /\ \A c \in 1..n \ {b} : other[c] = bins[c]
  BY <1>1
<1> HIDE DEF n, other
<1>6. /\ \A c \in 1..n : GoodBin(bins[c], A)
      /\ \A c, d \in 1..n : c # d => ToSet(bins[c]) \cap ToSet(bins[d]) = {}
      /\ \A c \in 1..n : ToSet(bins[c]) \subseteq B
      /\ \A x \in B : \E c \in 1..n : x \in ToSet(bins[c])
  BY DEF Divides, n
<1>7. \A c \in 1..n : GoodBin(other[c], A)
  BY <1>2, <1>6
<1>8. ASSUME NEW c \in 1..n PROVE ToSet(other[c]) \subseteq C
  <2>1. CASE c = b
    BY <1>2, <2>1
  <2>2. CASE c # b
    BY <1>1, <1>2, <1>6, <2>2
  <2> QED BY <2>1, <2>2
<1>9. ASSUME NEW c \in 1..n, NEW d \in 1..n, c # d PROVE ToSet(other[c]) \cap ToSet(other[d]) = {}
  <2>1. \A e \in 1..n \ {b} : ToSet(bin) \cap ToSet(bins[e]) = {}
    BY <1>1, <1>6
  <2>2. CASE c = b
    BY <1>2, <1>9, <2>1, <2>2
  <2>3. CASE d = b
    BY <1>2, <1>9, <2>1, <2>3
  <2>4. CASE c # b /\ d # b
    BY <1>2, <1>6, <1>9, <2>4
  <2> QED BY <2>2, <2>3, <2>4
<1>10. ASSUME NEW x \in C PROVE \E c \in 1..n : x \in ToSet(other[c])
  <2>1. CASE x \in ToSet(bin)
    BY <1>1, <1>2, <2>1
  <2>2. CASE x \notin ToSet(bin)
    <3>1. PICK c \in 1..n : x \in ToSet(bins[c])
      BY <1>6, <2>2
    <3>2. c # b
      BY <2>2, <3>1
    <3> QED BY <1>2, <3>1, <3>2
  <2> QED BY <2>1, <2>2
<1> HIDE DEF C
<1>11. Divides(other, C, A)
  BY <1>2, <1>7, <1>8, <1>9, <1>10 DEF Divides
<1> QED BY <1>11 DEF other, C

\* A sample goes to the first bin that can take it, or to one of its own.
LEMMA FirstFitDivides ==
    ASSUME NEW A, Pieces(A), NEW B, NEW bins, Divides(bins, B, A), NEW x \in A, x \notin B
    PROVE  Divides(FirstFit(bins, x), B \cup {x}, A)
<1> DEFINE fits == {b \in 1..Len(bins) : CanAdd(bins[b], x)}
<1>0. bins \in Seq(Seq(A)) /\ Len(bins) \in Nat
  BY DEF Divides
<1>1. CASE fits = {}
  <2>1. FirstFit(bins, x) = Append(bins, <<x>>)
    BY <1>1, Zenon DEF FirstFit
  <2>2. ToSet(<<x>>) = {x} /\ <<x>> \in Seq(A) /\ <<x>> # <<>> /\ IsInjective(<<x>>) /\ Len(<<x>>) = 1
    BY DEF ToSet, IsInjective
  <2>3. Length(<<x>>) = Size(x)
    <3>1. <<>> \in Seq(A)
      OBVIOUS
    <3>2. SumAppends(SizeOf(A), Append(<<>>, x), <<>>, x)
      BY <3>1, LengthIs, SumImageAppend
    <3>3. Sum(SizeOf(A), <<x>>) = Size(x)
      BY <3>2 DEF SumAppends, SizeOf
    <3> QED BY <2>2, <3>3, LengthIs
  <2>4. GoodBin(<<x>>, A)
    BY <2>2, <2>3 DEF GoodBin, Pieces
  <2>5. Divides(Append(bins, <<x>>), B \cup ToSet(<<x>>), A)
    BY <2>2, <2>4, DividesMore
  <2> QED BY <2>1, <2>2, <2>5
<1>2. CASE fits # {}
  <2> DEFINE b == Min(fits)
             bin == Append(bins[b], x)
  <2>1. FirstFit(bins, x) = [bins EXCEPT ![b] = bin]
    BY <1>2, Zenon DEF FirstFit
  <2>2. b \in 1..Len(bins) /\ CanAdd(bins[b], x)
    <3>1. fits \in SUBSET Nat
      OBVIOUS
    <3>2. Min(fits) \in fits
      <4> HIDE DEF fits
      <4> QED BY <1>2, <3>1, MinOf
    <3> QED BY <3>2
  <2> HIDE DEF b
  <2>3. GoodBin(bins[b], A) /\ ToSet(bins[b]) \subseteq B
    BY <2>2 DEF Divides
  <2>4. bins[b] \in Seq(A) /\ bins[b] # <<>> /\ IsInjective(bins[b]) /\ bins[b][1] \in ToSet(bins[b])
    BY <2>3 DEF GoodBin, ToSet
  <2>5. IsConcat(bin, bins[b], <<x>>, A) /\ <<x>> \in Seq(A)
    BY <2>4, AppendIs
  <2>6. ToSet(<<x>>) = {x} /\ IsInjective(<<x>>)
    BY DEF ToSet, IsInjective
  <2>7. ConcatHas(bin, bins[b], <<x>>)
    BY <2>5, ConcatSet, Zenon
  <2>8. SumAppends(SizeOf(A), bin, bins[b], x)
    BY <2>4, LengthIs, SumImageAppend
  <2>9. bin \in Seq(A) /\ bin # <<>>
    BY <2>4
  <2> HIDE DEF bin
  <2>10. ToSet(bin) = ToSet(bins[b]) \cup {x} /\ IsInjective(bin)
    BY <2>3, <2>4, <2>6, <2>7 DEF ConcatHas
  <2>11. Length(bin) <= SeqLen
    <3>1. Length(bin) = Sum(SizeOf(A), bin) /\ Length(bins[b]) = Sum(SizeOf(A), bins[b])
      BY <2>4, <2>9, LengthIs
    <3>2. Length(bin) = Length(bins[b]) + Size(x)
      BY <2>8, <3>1 DEF SumAppends, SizeOf
    <3> QED BY <2>2, <3>2 DEF CanAdd
  <2>12. \A y \in ToSet(bin) : ~ Multimodal(y) /\ y.routed = x.routed
    <3>1. \A y \in ToSet(bins[b]) : y.routed = x.routed
      BY <2>2, <2>3, <2>4 DEF GoodBin, CanAdd
    <3>2. ASSUME NEW y \in ToSet(bins[b]) PROVE ~ Multimodal(y)
      <4>1. SUFFICES ASSUME Multimodal(y) PROVE FALSE
        OBVIOUS
      <4>2. Len(bins[b]) = 1
        BY <2>3, <4>1 DEF GoodBin
      <4>3. y = bins[b][1]
        BY <2>4, <4>2 DEF ToSet
      <4> QED BY <2>2, <4>1, <4>3 DEF CanAdd
    <3>3. ~ Multimodal(x)
      BY <2>2 DEF CanAdd
    <3> QED BY <2>10, <3>1, <3>2, <3>3
  <2>13. GoodBin(bin, A)
    BY <2>9, <2>10, <2>11, <2>12 DEF GoodBin
  <2>14. Divides([bins EXCEPT ![b] = bin], (B \ ToSet(bins[b])) \cup ToSet(bin), A)
    BY <2>2, <2>10, <2>13, DividesOther
  <2>15. (B \ ToSet(bins[b])) \cup ToSet(bin) = B \cup {x}
    BY <2>3, <2>10
  <2> QED BY <2>1, <2>14, <2>15 DEF bin
<1> QED BY <1>1, <1>2

-----------------------------------------------------------------------------
(* Splitting the heaviest bin                                              *)

\* Costs are naturals, and nothing costs nothing.
LEMMA CostNat ==
    ASSUME NEW s \in Seq(Nat)
    PROVE  /\ BinCost(s) \in Nat /\ (SumSeq(s) # 0 => BinCost(s) # 0)
           /\ BinCost(<<>>) = 0
<1> DEFINE squares == [i \in 1..Len(s) |-> s[i] * s[i]]
<1>1. Linear \in Nat \ {0} /\ Quadratic \in Nat
  BY PackingAssumption
<1>2. squares \in Seq(Nat)
  <2>1. \A i \in 1..Len(s) : s[i] \in Nat
    OBVIOUS
  <2>2. \A i \in 1..Len(s) : s[i] * s[i] \in Nat
    BY <2>1, TimesNat
  <2> QED BY <2>2
<1>3. SumSeq(squares) \in Nat /\ SumSeq(s) \in Nat
  <2> HIDE DEF squares
  <2> QED BY <1>2, SumSeqType
<1>4. BinCost(s) = Linear * SumSeq(s) + Quadratic * SumSeq(squares)
  BY DEF BinCost
<1> HIDE DEF squares
<1>5. Linear * SumSeq(s) \in Nat /\ Quadratic * SumSeq(squares) \in Nat
      /\ (SumSeq(s) # 0 => Linear * SumSeq(s) # 0)
  BY <1>1, <1>3, TimesNat
<1>6. BinCost(s) \in Nat /\ (SumSeq(s) # 0 => BinCost(s) # 0)
  BY <1>4, <1>5
<1>7. BinCost(<<>>) = 0
  <2>1. [i \in 1..Len(<<>>) |-> <<>>[i] * <<>>[i]] = <<>>
    OBVIOUS
  <2>2. BinCost(<<>>) = Linear * 0 + Quadratic * 0
    BY <2>1, SumSeqEmpty DEF BinCost
  <2> QED BY <1>1, <2>2, TimesNat
<1> QED BY <1>6, <1>7

\* Nothing is empty after appending to it.
LEMMA AppendNotEmpty ==
    ASSUME NEW S, NEW s \in Seq(S), NEW x \in S
    PROVE  Append(s, x) # <<>>
<1>1. Len(Append(s, x)) = Len(s) + 1 /\ Len(s) \in Nat
  OBVIOUS
<1>2. Len(<<>>) = 0
  OBVIOUS
<1> QED BY <1>1, <1>2

\* The cost of samples.
LEMMA SamplesCost ==
    ASSUME NEW A, Pieces(A), NEW s \in Seq(A)
    PROVE  /\ BinCost(Sizes(s)) \in Nat
           /\ s = <<>> => BinCost(Sizes(s)) = 0
           /\ \A x \in A : s = <<x>> => BinCost(Sizes(s)) # 0
<1>0. SeqLen \in Nat
  BY PackingAssumption
<1>1. Sizes(s) \in Seq(Nat)
  <2>1. \A i \in 1..Len(s) : s[i] \in A /\ Size(s[i]) \in Nat
    BY <1>0 DEF Pieces
  <2> QED BY <2>1 DEF Sizes
<1>2. s = <<>> => BinCost(Sizes(s)) = 0
  <2>1. s = <<>> => Sizes(s) = <<>>
    BY DEF Sizes
  <2> QED BY <1>1, <2>1, CostNat
<1>3. ASSUME NEW x \in A, s = <<x>> PROVE BinCost(Sizes(s)) # 0
  <2>1. <<>> \in Seq(A) /\ Append(<<>>, x) = <<x>>
    OBVIOUS
  <2>2. SumAppends(SizeOf(A), Append(<<>>, x), <<>>, x)
    BY <2>1, LengthIs, SumImageAppend
  <2>3. Length(s) = Size(x)
    BY <1>3, <2>2, LengthIs DEF SumAppends, SizeOf
  <2>4. SumSeq(Sizes(s)) # 0
    BY <1>0, <2>3 DEF Length, Pieces
  <2> QED BY <1>1, <2>4, CostNat
<1> QED BY <1>1, <1>2, <1>3, CostNat

\* Some samples of a bin are a bin.
LEMMA PartIsGood ==
    ASSUME NEW A, Pieces(A), NEW bin, GoodBin(bin, A), Len(bin) > 1,
           NEW s \in Seq(A), s # <<>>, IsInjective(s), ToSet(s) \subseteq ToSet(bin)
    PROVE  GoodBin(s, A)
<1>1. bin \in Seq(A) /\ SeqLen \in Nat
  BY PackingAssumption DEF GoodBin
<1>2. /\ SizeOf(A) \in Weights(A)
      /\ Length(s) = Sum(SizeOf(A), s) /\ Length(s) \in Nat
      /\ Length(bin) = Sum(SizeOf(A), bin) /\ Length(bin) \in Nat
  BY <1>1, LengthIs
<1>3. Sum(SizeOf(A), s) <= Sum(SizeOf(A), bin)
  BY <1>1, <1>2, SumSub
<1>4. Length(s) <= SeqLen
  BY <1>1, <1>2, <1>3 DEF GoodBin
<1>5. ASSUME NEW x \in ToSet(bin), Multimodal(x) PROVE FALSE
  <2>1. Len(bin) = 1
    BY <1>5 DEF GoodBin
  <2> QED BY <2>1
<1> QED BY <1>4, <1>5 DEF GoodBin

-----------------------------------------------------------------------------

\* The sides after i of the ranked samples.
Sides(A) == [left : Seq(A), right : Seq(A)]

\* Disjoint sides, which hold those samples, each once.
HalvesAt(v, ranked, i) ==
    /\ IsInjective(v.left) /\ IsInjective(v.right) /\ ToSet(v.left) \cap ToSet(v.right) = {}
    /\ ToSet(v.left) \cup ToSet(v.right) = {ranked[j] : j \in 1..i}
    /\ i = 0 => v.left = <<>> /\ v.right = <<>>
    /\ i = 1 => v.left = <<ranked[1]>> /\ v.right = <<>>
    /\ i > 1 => v.left # <<>> /\ v.right # <<>>

\* One more sample on the lighter side.
LEMMA LighterType ==
    ASSUME NEW A, NEW v \in Sides(A), NEW x \in A
    PROVE  Lighter(v, x) \in Sides(A)
BY DEF Lighter, Sides

\* The sides share out the samples of one more.
LEMMA LighterHalves ==
    ASSUME NEW A, Pieces(A), NEW v \in Sides(A), NEW ranked \in Seq(A), IsInjective(ranked),
           NEW i \in 1..Len(ranked), HalvesAt(v, ranked, i - 1)
    PROVE  HalvesAt(Lighter(v, ranked[i]), ranked, i)
<1> DEFINE x == ranked[i]
           l == v.left
           r == v.right
           cl == BinCost(Sizes(l))
           cr == BinCost(Sizes(r))
<1>1. l \in Seq(A) /\ r \in Seq(A) /\ x \in A /\ DOMAIN ranked = 1..Len(ranked) /\ Len(ranked) \in Nat
  BY DEF Sides
<1>2. \A j \in 1..(i - 1) : j \in 1..Len(ranked) /\ ranked[j] # x
  BY <1>1 DEF IsInjective
<1>3. x \notin ToSet(l) /\ x \notin ToSet(r)
  BY <1>2 DEF HalvesAt
<1>4. {ranked[j] : j \in 1..i} = {ranked[j] : j \in 1..(i - 1)} \cup {x}
  <2>1. \A j \in 1..i : j \in 1..(i - 1) \/ j = i
    OBVIOUS
  <2>2. \A j \in 1..(i - 1) : j \in 1..i
    OBVIOUS
  <2>3. i \in 1..i
    OBVIOUS
  <2> QED BY <2>1, <2>2, <2>3
<1>5. cl \in Nat /\ cr \in Nat
  BY <1>1, SamplesCost
<1>6. i - 1 = 0 => cl <= cr
  <2>1. i - 1 = 0 => l = <<>> /\ r = <<>>
    BY DEF HalvesAt
  <2> QED BY <1>1, <1>5, <2>1
<1>7. i - 1 = 1 => ~ (cl <= cr)
  <2>1. i - 1 = 1 => l = <<ranked[1]>> /\ r = <<>> /\ ranked[1] \in A
    BY <1>1 DEF HalvesAt
  <2>2. i - 1 = 1 => cl # 0 /\ cr = 0
    <3>1. r = <<>> => cr = 0
      BY <1>1, SamplesCost
    <3>2. \A y \in A : l = <<y>> => cl # 0
      BY <1>1, SamplesCost
    <3> HIDE DEF l, r, cl, cr
    <3> QED BY <2>1, <3>1, <3>2
  <2> QED BY <1>5, <2>2
<1> DEFINE a == Append(l, x)
           b == Append(r, x)
<1>8. Lighter(v, x) = IF cl <= cr THEN [left |-> a, right |-> r] ELSE [left |-> l, right |-> b]
  BY DEF Lighter
<1>9. IsConcat(a, l, <<x>>, A) /\ IsConcat(b, r, <<x>>, A)
  BY <1>1, AppendIs
<1>10. ToSet(<<x>>) = {x} /\ IsInjective(<<x>>)
  BY DEF ToSet, IsInjective
<1>11. ConcatHas(a, l, <<x>>)
  BY <1>9, ConcatSet, Zenon
<1>12. ConcatHas(b, r, <<x>>)
  BY <1>9, ConcatSet, Zenon
<1>13. a # <<>> /\ b # <<>> /\ (l = <<>> => a = <<x>>)
  <2>1. \A s \in Seq(A) : Append(s, x) # <<>>
    BY <1>1, AppendNotEmpty, Zenon
  <2>2. Append(<<>>, x) = <<x>>
    OBVIOUS
  <2> QED BY <1>1, <2>1, <2>2, Zenon
<1>14. i \in Nat /\ (i = 0 \/ i = 1 \/ i - 1 = 1 \/ i - 1 > 1)
  BY <1>1
<1> HIDE DEF a, b, cl, cr
<1>15. ToSet(a) = ToSet(l) \cup {x} /\ IsInjective(a) /\ ToSet(b) = ToSet(r) \cup {x} /\ IsInjective(b)
  BY <1>3, <1>10, <1>11, <1>12 DEF ConcatHas, HalvesAt
<1>16. CASE cl <= cr
  <2> DEFINE w == [left |-> a, right |-> r]
  <2>1. w.left = a /\ w.right = r
    OBVIOUS
  <2>2. ToSet(a) \cap ToSet(r) = {} /\ ToSet(a) \cup ToSet(r) = {ranked[j] : j \in 1..i}
    BY <1>3, <1>4, <1>15 DEF HalvesAt
  <2>3. i # 0 /\ (i = 1 => a = <<ranked[1]>> /\ r = <<>>)
    BY <1>13 DEF HalvesAt
  <2>4. i > 1 => a # <<>> /\ r # <<>>
    BY <1>7, <1>13, <1>14, <1>16 DEF HalvesAt
  <2>5. IsInjective(r)
    BY DEF HalvesAt
  <2> HIDE DEF w, r, l
  <2>6. HalvesAt(w, ranked, i)
    BY <1>15, <2>1, <2>2, <2>3, <2>4, <2>5 DEF HalvesAt
  <2> QED BY <1>8, <1>16, <2>6 DEF w, r
<1>17. CASE ~ (cl <= cr)
  <2> DEFINE w == [left |-> l, right |-> b]
  <2>1. w.left = l /\ w.right = b
    OBVIOUS
  <2>2. ToSet(l) \cap ToSet(b) = {} /\ ToSet(l) \cup ToSet(b) = {ranked[j] : j \in 1..i}
    BY <1>3, <1>4, <1>15 DEF HalvesAt
  <2>3. i # 0 /\ i # 1
    BY <1>6, <1>17
  <2>4. i > 1 => l # <<>> /\ b # <<>>
    <3>1. i - 1 = 1 => l # <<>>
      <4>1. i - 1 = 1 => l = <<ranked[1]>>
        BY DEF HalvesAt
      <4>2. <<ranked[1]>> # <<>>
        OBVIOUS
      <4> QED BY <4>1, <4>2, Zenon
    <3>2. i - 1 > 1 => l # <<>>
      BY DEF HalvesAt
    <3> QED BY <1>13, <1>14, <3>1, <3>2
  <2>5. IsInjective(l)
    BY DEF HalvesAt
  <2> HIDE DEF w, r, l
  <2>6. HalvesAt(w, ranked, i)
    BY <1>15, <2>1, <2>2, <2>3, <2>4, <2>5 DEF HalvesAt
  <2> QED BY <1>8, <1>17, <2>6 DEF w, l
<1> QED BY <1>16, <1>17

\* A bin of several samples is split into two that have some each.
LEMMA SplitParts ==
    ASSUME NEW A, Pieces(A), NEW bin, GoodBin(bin, A), Len(bin) > 1
    PROVE  /\ GoodBin(SplitByWorkload(bin).left, A) /\ GoodBin(SplitByWorkload(bin).right, A)
           /\ ToSet(SplitByWorkload(bin).left) \cup ToSet(SplitByWorkload(bin).right) = ToSet(bin)
           /\ ToSet(SplitByWorkload(bin).left) \cap ToSet(SplitByWorkload(bin).right) = {}
<1> DEFINE n == Len(bin)
           keys == [i \in 1..n |-> BinCost(<<Size(bin[i])>>)]
           ranked == Descending(bin, keys)
           Round(v, i) == Lighter(v, ranked[i])
           base == [left |-> <<>>, right |-> <<>>]
           Solves(g) == g = [i \in 0..n |-> IF i = 0 THEN base ELSE Round(g[i - 1], i)]
           u == CHOOSE g : Solves(g)
           step == [i \in 1..n |-> [v \in Sides(A) |-> Round(v, i)]]
<1>1. bin \in Seq(A) /\ IsInjective(bin) /\ n \in Nat /\ SeqLen \in Nat
  BY PackingAssumption DEF GoodBin
<1>2. SplitByWorkload(bin) = u[n]
  BY Zenon DEF SplitByWorkload
<1>3. /\ ranked \in Seq(A) /\ Len(ranked) = n /\ ToSet(ranked) = ToSet(bin) /\ IsInjective(ranked)
      /\ \A i \in 1..n : ranked[i] \in A
  <2>1. ASSUME NEW i \in 1..n PROVE keys[i] \in Int
    <3>1. bin[i] \in A
      BY <1>1
    <3>2. Size(bin[i]) \in Nat
      BY <1>1, <3>1 DEF Pieces
    <3>3. <<Size(bin[i])>> \in Seq(Nat)
      BY <3>2
    <3>4. BinCost(<<Size(bin[i])>>) \in Nat
      BY <3>3, CostNat
    <3> QED BY <3>4
  <2>2. Rearranged(ranked, bin, A)
    <3> HIDE DEF keys
    <3> QED BY <1>1, <2>1, DescendingIs
  <2> HIDE DEF ranked
  <2> QED BY <1>1, <2>2 DEF Rearranged
<1> HIDE DEF ranked
<1>4. base \in Sides(A)
  BY DEF Sides
<1>5. step \in StepMaps(n, Sides(A))
  <2>1. ASSUME NEW i \in 1..n, NEW v \in Sides(A) PROVE Round(v, i) \in Sides(A)
    BY <1>3, LighterType
  <2> HIDE DEF Round, n
  <2> QED BY <2>1 DEF StepMaps
<1>6. PICK f : f \in Recursions(n, Sides(A), base, step)
  <2> HIDE DEF step, n, base
  <2> QED BY <1>1, <1>4, <1>5, RecursionUpTo
<1>7. f \in [0..n -> Sides(A)] /\ f[0] = base /\ \A i \in 1..n : f[i] = Round(f[i - 1], i)
  <2> HIDE DEF n, base, Round
  <2>1. f \in [0..n -> Sides(A)] /\ f[0] = base /\ \A i \in 1..n : f[i] = step[i][f[i - 1]]
    <3> HIDE DEF step
    <3> QED BY <1>6 DEF Recursions
  <2>2. \A i \in 1..n : i - 1 \in 0..n
    BY <1>1
  <2>3. \A i \in 1..n : f[i - 1] \in Sides(A)
    BY <2>1, <2>2
  <2> QED BY <2>1, <2>3
<1>8. Solves(f)
  <2> HIDE DEF n, base, Round
  <2>1. \A i \in 0..n : i = 0 \/ i \in 1..n
    BY <1>1
  <2>2. f = [i \in 0..n |-> f[i]]
    BY <1>7
  <2>3. \A i \in 0..n : f[i] = IF i = 0 THEN base ELSE Round(f[i - 1], i)
    BY <1>1, <1>7, <2>1
  <2> QED BY <2>2, <2>3
<1>9. Solves(u)
  <2> HIDE DEF Solves
  <2> QED BY <1>8
<1>10. u = [i \in 0..n |-> u[i]] /\ u[0] = base /\ \A i \in 1..n : u[i] = Round(u[i - 1], i)
  <2> HIDE DEF n, base, Round, u
  <2>1. \A i \in 1..n : i \in 0..n /\ i # 0
    BY <1>1
  <2>2. 0 \in 0..n
    BY <1>1
  <2> QED BY <1>9, <2>1, <2>2
<1>11. u \in Recursions(n, Sides(A), base, step)
  <2>1. \A i \in 1..n : u[i - 1] \in Sides(A) => u[i] = step[i][u[i - 1]]
    <3> HIDE DEF n, base, Round, u
    <3> QED BY <1>10
  <2> HIDE DEF n, base, Round, u, step
  <2> QED BY <1>1, <1>4, <1>5, <1>10, <2>1, SameRecursion
<1>12. u \in [0..n -> Sides(A)]
  <2> HIDE DEF n, base, Round, u, step
  <2> QED BY <1>11 DEF Recursions
<1> HIDE DEF u
<1> DEFINE T == {i \in 0..n : HalvesAt(u[i], ranked, i)}
<1>13. 0 \in T
  <2>1. HalvesAt(base, ranked, 0)
    <3>1. base.left = <<>> /\ base.right = <<>> /\ ToSet(<<>>) = {} /\ IsInjective(<<>>)
      BY DEF ToSet, IsInjective
    <3>2. {ranked[j] : j \in 1..0} = {}
      OBVIOUS
    <3> HIDE DEF base
    <3> QED BY <3>1, <3>2 DEF HalvesAt
  <2> HIDE DEF base
  <2> QED BY <1>1, <1>10, <2>1
<1>14. ASSUME NEW i \in 0..(n - 1), i \in T PROVE i + 1 \in T
  <2>1. i + 1 \in 1..n /\ i + 1 \in 0..n /\ (i + 1) - 1 = i /\ i \in 0..n
    BY <1>1
  <2>2. HalvesAt(u[i], ranked, i) /\ u[i] \in Sides(A)
    BY <1>12, <1>14, <2>1
  <2>3. HalvesAt(Lighter(u[i], ranked[i + 1]), ranked, i + 1)
    BY <1>3, <2>1, <2>2, LighterHalves
  <2>4. u[i + 1] = Lighter(u[i], ranked[i + 1])
    BY <1>10, <2>1
  <2> QED BY <2>1, <2>3, <2>4
<1>15. \A i \in 0..n : i \in T
  <2> HIDE DEF T, n
  <2> QED BY <1>1, <1>13, <1>14, UpToInduction
<1>16. HalvesAt(u[n], ranked, n) /\ u[n] \in Sides(A)
  <2>1. n \in 0..n
    BY <1>1
  <2> HIDE DEF n
  <2> QED BY <1>12, <1>15, <2>1
<1>17. ToSet(bin) = {ranked[j] : j \in 1..n}
  <2>1. ToSet(ranked) = {ranked[j] : j \in 1..Len(ranked)}
    BY <1>3, ToSetSeq
  <2> QED BY <1>3, <2>1
<1> DEFINE v == u[n]
<1>18. /\ v.left \in Seq(A) /\ v.right \in Seq(A) /\ v.left # <<>> /\ v.right # <<>>
       /\ IsInjective(v.left) /\ IsInjective(v.right) /\ ToSet(v.left) \cap ToSet(v.right) = {}
       /\ ToSet(v.left) \cup ToSet(v.right) = ToSet(bin)
  BY <1>16, <1>17 DEF HalvesAt, Sides
<1> HIDE DEF v
<1>19. GoodBin(v.left, A) /\ GoodBin(v.right, A)
  BY <1>18, PartIsGood
<1> QED BY <1>2, <1>18, <1>19 DEF v

\* Splitting the heaviest bin of several samples keeps what the bins hold.
LEMMA SplitDivides ==
    ASSUME NEW A, Pieces(A), NEW B, NEW bins, Divides(bins, B, A)
    PROVE  Divides(SplitHeaviest(bins), B, A)
<1> DEFINE load(b) == BinCost(Sizes(bins[b]))
           several == {b \in 1..Len(bins) : Len(bins[b]) > 1}
           Heaviest(b) == \A c \in several : load(c) < load(b) \/ (load(c) = load(b) /\ c <= b)
           h == CHOOSE b \in several : Heaviest(b)
           halves == SplitByWorkload(bins[h])
<1>1. bins \in Seq(Seq(A)) /\ Len(bins) \in Nat
  BY DEF Divides
<1>2. CASE several = {}
  <2>1. SplitHeaviest(bins) = bins
    BY <1>2, Zenon DEF SplitHeaviest
  <2> QED BY <2>1
<1>3. CASE several # {}
  <2>1. SplitHeaviest(bins) = Append([bins EXCEPT ![h] = halves.left], halves.right)
    BY <1>3, Zenon DEF SplitHeaviest
  <2>2. \A b \in several : load(b) \in Nat /\ b \in Nat
    <3>1. \A b \in several : bins[b] \in Seq(A) /\ b \in Nat
      BY <1>1
    <3> QED BY <3>1, SamplesCost
  <2>3. \E b \in several : Heaviest(b)
    <3> DEFINE before == {w \in several \X several :
                             load(w[1]) > load(w[2]) \/ (load(w[1]) = load(w[2]) /\ w[1] > w[2])}
    <3>1. StrictOrder(several, before)
      <4> HIDE DEF several, load
      <4> QED BY <2>2 DEF StrictOrder
    <3>2. IsFiniteSet(several)
      <4>1. IsFiniteSet(1..Len(bins)) /\ several \in SUBSET (1..Len(bins))
        BY <1>1, UpTo1
      <4> HIDE DEF several
      <4> QED BY <4>1, FS_Subset
    <3>3. PICK x \in several : \A y \in several \ {x} : <<x, y>> \in before
      <4> HIDE DEF before, several
      <4> QED BY <1>3, <3>1, <3>2, FirstInOrder DEF HasFirst
    <3>4. ASSUME NEW y \in several \ {x}
          PROVE  load(y) < load(x) \/ (load(y) = load(x) /\ y <= x)
      <4>1. <<x, y>> \in before
        BY <3>3
      <4>2. load(x) > load(y) \/ (load(x) = load(y) /\ x > y)
        <5> HIDE DEF several, load
        <5> QED BY <4>1
      <4>3. load(x) \in Nat /\ load(y) \in Nat /\ x \in Nat /\ y \in Nat
        BY <2>2, <3>3
      <4> HIDE DEF several, load
      <4> QED BY <4>2, <4>3
    <3>5. load(x) = load(x) /\ x <= x
      BY <2>2
    <3>6. Heaviest(x)
      BY <3>4, <3>5
    <3> HIDE DEF Heaviest, several
    <3> QED BY <3>6
  <2>4. h \in several
    <3> HIDE DEF several, Heaviest
    <3> QED BY <2>3
  <2>5. h \in 1..Len(bins) /\ Len(bins[h]) > 1
    BY <2>4
  <2> HIDE DEF h
  <2> DEFINE l == halves.left
             r == halves.right
             bs == [bins EXCEPT ![h] = l]
  <2>6. GoodBin(bins[h], A) /\ ToSet(bins[h]) \subseteq B
    BY <2>5 DEF Divides
  <2>7. /\ GoodBin(l, A) /\ GoodBin(r, A)
        /\ ToSet(l) \cup ToSet(r) = ToSet(bins[h]) /\ ToSet(l) \cap ToSet(r) = {}
    BY <2>5, <2>6, SplitParts
  <2> HIDE DEF l, r
  <2>8. Divides(bs, (B \ ToSet(bins[h])) \cup ToSet(l), A)
    <3>1. ToSet(l) \cap B \subseteq ToSet(bins[h])
      BY <2>7
    <3> QED BY <2>5, <2>7, <3>1, DividesOther
  <2> HIDE DEF bs
  <2>9. Divides(Append(bs, r), ((B \ ToSet(bins[h])) \cup ToSet(l)) \cup ToSet(r), A)
    <3>1. ToSet(r) \cap ((B \ ToSet(bins[h])) \cup ToSet(l)) = {}
      BY <2>7
    <3> QED BY <2>7, <2>8, <3>1, DividesMore
  <2>10. ((B \ ToSet(bins[h])) \cup ToSet(l)) \cup ToSet(r) = B
    BY <2>6, <2>7
  <2> QED BY <2>1, <2>9, <2>10 DEF bs, l, r
<1> QED BY <1>2, <1>3

\* However often.
LEMMA ExpandDivides ==
    ASSUME NEW A, Pieces(A), NEW B, NEW bins, Divides(bins, B, A), NEW n \in Nat
    PROVE  Divides(Expand(bins, n), B, A)
<1> DEFINE X == {bs \in Seq(Seq(A)) : Divides(bs, B, A)}
           Round(v) == IF Len(v) < n THEN SplitHeaviest(v) ELSE v
           Solves(g) == g = [i \in 0..n |-> IF i = 0 THEN bins ELSE Round(g[i - 1])]
           u == CHOOSE g : Solves(g)
           step == [i \in 1..n |-> [v \in X |-> Round(v)]]
<1>1. Expand(bins, n) = u[n]
  BY Zenon DEF Expand
<1>2. bins \in X
  BY DEF Divides
<1>3. \A v \in X : Round(v) \in X
  <2> TAKE v \in X
  <2>1. Divides(v, B, A)
    OBVIOUS
  <2>2. Divides(SplitHeaviest(v), B, A)
    BY <2>1, SplitDivides
  <2>3. Divides(Round(v), B, A)
    BY <2>1, <2>2
  <2> HIDE DEF Round
  <2> QED BY <2>3 DEF Divides
<1> HIDE DEF X, Round
<1>4. step \in StepMaps(n, X)
  BY <1>3 DEF StepMaps
<1>5. PICK f : f \in Recursions(n, X, bins, step)
  <2> HIDE DEF step
  <2> QED BY <1>2, <1>4, RecursionUpTo
<1>6. f \in [0..n -> X] /\ f[0] = bins /\ \A i \in 1..n : f[i] = Round(f[i - 1])
  <2>1. f \in [0..n -> X] /\ f[0] = bins /\ \A i \in 1..n : f[i] = step[i][f[i - 1]]
    <3> HIDE DEF step
    <3> QED BY <1>5 DEF Recursions
  <2>2. \A i \in 1..n : i - 1 \in 0..n
    OBVIOUS
  <2>3. \A i \in 1..n : f[i - 1] \in X
    BY <2>1, <2>2
  <2> QED BY <2>1, <2>3
<1>7. Solves(f)
  <2>1. \A i \in 0..n : i = 0 \/ i \in 1..n
    OBVIOUS
  <2>2. f = [i \in 0..n |-> f[i]]
    BY <1>6
  <2>3. \A i \in 0..n : f[i] = IF i = 0 THEN bins ELSE Round(f[i - 1])
    BY <1>6, <2>1
  <2> QED BY <2>2, <2>3
<1>8. Solves(u)
  <2> HIDE DEF Solves
  <2> QED BY <1>7
<1>9. u = [i \in 0..n |-> u[i]] /\ u[0] = bins /\ \A i \in 1..n : u[i] = Round(u[i - 1])
  <2> HIDE DEF u
  <2>1. \A i \in 1..n : i \in 0..n /\ i # 0
    OBVIOUS
  <2>2. 0 \in 0..n
    OBVIOUS
  <2> QED BY <1>8, <2>1, <2>2
<1>10. u \in Recursions(n, X, bins, step)
  <2>1. \A i \in 1..n : u[i - 1] \in X => u[i] = step[i][u[i - 1]]
    <3> HIDE DEF u
    <3> QED BY <1>9
  <2> HIDE DEF u, step
  <2> QED BY <1>2, <1>4, <1>9, <2>1, SameRecursion
<1>11. u[n] \in X
  <2>1. n \in 0..n
    OBVIOUS
  <2> HIDE DEF u, step
  <2> QED BY <1>10, <2>1 DEF Recursions
<1> HIDE DEF u
<1> QED BY <1>1, <1>11 DEF X

\* FirstFit keeps the types of bins.
LEMMA FirstFitType ==
    ASSUME NEW A, NEW bins \in Seq(Seq(A)), NEW x \in A
    PROVE  FirstFit(bins, x) \in Seq(Seq(A))
<1> DEFINE fits == {b \in 1..Len(bins) : CanAdd(bins[b], x)}
           b == Min(fits)
<1>1. CASE fits = {}
  <2>1. FirstFit(bins, x) = Append(bins, <<x>>)
    BY <1>1, Zenon DEF FirstFit
  <2>2. <<x>> \in Seq(A)
    OBVIOUS
  <2> QED BY <2>1, <2>2
<1>2. CASE fits # {}
  <2>1. FirstFit(bins, x) = [bins EXCEPT ![b] = Append(bins[b], x)]
    BY <1>2, Zenon DEF FirstFit
  <2>2. fits \in SUBSET Nat
    OBVIOUS
  <2>3. b \in fits
    <3> HIDE DEF fits
    <3> QED BY <1>2, <2>2, MinOf
  <2>4. b \in 1..Len(bins)
    BY <2>3
  <2> HIDE DEF b
  <2>5. Append(bins[b], x) \in Seq(A)
    BY <2>4
  <2> QED BY <2>1, <2>4, <2>5
<1> QED BY <1>1, <1>2

\* The bins hold the samples.
LEMMA BinsDivide ==
    ASSUME NEW A, Pieces(A), NEW samples \in Seq(A), IsInjective(samples)
    PROVE  Divides(Bins(samples), ToSet(samples), A)
<1> DEFINE n == Len(samples)
           X == Seq(Seq(A))
           ranked == Descending(samples, Sizes(samples))
           Round(v, i) == FirstFit(v, ranked[i])
           Solves(g) == g = [i \in 0..n |-> IF i = 0 THEN <<>> ELSE Round(g[i - 1], i)]
           u == CHOOSE g : Solves(g)
           step == [i \in 1..n |-> [v \in X |-> Round(v, i)]]
<1>1. n \in Nat /\ SeqLen \in Nat
  BY PackingAssumption
<1>2. Bins(samples) = IF Workers > 1 THEN Expand(u[n], RoundUp(Len(u[n]))) ELSE u[n]
  BY Zenon DEF Bins
<1>3. /\ ranked \in Seq(A) /\ Len(ranked) = n /\ ToSet(ranked) = ToSet(samples) /\ IsInjective(ranked)
      /\ \A i \in 1..n : ranked[i] \in A
  <2>1. ASSUME NEW i \in 1..n PROVE Sizes(samples)[i] \in Int
    <3>1. samples[i] \in A
      OBVIOUS
    <3>2. Size(samples[i]) \in Nat
      BY <1>1, <3>1 DEF Pieces
    <3> QED BY <3>2 DEF Sizes
  <2>2. Rearranged(ranked, samples, A)
    BY <2>1, DescendingIs
  <2> HIDE DEF ranked
  <2> QED BY <1>1, <2>2 DEF Rearranged
<1> HIDE DEF ranked
<1>4. <<>> \in X
  OBVIOUS
<1>5. \A v \in X, i \in 1..n : Round(v, i) \in X
  BY <1>3, FirstFitType
<1> HIDE DEF X, n, Round
<1>6. step \in StepMaps(n, X)
  BY <1>5 DEF StepMaps
<1>7. PICK f : f \in Recursions(n, X, <<>>, step)
  <2> HIDE DEF step
  <2> QED BY <1>1, <1>4, <1>6, RecursionUpTo
<1>8. f \in [0..n -> X] /\ f[0] = <<>> /\ \A i \in 1..n : f[i] = Round(f[i - 1], i)
  <2>1. f \in [0..n -> X] /\ f[0] = <<>> /\ \A i \in 1..n : f[i] = step[i][f[i - 1]]
    <3> HIDE DEF step
    <3> QED BY <1>7 DEF Recursions
  <2>2. \A i \in 1..n : i - 1 \in 0..n
    BY <1>1
  <2>3. \A i \in 1..n : f[i - 1] \in X
    BY <2>1, <2>2
  <2> QED BY <2>1, <2>3
<1>9. Solves(f)
  <2>1. \A i \in 0..n : i = 0 \/ i \in 1..n
    BY <1>1
  <2>2. f = [i \in 0..n |-> f[i]]
    BY <1>8
  <2>3. \A i \in 0..n : f[i] = IF i = 0 THEN <<>> ELSE Round(f[i - 1], i)
    BY <1>1, <1>8, <2>1
  <2> QED BY <2>2, <2>3
<1>10. Solves(u)
  <2> HIDE DEF Solves
  <2> QED BY <1>9
<1>11. u = [i \in 0..n |-> u[i]] /\ u[0] = <<>> /\ \A i \in 1..n : u[i] = Round(u[i - 1], i)
  <2> HIDE DEF u
  <2>1. \A i \in 1..n : i \in 0..n /\ i # 0
    BY <1>1
  <2>2. 0 \in 0..n
    BY <1>1
  <2> QED BY <1>10, <2>1, <2>2
<1> HIDE DEF u
<1> DEFINE Upto(i) == {ranked[j] : j \in 1..i}
           T == {i \in 0..n : Divides(u[i], Upto(i), A)}
<1>12. 0 \in T
  <2>1. Upto(0) = {}
    OBVIOUS
  <2>2. Divides(<<>>, {}, A)
    BY DEF Divides
  <2> HIDE DEF Upto
  <2> QED BY <1>1, <1>11, <2>1, <2>2
<1>13. ASSUME NEW i \in 0..(n - 1), i \in T PROVE i + 1 \in T
  <2>1. i + 1 \in 1..n /\ i + 1 \in 0..n /\ (i + 1) - 1 = i /\ i \in 0..n
    BY <1>1
  <2>2. Divides(u[i], Upto(i), A)
    BY <1>13
  <2>3. ranked[i + 1] \notin Upto(i) /\ ranked[i + 1] \in A
    <3>1. \A j, k \in 1..n : ranked[j] = ranked[k] => j = k
      BY <1>3 DEF IsInjective
    <3>2. \A j \in 1..i : j \in 1..n /\ j # i + 1
      BY <1>1
    <3> QED BY <1>3, <2>1, <3>1, <3>2
  <2>4. Upto(i + 1) = Upto(i) \cup {ranked[i + 1]}
    <3>1. \A j \in 1..(i + 1) : j \in 1..i \/ j = i + 1
      BY <1>1
    <3>2. i + 1 \in 1..(i + 1) /\ \A j \in 1..i : j \in 1..(i + 1)
      BY <1>1
    <3> QED BY <3>1, <3>2
  <2>5. u[i + 1] = FirstFit(u[i], ranked[i + 1])
    BY <1>11, <2>1 DEF Round
  <2> HIDE DEF Upto
  <2>6. Divides(u[i + 1], Upto(i + 1), A)
    BY <2>2, <2>3, <2>4, <2>5, FirstFitDivides
  <2> QED BY <2>1, <2>6
<1>14. \A i \in 0..n : i \in T
  <2> HIDE DEF T
  <2> QED BY <1>1, <1>12, <1>13, UpToInduction
<1>15. Upto(n) = ToSet(samples)
  <2>1. ToSet(ranked) = {ranked[j] : j \in 1..Len(ranked)}
    BY <1>3, ToSetSeq
  <2> QED BY <1>3, <2>1
<1>16. Divides(u[n], ToSet(samples), A)
  <2>1. n \in 0..n
    BY <1>1
  <2> HIDE DEF Upto
  <2> QED BY <1>14, <1>15, <2>1
<1>17. RoundUp(Len(u[n])) \in Nat
  <2>1. Len(u[n]) \in Nat /\ Workers \in Nat \ {0}
    BY <1>16, PackingAssumption DEF Divides
  <2> DEFINE m == Len(u[n]) + Workers - 1
  <2>2. m \in Nat
    BY <2>1
  <2> HIDE DEF m
  <2>3. m \div Workers \in Nat
    BY <2>1, <2>2
  <2>4. (m \div Workers) * Workers \in Nat
    BY <2>1, <2>3, TimesNat
  <2> QED BY <2>4 DEF RoundUp, m
<1>18. Divides(Expand(u[n], RoundUp(Len(u[n]))), ToSet(samples), A)
  BY <1>16, <1>17, ExpandDivides
<1> QED BY <1>2, <1>16, <1>18

-----------------------------------------------------------------------------
(* balanced_partition: the states of Karmarkar-Karp                        *)

\* Subsets of n weighted items.
Subsets(n) == [total : Nat, items : Seq(1..n)]

\* A state of n items: as many in each of its subsets, c, and each once.
IsState(s, c, n) ==
    /\ c \in Nat \ {0} /\ s \in [1..Workers -> Subsets(n)]
    /\ \A i \in 1..Workers : Len(s[i].items) = c /\ IsInjective(s[i].items)
    /\ \A i, j \in 1..Workers : i # j => ToSet(s[i].items) \cap ToSet(s[j].items) = {}

\* All items of a state.
ItemsOf(s) == UNION {ToSet(s[i].items) : i \in 1..Workers}

\* What a state says of one subset.
LEMMA StateSubset ==
    ASSUME NEW n \in Nat, NEW c, NEW s, IsState(s, c, n), NEW i \in 1..Workers
    PROVE  /\ s[i].total \in Nat /\ s[i].items \in Seq(1..n) /\ Len(s[i].items) = c
           /\ s[i].items[1] \in ToSet(s[i].items) /\ s[i].items[1] \in 1..n
           /\ ToSet(s[i].items) \subseteq ItemsOf(s) /\ ToSet(s[i].items) \subseteq 1..n
<1>1. s[i] \in Subsets(n) /\ Len(s[i].items) = c /\ c \in Nat \ {0}
  BY DEF IsState
<1> DEFINE q == s[i].items
<1>2. s[i].total \in Nat /\ q \in Seq(1..n)
  BY <1>1 DEF Subsets
<1> HIDE DEF q
<1>3. 1 \in 1..Len(q)
  BY <1>1, <1>2 DEF q
<1>4. q[1] \in ToSet(q) /\ q[1] \in 1..n /\ ToSet(q) \subseteq 1..n
  BY <1>2, <1>3, ToSetSeq
<1> QED BY <1>1, <1>2, <1>4 DEF q, ItemsOf

\* Sorting the subsets keeps the state.
LEMMA SortedIs ==
    ASSUME NEW n \in Nat, NEW c, NEW s, IsState(s, c, n)
    PROVE  IsState(Sorted(s), c, n) /\ ItemsOf(Sorted(s)) = ItemsOf(s)
<1> DEFINE before == {w \in (1..Workers) \X (1..Workers) : Heavier(s[w[1]], s[w[2]])}
           order == InOrder(1..Workers, before)
           t == [i \in 1..Workers |-> s[order[i]]]
<1>1. Workers \in Nat
  BY PackingAssumption
<1>2. StrictOrder(1..Workers, before)
  <2> DEFINE a(i) == s[i].total
             b(i) == s[i].items[1]
  <2>1. \A i \in 1..Workers : a(i) \in Nat /\ b(i) \in Nat
    <3> TAKE i \in 1..Workers
    <3>1. a(i) \in Nat /\ b(i) \in 1..n
      BY StateSubset
    <3> QED BY <3>1
  <2>2. ASSUME NEW i \in 1..Workers, NEW j \in 1..Workers, b(i) = b(j), i # j PROVE FALSE
    <3>1. b(i) \in ToSet(s[i].items) /\ b(j) \in ToSet(s[j].items)
      BY StateSubset
    <3>2. ToSet(s[i].items) \cap ToSet(s[j].items) = {}
      BY <2>2 DEF IsState
    <3> HIDE DEF b
    <3> QED BY <2>2, <3>1, <3>2
  <2>3. \A i, j \in 1..Workers : <<i, j>> \in before <=> (a(i) > a(j) \/ (a(i) = a(j) /\ b(i) > b(j)))
    BY DEF Heavier
  <2> HIDE DEF a, b, before
  <2> QED BY <1>1, <2>1, <2>2, <2>3 DEF StrictOrder
<1>3. Permutes(order, Workers)
  <2> HIDE DEF before
  <2> QED BY <1>1, <1>2, OrderPermutes
<1>4. Sorted(s) = t
  BY Zenon DEF Sorted, t, order, before
<1> HIDE DEF order
<1>5. /\ \A i \in 1..Workers : order[i] \in 1..Workers
      /\ \A i, j \in 1..Workers : order[i] = order[j] => i = j
      /\ \A i \in 1..Workers : \E j \in 1..Workers : order[j] = i
  BY <1>3 DEF Permutes
<1>6. /\ \A i \in 1..Workers : t[i] = s[order[i]]
      /\ t = [i \in 1..Workers |-> t[i]]
  OBVIOUS
<1> HIDE DEF t
<1>7. c \in Nat \ {0} /\ t \in [1..Workers -> Subsets(n)]
  BY <1>5, <1>6 DEF IsState
<1>8. \A i \in 1..Workers : Len(t[i].items) = c /\ IsInjective(t[i].items)
  BY <1>5, <1>6 DEF IsState
<1>9. ASSUME NEW i \in 1..Workers, NEW j \in 1..Workers, i # j
      PROVE  ToSet(t[i].items) \cap ToSet(t[j].items) = {}
  <2>1. order[i] # order[j] /\ order[i] \in 1..Workers /\ order[j] \in 1..Workers
    BY <1>5, <1>9
  <2> DEFINE k == order[i]
             l == order[j]
  <2> HIDE DEF k, l
  <2>2. ToSet(s[k].items) \cap ToSet(s[l].items) = {}
    BY <2>1 DEF IsState, k, l
  <2> QED BY <1>6, <2>2 DEF k, l
<1>10. ItemsOf(t) = ItemsOf(s)
  BY <1>5, <1>6, SMTT(30) DEF ItemsOf
<1> QED BY <1>4, <1>7, <1>8, <1>9, <1>10 DEF IsState

-----------------------------------------------------------------------------

\* A state whose subsets are of any one size.
IsAnyState(s, n) == \E c \in Nat : IsState(s, c, n)

\* States of n items: k of them, every item in one.
AreStates(states, k, n) ==
    /\ IsFiniteSet(states) /\ Cardinality(states) = k
    /\ \A s \in states : IsAnyState(s, n)
    /\ \A s, t \in states : s # t => ItemsOf(s) \cap ItemsOf(t) = {}

\* The states hold every item.
Covers(states, n) == \A x \in 1..n : \E s \in states : x \in ItemsOf(s)

\* The state heapq pops first is one of them.
LEMMA PopFirstIs ==
    ASSUME NEW n \in Nat, NEW states, NEW k, AreStates(states, k, n), states # {}
    PROVE  PopFirst(states) \in states
<1> DEFINE spread(s) == Spread(s)
           a(s) == s[1].total
           b(s) == s[1].items[1]
           before == {w \in states \X states :
                         \/ spread(w[1]) > spread(w[2])
                         \/ (spread(w[1]) = spread(w[2]) /\ Heavier(w[1][1], w[2][1]))}
<1>1. Workers \in Nat \ {0}
  BY PackingAssumption
<1>2. 1 \in 1..Workers /\ Workers \in 1..Workers
  BY <1>1
<1>3. ASSUME NEW s \in states
      PROVE  spread(s) \in Int /\ a(s) \in Nat /\ b(s) \in Nat /\ b(s) \in ItemsOf(s)
  <2>1. PICK c \in Nat : IsState(s, c, n)
    BY DEF AreStates, IsAnyState
  <2>2. /\ s[1].total \in Nat /\ s[1].items[1] \in 1..n
        /\ s[1].items[1] \in ToSet(s[1].items) /\ ToSet(s[1].items) \subseteq ItemsOf(s)
    BY <1>2, <2>1, StateSubset
  <2>3. s[Workers].total \in Nat
    BY <1>2, <2>1, StateSubset
  <2> DEFINE x == s[1].total
             y == s[Workers].total
             z == s[1].items[1]
  <2>4. Spread(s) = x - y
    BY DEF Spread
  <2> HIDE DEF x, y, z
  <2>5. x \in Nat /\ y \in Nat /\ z \in 1..n /\ z \in ItemsOf(s)
    BY <2>2, <2>3 DEF x, y, z
  <2>6. spread(s) \in Int /\ x \in Nat /\ z \in Nat /\ z \in ItemsOf(s)
    BY <2>4, <2>5
  <2> QED BY <2>6 DEF x, z
<1>4. \A s, t \in states : s # t => b(s) # b(t)
  BY <1>3 DEF AreStates
<1>5. StrictOrder(states, before)
  <2>1. \A s, t \in states : <<s, t>> \in before <=>
            (spread(s) > spread(t) \/ (spread(s) = spread(t) /\ (a(s) > a(t) \/ (a(s) = a(t) /\ b(s) > b(t)))))
    BY DEF Heavier
  <2> HIDE DEF spread, a, b, before
  <2> QED BY <1>3, <1>4, <2>1 DEF StrictOrder
<1>6. PICK s \in states : \A t \in states \ {s} : <<s, t>> \in before
  <2> HIDE DEF before
  <2> QED BY <1>5, FirstInOrder DEF AreStates, HasFirst
<1>7. \A t \in states \ {s} :
          Spread(s) > Spread(t) \/ (Spread(s) = Spread(t) /\ Heavier(s[1], t[1]))
  BY <1>6
<1> QED BY <1>7, Zenon DEF PopFirst

\* Merging two states.
LEMMA MergeStatesIs ==
    ASSUME NEW n \in Nat, NEW s, NEW t, IsAnyState(s, n), IsAnyState(t, n),
           ItemsOf(s) \cap ItemsOf(t) = {}
    PROVE  /\ IsAnyState(MergeStates(s, t), n)
           /\ ItemsOf(MergeStates(s, t)) = ItemsOf(s) \cup ItemsOf(t)
<1>1. PICK c \in Nat : IsState(s, c, n)
  BY DEF IsAnyState
<1>2. PICK d \in Nat : IsState(t, d, n)
  BY DEF IsAnyState
<1> DEFINE o(i) == Workers + 1 - i
           m == [i \in 1..Workers |->
                   [total |-> s[i].total + t[o(i)].total, items |-> s[i].items \o t[o(i)].items]]
<1>3. Workers \in Nat /\ \A i \in 1..Workers : o(i) \in 1..Workers /\ o(o(i)) = i
  BY PackingAssumption
<1>4. MergeStates(s, t) = Sorted(m)
  BY Zenon DEF MergeStates
<1>5. \A i, j \in 1..Workers : i # j => o(i) # o(j)
  BY <1>3
<1> HIDE DEF o
<1>6. ASSUME NEW i \in 1..Workers
      PROVE  /\ m[i] \in Subsets(n) /\ Len(m[i].items) = c + d /\ IsInjective(m[i].items)
             /\ ToSet(m[i].items) = ToSet(s[i].items) \cup ToSet(t[o(i)].items)
             /\ ToSet(s[i].items) \subseteq ItemsOf(s) /\ ToSet(t[o(i)].items) \subseteq ItemsOf(t)
  <2>1. /\ s[i].total \in Nat /\ s[i].items \in Seq(1..n) /\ Len(s[i].items) = c
        /\ ToSet(s[i].items) \subseteq ItemsOf(s) /\ IsInjective(s[i].items)
    BY <1>1, StateSubset DEF IsState
  <2>2. /\ t[o(i)].total \in Nat /\ t[o(i)].items \in Seq(1..n) /\ Len(t[o(i)].items) = d
        /\ ToSet(t[o(i)].items) \subseteq ItemsOf(t) /\ IsInjective(t[o(i)].items)
    BY <1>2, <1>3, StateSubset DEF IsState
  <2> DEFINE p == s[i].items
             q == t[o(i)].items
             u == p \o q
  <2>3. m[i] = [total |-> s[i].total + t[o(i)].total, items |-> u]
    OBVIOUS
  <2> HIDE DEF p, q, m
  <2>4. IsConcat(u, p, q, 1..n)
    BY <2>1, <2>2, ConcatIs, Zenon DEF p, q
  <2>5. ConcatHas(u, p, q)
    BY <2>4, ConcatSet, Zenon
  <2>6. u \in Seq(1..n) /\ Len(u) = c + d
    BY <2>1, <2>2, <2>4 DEF IsConcat, p, q
  <2>7. ToSet(p) \cap ToSet(q) = {}
    BY <2>1, <2>2 DEF p, q
  <2>8. ToSet(u) = ToSet(p) \cup ToSet(q) /\ IsInjective(u)
    BY <2>1, <2>2, <2>5, <2>7 DEF ConcatHas, p, q
  <2> HIDE DEF u
  <2> DEFINE v == s[i].total + t[o(i)].total
  <2>10. v \in Nat
    BY <2>1, <2>2, SMTT(30)
  <2> HIDE DEF v
  <2>11. m[i] = [total |-> v, items |-> u]
    BY <2>3 DEF v
  <2>9. m[i].items = u /\ m[i] \in Subsets(n)
    BY <2>6, <2>10, <2>11 DEF Subsets
  <2> QED BY <2>1, <2>2, <2>6, <2>8, <2>9 DEF p, q
<1>7. m = [i \in 1..Workers |-> m[i]]
  OBVIOUS
<1> HIDE DEF m
<1>8. c + d \in Nat \ {0}
  BY <1>1, <1>2 DEF IsState
<1>9. ASSUME NEW i \in 1..Workers, NEW j \in 1..Workers, i # j
      PROVE  ToSet(m[i].items) \cap ToSet(m[j].items) = {}
  <2>1. ToSet(s[i].items) \cap ToSet(s[j].items) = {}
    BY <1>1, <1>9 DEF IsState
  <2>2. ToSet(t[o(i)].items) \cap ToSet(t[o(j)].items) = {}
    <3>1. o(i) \in 1..Workers /\ o(j) \in 1..Workers /\ o(i) # o(j)
      BY <1>3, <1>5, <1>9
    <3> QED BY <1>2, <3>1 DEF IsState
  <2> QED BY <1>6, <2>1, <2>2
<1>10. m \in [1..Workers -> Subsets(n)]
  BY <1>6, <1>7
<1>11. IsState(m, c + d, n)
  BY <1>6, <1>8, <1>9, <1>10 DEF IsState
<1>12. ItemsOf(m) = ItemsOf(s) \cup ItemsOf(t)
  <2>1. \A x \in ItemsOf(m) : x \in ItemsOf(s) \cup ItemsOf(t)
    BY <1>6, SMTT(30) DEF ItemsOf
  <2>2. \A x \in ItemsOf(s) : x \in ItemsOf(m)
    BY <1>6 DEF ItemsOf
  <2>3. ASSUME NEW x \in ItemsOf(t) PROVE x \in ItemsOf(m)
    <3>1. PICK i \in 1..Workers : x \in ToSet(t[i].items)
      BY DEF ItemsOf
    <3>2. o(i) \in 1..Workers /\ o(o(i)) = i
      BY <1>3
    <3>3. x \in ToSet(m[o(i)].items)
      BY <1>6, <3>1, <3>2
    <3> QED BY <3>2, <3>3 DEF ItemsOf
  <2> QED BY <2>1, <2>2, <2>3
<1>13. IsState(Sorted(m), c + d, n) /\ ItemsOf(Sorted(m)) = ItemsOf(m)
  BY <1>11, SortedIs
<1> QED BY <1>4, <1>8, <1>12, <1>13 DEF IsAnyState

\* One merge leaves one state less.
LEMMA MergeFirstTwoIs ==
    ASSUME NEW n \in Nat, NEW states, NEW k \in Nat, AreStates(states, k + 2, n), Covers(states, n)
    PROVE  AreStates(MergeFirstTwo(states), k + 1, n) /\ Covers(MergeFirstTwo(states), n)
<1> DEFINE s == PopFirst(states)
           rest == states \ {s}
           t == PopFirst(rest)
           m == MergeStates(s, t)
           others == rest \ {t}
<1>1. IsFiniteSet(states) /\ Cardinality(states) = k + 2 /\ states # {}
  BY FS_EmptySet DEF AreStates
<1>2. s \in states
  BY <1>1, PopFirstIs
<1> HIDE DEF s
<1>3. IsFiniteSet(rest) /\ Cardinality(rest) = k + 1
  BY <1>1, <1>2, FS_RemoveElement
<1>4. AreStates(rest, k + 1, n) /\ rest # {}
  BY <1>3, FS_EmptySet DEF AreStates
<1> HIDE DEF rest
<1>5. t \in rest
  BY <1>4, PopFirstIs
<1> HIDE DEF t
<1>6. t \in states /\ t # s /\ others = states \ {s, t}
  BY <1>5 DEF rest
<1>7. IsFiniteSet(others) /\ Cardinality(others) = k
  BY <1>3, <1>5, FS_RemoveElement
<1>8. MergeFirstTwo(states) = others \cup {m}
  BY <1>6, Zenon DEF MergeFirstTwo, s, t, rest
<1> HIDE DEF others
<1>9. IsAnyState(s, n) /\ IsAnyState(t, n) /\ ItemsOf(s) \cap ItemsOf(t) = {}
  BY <1>2, <1>6 DEF AreStates
<1>10. IsAnyState(m, n) /\ ItemsOf(m) = ItemsOf(s) \cup ItemsOf(t)
  BY <1>9, MergeStatesIs
<1> HIDE DEF m
<1>11. \A u \in others : /\ u \in states /\ IsAnyState(u, n) /\ ItemsOf(u) \cap ItemsOf(m) = {}
                         /\ ItemsOf(u) # {}
  <2> TAKE u \in others
  <2>1. u \in states /\ u # s /\ u # t
    BY <1>6
  <2>2. IsAnyState(u, n) /\ ItemsOf(u) \cap ItemsOf(s) = {} /\ ItemsOf(u) \cap ItemsOf(t) = {}
    BY <1>2, <1>6, <2>1 DEF AreStates
  <2>3. PICK c \in Nat : IsState(u, c, n)
    BY <2>2 DEF IsAnyState
  <2>4. 1 \in 1..Workers
    BY PackingAssumption
  <2>5. u[1].items[1] \in ItemsOf(u)
    BY <2>3, <2>4, StateSubset
  <2> QED BY <1>10, <2>1, <2>2, <2>5
<1>12. m \notin others
  BY <1>11
<1>13. IsFiniteSet(others \cup {m}) /\ Cardinality(others \cup {m}) = k + 1
  BY <1>7, <1>12, FS_AddElement
<1>14. AreStates(others \cup {m}, k + 1, n)
  <2>1. \A u \in others \cup {m} : IsAnyState(u, n)
    BY <1>10, <1>11
  <2>2. \A u, v \in others \cup {m} : u # v => ItemsOf(u) \cap ItemsOf(v) = {}
    <3>1. \A u, v \in others : u # v => ItemsOf(u) \cap ItemsOf(v) = {}
      BY <1>11 DEF AreStates
    <3> QED BY <1>11, <3>1
  <2> QED BY <1>13, <2>1, <2>2 DEF AreStates
<1>15. Covers(others \cup {m}, n)
  <2>1. \A u \in states : u \in others \/ u = s \/ u = t
    BY <1>6
  <2> QED BY <1>10, <2>1 DEF Covers
<1> QED BY <1>8, <1>14, <1>15

\* n items in rows of Workers.
LEMMA Row ==
    ASSUME NEW n \in Nat, n % Workers = 0
    PROVE  /\ n = Workers * (n \div Workers) /\ n \div Workers \in Nat
           /\ \A b \in 0..(n \div Workers - 1), i \in 1..Workers : Workers * b + i \in 1..n
           /\ \A b, d \in 0..(n \div Workers - 1), i, j \in 1..Workers :
                  Workers * b + i = Workers * d + j => b = d /\ i = j
           /\ \A k \in 1..n : \E b \in 0..(n \div Workers - 1), i \in 1..Workers : k = Workers * b + i
<1> DEFINE W == Workers
           q == n \div W
<1>1. W \in Nat \ {0}
  BY PackingAssumption
<1> HIDE DEF W
<1>2. n = W * q /\ q \in Nat
  BY <1>1, DivMod DEF W
<1>3. ASSUME NEW b \in 0..(q - 1), NEW i \in 1..W PROVE W * b + i \in 1..n
  <2>1. b + 1 <= q /\ b \in Nat /\ b + 1 \in Nat
    BY <1>2
  <2>2. W * (b + 1) <= W * q
    BY <1>1, <1>2, <2>1
  <2>3. W * (b + 1) = W * b + W /\ W * b \in Nat
    BY <1>1, <2>1
  <2> HIDE DEF q
  <2> QED BY <1>1, <1>2, <2>2, <2>3
<1>4. ASSUME NEW b \in 0..(q - 1), NEW d \in 0..(q - 1), NEW i \in 1..W, NEW j \in 1..W,
             W * b + i = W * d + j
      PROVE  b = d /\ i = j
  <2>1. b \in Nat /\ d \in Nat /\ i - 1 \in 0..(W - 1) /\ j - 1 \in 0..(W - 1)
    BY <1>1, <1>2
  <2> DEFINE x == i - 1
             y == j - 1
  <2>2. W * b + x = W * d + y
    <3>1. W * b \in Nat /\ W * d \in Nat
      BY <1>1, <2>1
    <3> QED BY <1>1, <1>4, <3>1
  <2>3. i = x + 1 /\ j = y + 1
    BY <1>1
  <2> HIDE DEF x, y, q
  <2>4. (W * b + x) % W = x /\ (W * b + x) \div W = b
    <3>1. x \in 0..(W - 1)
      BY <2>1 DEF x
    <3> QED BY <1>1, <2>1, <3>1, DivModUnique
  <2>5. (W * d + y) % W = y /\ (W * d + y) \div W = d
    <3>1. y \in 0..(W - 1)
      BY <2>1 DEF y
    <3> QED BY <1>1, <2>1, <3>1, DivModUnique
  <2>6. b = d /\ x = y
    BY <2>2, <2>4, <2>5, Zenon
  <2> QED BY <2>3, <2>6
<1>5. ASSUME NEW k \in 1..n PROVE \E b \in 0..(q - 1), i \in 1..W : k = W * b + i
  <2> DEFINE b == (k - 1) \div W
             r == (k - 1) % W
  <2>1. k - 1 = W * b + r /\ r \in 0..(W - 1) /\ b \in Nat
    <3>1. k - 1 \in Nat
      OBVIOUS
    <3> QED BY <1>1, <3>1, DivMod
  <2> HIDE DEF b, r
  <2>2. ASSUME b >= q PROVE FALSE
    <3>1. W * b >= W * q
      BY <1>1, <1>2, <2>1, <2>2
    <3>2. W * b \in Nat
      BY <1>1, <2>1
    <3> HIDE DEF q
    <3> QED BY <1>1, <1>2, <2>1, <3>1, <3>2
  <2>3. b \in 0..(q - 1) /\ r + 1 \in 1..W /\ k = W * b + (r + 1)
    <3>1. W * b \in Nat
      BY <1>1, <2>1
    <3> HIDE DEF q
    <3> QED BY <1>1, <1>2, <2>1, <2>2, <3>1
  <2> QED BY <2>3
<1> QED BY <1>2, <1>3, <1>4, <1>5 DEF W

\* The states to begin with.
LEMMA KKStatesAre ==
    ASSUME NEW weights \in Seq(Nat), Len(weights) % Workers = 0
    PROVE  LET n == Len(weights)
           IN  AreStates(KKStates(weights), n \div Workers, n) /\ Covers(KKStates(weights), n)
<1> DEFINE n == Len(weights)
           q == n \div Workers
           before == {w \in (1..n) \X (1..n) :
                         \/ weights[w[1]] < weights[w[2]]
                         \/ weights[w[1]] = weights[w[2]] /\ w[1] < w[2]}
           order == InOrder(1..n, before)
           subset(i) == [total |-> weights[i], items |-> <<i>>]
           at(b, i) == Workers * b + i
           raw(b) == [i \in 1..Workers |-> subset(order[at(b, i)])]
           st(b) == Sorted(raw(b))
<1>1. n \in Nat /\ \A i \in 1..n : weights[i] \in Nat
  OBVIOUS
<1>2. KKStates(weights) = {st(b) : b \in 0..(q - 1)}
  BY Zenon DEF KKStates, st, raw, at, subset, order, before, q, n
<1>3. Permutes(order, n)
  <2>1. StrictOrder(1..n, before)
    <3>1. \A i \in 1..n : weights[i] \in Nat /\ i \in Nat
      BY <1>1
    <3>2. \A i, j \in 1..n : <<i, j>> \in before <=>
              (weights[i] < weights[j] \/ (weights[i] = weights[j] /\ i < j))
      OBVIOUS
    <3> HIDE DEF n, before
    <3> QED BY <3>1, <3>2, SMTT(30) DEF StrictOrder
  <2> HIDE DEF before, n
  <2> QED BY <1>1, <2>1, OrderPermutes
<1> HIDE DEF order
<1>4. /\ \A i \in 1..n : order[i] \in 1..n
      /\ \A i, j \in 1..n : order[i] = order[j] => i = j
      /\ \A i \in 1..n : \E j \in 1..n : order[j] = i
  BY <1>3 DEF Permutes
<1>5. /\ q \in Nat
      /\ \A b \in 0..(q - 1), i \in 1..Workers : at(b, i) \in 1..n
      /\ \A b, d \in 0..(q - 1), i, j \in 1..Workers : at(b, i) = at(d, j) => b = d /\ i = j
      /\ \A k \in 1..n : \E b \in 0..(q - 1), i \in 1..Workers : k = at(b, i)
  <2> HIDE DEF n
  <2> QED BY <1>1, Row DEF n
<1> HIDE DEF n, q, at
<1>6. ASSUME NEW b \in 0..(q - 1)
      PROVE  IsState(raw(b), 1, n) /\ ItemsOf(raw(b)) = {order[at(b, i)] : i \in 1..Workers}
  <2>1. ASSUME NEW i \in 1..Workers
        PROVE  /\ raw(b)[i] \in Subsets(n) /\ Len(raw(b)[i].items) = 1 /\ IsInjective(raw(b)[i].items)
               /\ ToSet(raw(b)[i].items) = {order[at(b, i)]}
    <3> DEFINE k == order[at(b, i)]
    <3>1. raw(b)[i] = [total |-> weights[k], items |-> <<k>>]
      OBVIOUS
    <3>2. k \in 1..n
      BY <1>4, <1>5
    <3> HIDE DEF k, raw
    <3>3. weights[k] \in Nat
      BY <1>1, <3>2
    <3>4. <<k>> \in Seq(1..n) /\ Len(<<k>>) = 1 /\ IsInjective(<<k>>) /\ ToSet(<<k>>) = {k}
      BY <3>2 DEF IsInjective, ToSet
    <3> QED BY <3>1, <3>3, <3>4 DEF Subsets, k
  <2>2. raw(b) = [i \in 1..Workers |-> raw(b)[i]]
    OBVIOUS
  <2> HIDE DEF raw
  <2>3. raw(b) \in [1..Workers -> Subsets(n)]
    BY <2>1, <2>2
  <2>4. ASSUME NEW i \in 1..Workers, NEW j \in 1..Workers, i # j
        PROVE  ToSet(raw(b)[i].items) \cap ToSet(raw(b)[j].items) = {}
    <3>1. at(b, i) # at(b, j) /\ at(b, i) \in 1..n /\ at(b, j) \in 1..n
      BY <1>5, <2>4
    <3>2. order[at(b, i)] # order[at(b, j)]
      BY <1>4, <3>1
    <3> QED BY <2>1, <3>2
  <2>5. ItemsOf(raw(b)) = {order[at(b, i)] : i \in 1..Workers}
    <3>1. \A x \in ItemsOf(raw(b)) : \E i \in 1..Workers : x = order[at(b, i)]
      <4> TAKE x \in ItemsOf(raw(b))
      <4>1. PICK i \in 1..Workers : x \in ToSet(raw(b)[i].items)
        BY Zenon DEF ItemsOf
      <4> QED BY <2>1, <4>1
    <3>2. ASSUME NEW i \in 1..Workers PROVE order[at(b, i)] \in ItemsOf(raw(b))
      <4>1. order[at(b, i)] \in ToSet(raw(b)[i].items)
        BY <2>1
      <4> QED BY <4>1 DEF ItemsOf
    <3> QED BY <3>1, <3>2
  <2>6. \A i \in 1..Workers : Len(raw(b)[i].items) = 1 /\ IsInjective(raw(b)[i].items)
    BY <2>1
  <2>7. IsState(raw(b), 1, n)
    <3>1. 1 \in Nat \ {0}
      OBVIOUS
    <3> QED BY <2>3, <2>4, <2>6, <3>1, Zenon DEF IsState
  <2> QED BY <2>5, <2>7
<1> HIDE DEF raw
<1>7. ASSUME NEW b \in 0..(q - 1)
      PROVE  IsState(st(b), 1, n) /\ ItemsOf(st(b)) = {order[at(b, i)] : i \in 1..Workers}
  BY <1>1, <1>6, SortedIs DEF n
<1> HIDE DEF st
<1>8. ASSUME NEW b \in 0..(q - 1), NEW d \in 0..(q - 1), b # d
      PROVE  ItemsOf(st(b)) \cap ItemsOf(st(d)) = {}
  <2>1. ASSUME NEW i \in 1..Workers, NEW j \in 1..Workers PROVE order[at(b, i)] # order[at(d, j)]
    <3>1. at(b, i) \in 1..n /\ at(d, j) \in 1..n
      BY <1>5
    <3>2. at(b, i) # at(d, j)
      BY <1>5, <1>8
    <3> QED BY <1>4, <3>1, <3>2
  <2> QED BY <1>7, <2>1
<1>9. 1 \in 1..Workers
  BY PackingAssumption
<1>10. ASSUME NEW b \in 0..(q - 1), NEW d \in 0..(q - 1), st(b) = st(d) PROVE b = d
  <2>1. order[at(b, 1)] \in ItemsOf(st(b))
    BY <1>7, <1>9
  <2> QED BY <1>8, <1>10, <2>1
<1>11. IsFiniteSet(KKStates(weights)) /\ Cardinality(KKStates(weights)) = q
  <2> DEFINE f == [b \in 0..(q - 1) |-> st(b)]
             S == 0..(q - 1)
  <2>1. IsFiniteSet(S) /\ Cardinality(S) = q
    <3>1. 0 \in Int /\ q - 1 \in Int /\ q \in Nat
      BY <1>5
    <3>2. IsFiniteSet(S) /\ Cardinality(S) = IF 0 > q - 1 THEN 0 ELSE (q - 1) - 0 + 1
      BY <3>1, FS_Interval, Zenon
    <3> QED BY <3>1, <3>2
  <2>2. f \in Bijection(S, KKStates(weights))
    <3>1. f \in [S -> KKStates(weights)]
      BY <1>2
    <3>2. \A b, d \in S : f[b] = f[d] => b = d
      BY <1>10
    <3>3. \A s \in KKStates(weights) : \E b \in S : f[b] = s
      BY <1>2
    <3> HIDE DEF f, S
    <3> QED BY <3>1, <3>2, <3>3 DEF Bijection, Injection, Surjection, IsInjective
  <2> HIDE DEF S, f
  <2>3. ExistsBijection(S, KKStates(weights))
    BY <2>2 DEF ExistsBijection
  <2> QED BY <2>1, <2>3, FS_Bijection
<1>12. AreStates(KKStates(weights), q, n)
  <2>1. \A s \in KKStates(weights) : IsAnyState(s, n)
    BY <1>2, <1>7 DEF IsAnyState
  <2>2. \A s, t \in KKStates(weights) : s # t => ItemsOf(s) \cap ItemsOf(t) = {}
    BY <1>2, <1>8
  <2> QED BY <1>11, <2>1, <2>2 DEF AreStates
<1>13. Covers(KKStates(weights), n)
  <2>1. ASSUME NEW x \in 1..n PROVE \E s \in KKStates(weights) : x \in ItemsOf(s)
    <3>1. PICK j \in 1..n : order[j] = x
      BY <1>4
    <3>2. PICK b \in 0..(q - 1), i \in 1..Workers : j = at(b, i)
      BY <1>5
    <3>3. x \in ItemsOf(st(b))
      BY <1>7, <3>1, <3>2
    <3> QED BY <1>2, <3>3
  <2> QED BY <2>1 DEF Covers
<1> QED BY <1>12, <1>13 DEF n, q

-----------------------------------------------------------------------------

\* Each of the numbers up to n in one place, as many in each part.
EvenParts(parts, c, n) ==
    /\ c \in Nat /\ parts \in [1..Workers -> [1..c -> 1..n]]
    /\ \A r, s \in 1..Workers, i, j \in 1..c : parts[r][i] = parts[s][j] => r = s /\ i = j
    /\ \A x \in 1..n : \E r \in 1..Workers, i \in 1..c : parts[r][i] = x

\* Even parts of any size but 0.
AnEvenParts(parts, n) == \E c \in Nat \ {0} : EvenParts(parts, c, n)

\* The subsets of a state that has all items, each in increasing order.
LEMMA StateParts ==
    ASSUME NEW n \in Nat, NEW s, IsAnyState(s, n), \A x \in 1..n : x \in ItemsOf(s)
    PROVE  AnEvenParts([r \in 1..Workers |->
               InOrder(ToSet(s[r].items),
                       {w \in ToSet(s[r].items) \X ToSet(s[r].items) : w[1] < w[2]})], n)
<1> DEFINE items(r) == ToSet(s[r].items)
           before(r) == {w \in items(r) \X items(r) : w[1] < w[2]}
           part(r) == InOrder(items(r), before(r))
           parts == [r \in 1..Workers |-> part(r)]
<1>1. PICK c \in Nat : IsState(s, c, n)
  BY DEF IsAnyState
<1>2. ASSUME NEW r \in 1..Workers
      PROVE  /\ items(r) \in SUBSET (1..n) /\ IsFiniteSet(items(r)) /\ Cardinality(items(r)) = c
             /\ Lists(part(r), items(r))
  <2>1. s[r].items \in Seq(1..n) /\ Len(s[r].items) = c /\ IsInjective(s[r].items) /\ items(r) \subseteq 1..n
    BY <1>1, StateSubset DEF IsState
  <2>2. IsFiniteSet(items(r)) /\ Cardinality(items(r)) = c
    BY <2>1, InjectiveCount
  <2> HIDE DEF items
  <2>3. StrictOrder(items(r), before(r))
    <3>1. items(r) \subseteq Nat
      BY <2>1
    <3> QED BY <3>1 DEF StrictOrder
  <2> HIDE DEF before
  <2>4. Lists(part(r), items(r))
    BY <2>2, <2>3, InOrderIs, Zenon
  <2> QED BY <2>1, <2>2, <2>4
<1>3. \A r, t \in 1..Workers : r # t => items(r) \cap items(t) = {}
  BY <1>1 DEF IsState
<1>4. \A x \in 1..n : \E r \in 1..Workers : x \in items(r)
  BY DEF ItemsOf
<1>5. \A r \in 1..Workers : parts[r] = part(r)
  OBVIOUS
<1>6. parts = [r \in 1..Workers |-> parts[r]]
  OBVIOUS
<1> HIDE DEF items, part, parts
<1>7. ASSUME NEW r \in 1..Workers
      PROVE  /\ parts[r] \in [1..c -> items(r)] /\ parts[r] \in [1..c -> 1..n]
             /\ \A i, j \in 1..c : parts[r][i] = parts[r][j] => i = j
             /\ \A x \in items(r) : \E i \in 1..c : parts[r][i] = x
  <2>1. Lists(part(r), items(r)) /\ Cardinality(items(r)) = c /\ items(r) \subseteq 1..n /\ c \in Nat
    BY <1>2
  <2> DEFINE v == part(r)
             w == items(r)
  <2>2. parts[r] = v
    BY <1>5
  <2> HIDE DEF v, w
  <2>3. Lists(v, w) /\ Cardinality(w) = c /\ w \subseteq 1..n /\ c \in Nat
    BY <2>1 DEF v, w
  <2>4. Len(v) = c /\ v \in [1..c -> w] /\ v \in [1..c -> 1..n]
    BY <2>3 DEF Lists
  <2>5. (\A i, j \in 1..c : v[i] = v[j] => i = j) /\ \A x \in w : \E i \in 1..c : v[i] = x
    BY <2>3, <2>4 DEF Lists
  <2> QED BY <2>2, <2>4, <2>5 DEF w
<1>8. parts \in [1..Workers -> [1..c -> 1..n]]
  BY <1>6, <1>7
<1>9. ASSUME NEW r \in 1..Workers, NEW t \in 1..Workers, NEW i \in 1..c, NEW j \in 1..c,
             parts[r][i] = parts[t][j]
      PROVE  r = t /\ i = j
  <2>1. parts[r][i] \in items(r) /\ parts[t][j] \in items(t)
    BY <1>7, SMTT(30)
  <2>2. r = t
    BY <1>3, <1>9, <2>1
  <2> QED BY <1>7, <1>9, <2>2
<1>10. \A x \in 1..n : \E r \in 1..Workers, i \in 1..c : parts[r][i] = x
  BY <1>4, <1>7
<1>11. EvenParts(parts, c, n)
  BY <1>8, <1>9, <1>10 DEF EvenParts
<1>12. c \in Nat \ {0}
  BY <1>1 DEF IsState
<1>13. AnEvenParts(parts, n)
  BY <1>11, <1>12 DEF AnEvenParts
<1> QED BY <1>13, Zenon DEF parts, part, before, items

\* Karmarkar-Karp partitions evenly.
LEMMA KarmarkarKarpIs ==
    ASSUME NEW weights \in Seq(Nat), weights # <<>>, Len(weights) % Workers = 0
    PROVE  AnEvenParts(KarmarkarKarp(weights), Len(weights))
<1> DEFINE n == Len(weights)
           q == n \div Workers
           rounds == q - 1
           S == [1..Workers -> Subsets(n)]
           Good(v, i) == AreStates(v, q - i, n) /\ Covers(v, n)
           X == {v \in SUBSET S : \E i \in 0..rounds : Good(v, i)}
           base == KKStates(weights)
           Solves(g) == g = [i \in 0..rounds |-> IF i = 0 THEN base ELSE MergeFirstTwo(g[i - 1])]
           u == CHOOSE g : Solves(g)
           Step(v, i) == IF Good(v, i - 1) THEN MergeFirstTwo(v) ELSE v
           step == [i \in 1..rounds |-> [v \in X |-> Step(v, i)]]
           final == CHOOSE s \in u[rounds] : TRUE
           items(r) == ToSet(final[r].items)
<1>1. KarmarkarKarp(weights)
        = [r \in 1..Workers |-> InOrder(items(r), {w \in items(r) \X items(r) : w[1] < w[2]})]
  BY Zenon DEF KarmarkarKarp
<1>2. n \in Nat \ {0} /\ q \in Nat \ {0} /\ rounds \in Nat
  <2>1. n \in Nat \ {0}
    OBVIOUS
  <2> HIDE DEF n
  <2>2. n = Workers * q /\ q \in Nat
    BY <2>1, Row DEF n
  <2>3. Workers \in Nat
    BY PackingAssumption
  <2> HIDE DEF q
  <2>4. q # 0
    BY <2>1, <2>2, <2>3
  <2> QED BY <2>1, <2>2, <2>4
<1> HIDE DEF base
<1>3. Good(base, 0)
  <2>1. AreStates(base, q, n) /\ Covers(base, n)
    BY KKStatesAre DEF base
  <2>2. q - 0 = q
    BY <1>2
  <2> HIDE DEF q, n
  <2> QED BY <2>1, <2>2
<1> HIDE DEF n, q
<1>4. \A v, i : Good(v, i) => v \in SUBSET S
  BY DEF AreStates, IsAnyState, IsState
<1>5. ASSUME NEW i \in 1..rounds, NEW v, Good(v, i - 1) PROVE Good(MergeFirstTwo(v), i)
  <2> DEFINE k == q - i - 1
  <2>1. k \in Nat /\ q - (i - 1) = k + 2 /\ q - i = k + 1
    BY <1>2
  <2> HIDE DEF k
  <2> QED BY <1>2, <1>5, <2>1, MergeFirstTwoIs
<1> HIDE DEF Good, S
<1>6. base \in X
  BY <1>2, <1>3, <1>4
<1>7. \A v \in X, i \in 1..rounds : Step(v, i) \in X
  <2> TAKE v \in X, i \in 1..rounds
  <2>1. CASE Good(v, i - 1)
    <3>1. Good(MergeFirstTwo(v), i) /\ i \in 0..rounds
      BY <1>2, <1>5, <2>1
    <3> QED BY <1>4, <2>1, <3>1
  <2>2. CASE ~Good(v, i - 1)
    BY <2>2
  <2> QED BY <2>1, <2>2
<1> HIDE DEF X, Step, rounds
<1>8. step \in StepMaps(rounds, X)
  BY <1>7 DEF StepMaps
<1>9. PICK f : f \in Recursions(rounds, X, base, step)
  <2> HIDE DEF step
  <2> QED BY <1>2, <1>6, <1>8, RecursionUpTo
<1>10. f \in [0..rounds -> X] /\ f[0] = base /\ \A i \in 1..rounds : f[i] = Step(f[i - 1], i)
  <2>1. f \in [0..rounds -> X] /\ f[0] = base /\ \A i \in 1..rounds : f[i] = step[i][f[i - 1]]
    <3> HIDE DEF step
    <3> QED BY <1>9 DEF Recursions
  <2>2. \A i \in 1..rounds : i - 1 \in 0..rounds
    BY <1>2
  <2>3. \A i \in 1..rounds : f[i - 1] \in X
    BY <2>1, <2>2
  <2> QED BY <2>1, <2>3
<1>11. \A i \in 0..rounds : i = 0 \/ (i \in 1..rounds /\ i - 1 \in 0..rounds /\ i # 0)
  BY <1>2
<1>12. \A i \in 0..(rounds - 1) : i + 1 \in 1..rounds /\ i + 1 \in 0..rounds /\ (i + 1) - 1 = i
  BY <1>2
<1>13. 0 \in 0..rounds /\ rounds \in 0..rounds
  BY <1>2
<1>14. \A i \in 0..rounds : Good(f[i], i)
  <2> DEFINE T == {i \in 0..rounds : Good(f[i], i)}
  <2>1. 0 \in T
    BY <1>3, <1>10, <1>13
  <2>2. ASSUME NEW i \in 0..(rounds - 1), i \in T PROVE i + 1 \in T
    <3>1. f[i + 1] = Step(f[i], i + 1)
      BY <1>10, <1>12
    <3>2. Good(f[i], (i + 1) - 1)
      BY <1>12, <2>2
    <3>3. f[i + 1] = MergeFirstTwo(f[i])
      BY <3>1, <3>2 DEF Step
    <3> QED BY <1>5, <1>12, <3>2, <3>3
  <2> HIDE DEF T
  <2>3. \A i \in 0..rounds : i \in T
    BY <1>2, <2>1, <2>2, UpToInduction
  <2> QED BY <2>3 DEF T
<1>15. Solves(f)
  <2>1. f = [i \in 0..rounds |-> f[i]]
    BY <1>10
  <2>2. \A i \in 1..rounds : f[i] = MergeFirstTwo(f[i - 1])
    <3> TAKE i \in 1..rounds
    <3>1. i - 1 \in 0..rounds
      BY <1>2
    <3>2. Good(f[i - 1], i - 1)
      BY <1>14, <3>1
    <3> QED BY <1>10, <3>2 DEF Step
  <2>3. \A i \in 0..rounds : f[i] = IF i = 0 THEN base ELSE MergeFirstTwo(f[i - 1])
    BY <1>10, <1>11, <2>2
  <2> QED BY <2>1, <2>3
<1>16. Solves(u)
  <2> HIDE DEF Solves
  <2> QED BY <1>15
<1>17. u[0] = base /\ \A i \in 1..rounds : u[i] = MergeFirstTwo(u[i - 1])
  <2> HIDE DEF u
  <2>1. \A i \in 1..rounds : i \in 0..rounds /\ i # 0
    BY <1>2
  <2> QED BY <1>13, <1>16, <2>1
<1> HIDE DEF u
<1>18. \A i \in 0..rounds : Good(u[i], i)
  <2> DEFINE T == {i \in 0..rounds : Good(u[i], i)}
  <2>1. 0 \in T
    BY <1>3, <1>13, <1>17
  <2>2. ASSUME NEW i \in 0..(rounds - 1), i \in T PROVE i + 1 \in T
    <3>1. u[i + 1] = MergeFirstTwo(u[i]) /\ Good(u[i], (i + 1) - 1)
      BY <1>12, <1>17, <2>2
    <3> QED BY <1>5, <1>12, <3>1
  <2> HIDE DEF T
  <2>3. \A i \in 0..rounds : i \in T
    BY <1>2, <2>1, <2>2, UpToInduction
  <2> QED BY <2>3 DEF T
<1>19. AreStates(u[rounds], 1, n) /\ Covers(u[rounds], n)
  <2>1. q - rounds = 1
    BY <1>2 DEF rounds
  <2>2. Good(u[rounds], rounds)
    BY <1>13, <1>18
  <2> QED BY <2>1, <2>2 DEF Good
<1>20. \E s : u[rounds] = {s}
  BY <1>19, FS_Singleton DEF AreStates
<1>21. final \in u[rounds] /\ u[rounds] = {final}
  BY <1>20
<1> HIDE DEF final
<1>22. IsAnyState(final, n) /\ \A x \in 1..n : x \in ItemsOf(final)
  BY <1>19, <1>21 DEF AreStates, Covers
<1> QED BY <1>1, <1>2, <1>22, StateParts DEF n

-----------------------------------------------------------------------------
(* balanced_partition: refining by swaps                                   *)

\* A swap of c numbers per part: of two parts, a number of each.
Swaps(c) == {w \in [l : 1..Workers, r : 1..Workers, i : 1..c, j : 1..c] : w.l < w.r}

\* q is p but for two places.
IsSwap(q, p, w, c, n) ==
    /\ q \in [1..Workers -> [1..c -> 1..n]]
    /\ q[w.l][w.i] = p[w.r][w.j] /\ q[w.r][w.j] = p[w.l][w.i]
    /\ \A r \in 1..Workers, i \in 1..c :
          (r # w.l \/ i # w.i) /\ (r # w.r \/ i # w.j) => q[r][i] = p[r][i]

\* A swap puts each of the two numbers in the place of the other.
LEMMA SwappedAt ==
    ASSUME NEW n \in Nat, NEW c \in Nat, NEW p \in [1..Workers -> [1..c -> 1..n]], NEW w \in Swaps(c)
    PROVE  IsSwap(Swapped(p, w), p, w, c, n)
<1> DEFINE l == w.l
           r == w.r
           i == w.i
           j == w.j
           a == [p[l] EXCEPT ![i] = p[r][j]]
           b == [p[r] EXCEPT ![j] = p[l][i]]
           q == Swapped(p, w)
<1>1. l \in 1..Workers /\ r \in 1..Workers /\ i \in 1..c /\ j \in 1..c /\ l # r
  <2>1. w.l < w.r /\ w.l \in 1..Workers
    BY DEF Swaps
  <2> QED BY <2>1, PackingAssumption DEF Swaps
<1>2. q = [p EXCEPT ![l] = a, ![r] = b]
  <2>1. q = [p EXCEPT ![l] = [@ EXCEPT ![i] = p[r][j]], ![r] = [@ EXCEPT ![j] = p[l][i]]]
    BY Zenon DEF Swapped
  <2> HIDE DEF q, l, r, i, j
  <2> QED BY <1>1, <2>1
<1> HIDE DEF l, r, i, j, q
<1>3. /\ a \in [1..c -> 1..n] /\ a[i] = p[r][j] /\ \A k \in 1..c : k # i => a[k] = p[l][k]
      /\ b \in [1..c -> 1..n] /\ b[j] = p[l][i] /\ \A k \in 1..c : k # j => b[k] = p[r][k]
  BY <1>1
<1> HIDE DEF a, b
<1>4. /\ q \in [1..Workers -> [1..c -> 1..n]] /\ q[l] = a /\ q[r] = b
      /\ \A s \in 1..Workers : s # l /\ s # r => q[s] = p[s]
  BY <1>1, <1>2, <1>3
<1>5. \A s \in 1..Workers, k \in 1..c : (s # l \/ k # i) /\ (s # r \/ k # j) => q[s][k] = p[s][k]
  BY <1>1, <1>3, <1>4
<1> QED BY <1>3, <1>4, <1>5 DEF l, r, i, j, q, IsSwap

\* The parts stay even.
LEMMA SwappedEven ==
    ASSUME NEW n \in Nat, NEW c \in Nat, NEW p, EvenParts(p, c, n), NEW w \in Swaps(c)
    PROVE  EvenParts(Swapped(p, w), c, n)
<1> DEFINE q == Swapped(p, w)
           l == w.l
           r == w.r
           i == w.i
           j == w.j
<1>1. l \in 1..Workers /\ r \in 1..Workers /\ i \in 1..c /\ j \in 1..c
  BY DEF Swaps
<1>2. /\ p \in [1..Workers -> [1..c -> 1..n]]
      /\ \A s, t \in 1..Workers, k, m \in 1..c : p[s][k] = p[t][m] => s = t /\ k = m
      /\ \A x \in 1..n : \E s \in 1..Workers, k \in 1..c : p[s][k] = x
  BY DEF EvenParts
<1>3. /\ q \in [1..Workers -> [1..c -> 1..n]]
      /\ q[l][i] = p[r][j] /\ q[r][j] = p[l][i]
      /\ \A s \in 1..Workers, k \in 1..c : (s # l \/ k # i) /\ (s # r \/ k # j) => q[s][k] = p[s][k]
  <2>1. IsSwap(q, p, w, c, n)
    BY <1>2, SwappedAt, Zenon
  <2> HIDE DEF q
  <2> QED BY <2>1 DEF IsSwap
<1> HIDE DEF q, l, r, i, j
<1> DEFINE Changed(s, k) == (s = l /\ k = i) \/ (s = r /\ k = j)
<1>p. ASSUME NEW s \in 1..Workers, NEW t \in 1..Workers, NEW k \in 1..c, NEW m \in 1..c,
             p[s][k] = p[t][m]
      PROVE  s = t /\ k = m
  BY <1>2, <1>p
<1>s. ASSUME NEW s \in 1..Workers, NEW k \in 1..c, ~Changed(s, k)
      PROVE  q[s][k] = p[s][k] /\ p[s][k] # p[l][i] /\ p[s][k] # p[r][j]
  <2>1. q[s][k] = p[s][k]
    BY <1>3, <1>s
  <2>2. p[s][k] # p[l][i]
    BY <1>1, <1>p, <1>s
  <2>3. p[s][k] # p[r][j]
    BY <1>1, <1>p, <1>s
  <2> QED BY <2>1, <2>2, <2>3
<1>4. ASSUME NEW s \in 1..Workers, NEW t \in 1..Workers, NEW k \in 1..c, NEW m \in 1..c,
             q[s][k] = q[t][m]
      PROVE  s = t /\ k = m
  <2>1. CASE Changed(s, k) /\ Changed(t, m)
    <3>1. p[l][i] = p[r][j] => l = r /\ i = j
      BY <1>1, <1>p
    <3> QED BY <1>3, <1>4, <2>1, <3>1
  <2>2. CASE Changed(s, k) /\ ~Changed(t, m)
    BY <1>3, <1>4, <1>s, <2>2
  <2>3. CASE ~Changed(s, k) /\ Changed(t, m)
    BY <1>3, <1>4, <1>s, <2>3
  <2>4. CASE ~Changed(s, k) /\ ~Changed(t, m)
    <3>1. p[s][k] = p[t][m]
      BY <1>4, <1>s, <2>4
    <3> QED BY <1>p, <3>1
  <2> QED BY <2>1, <2>2, <2>3, <2>4
<1>5. ASSUME NEW x \in 1..n PROVE \E s \in 1..Workers, k \in 1..c : q[s][k] = x
  <2>1. PICK s \in 1..Workers, k \in 1..c : p[s][k] = x
    BY <1>2
  <2>2. CASE s = l /\ k = i
    BY <1>1, <1>3, <2>1, <2>2
  <2>3. CASE s = r /\ k = j
    BY <1>1, <1>3, <2>1, <2>3
  <2>4. CASE (s # l \/ k # i) /\ (s # r \/ k # j)
    BY <1>3, <2>1, <2>4
  <2> QED BY <2>2, <2>3, <2>4
<1>6. EvenParts(q, c, n)
  BY <1>3, <1>4, <1>5 DEF EvenParts
<1> QED BY <1>6 DEF q

\* Places of swaps differ.
LEMMA PlaceOf ==
    ASSUME NEW c \in Nat \ {0}
    PROVE  LET place(w) == ((w.l * Workers + w.r) * c + w.i) * c + w.j
           IN  /\ \A w \in Swaps(c) : place(w) \in Nat
               /\ \A v, w \in Swaps(c) : place(v) = place(w) => v = w
<1> DEFINE a(w) == w.l * Workers + w.r
           b(w) == a(w) * c + w.i
           place(w) == b(w) * c + w.j
<1>1. Workers \in Nat \ {0}
  BY PackingAssumption
<1>2. ASSUME NEW N \in Nat \ {0}, NEW x \in Nat, NEW y \in Nat, NEW i \in 1..N, NEW j \in 1..N
      PROVE  x * N + i \in Nat /\ (x * N + i = y * N + j => x = y /\ i = j)
  <2>1. x * N \in Nat /\ y * N \in Nat
    BY TimesNat
  <2> DEFINE k == i - 1
             m == j - 1
  <2>2. k \in 0..(N - 1) /\ m \in 0..(N - 1) /\ i = k + 1 /\ j = m + 1
    OBVIOUS
  <2> HIDE DEF k, m
  <2>3. (N * x + k) % N = k /\ (N * x + k) \div N = x /\ (N * y + m) % N = m /\ (N * y + m) \div N = y
    BY <2>2, DivModUnique
  <2>4. x * N = N * x /\ y * N = N * y
    OBVIOUS
  <2>5. x * N + i = y * N + j => N * x + k = N * y + m
    BY <2>1, <2>2, <2>4
  <2>6. x * N + i = y * N + j => x = y /\ k = m
    BY <2>3, <2>5, Zenon
  <2> QED BY <2>1, <2>2, <2>6
<1>3. ASSUME NEW w \in Swaps(c)
      PROVE  /\ w.l \in 1..Workers /\ w.r \in 1..Workers /\ w.i \in 1..c /\ w.j \in 1..c
             /\ w.l \in Nat /\ a(w) \in Nat /\ b(w) \in Nat /\ place(w) \in Nat
             /\ w = [l |-> w.l, r |-> w.r, i |-> w.i, j |-> w.j]
  <2>1. /\ w.l \in 1..Workers /\ w.r \in 1..Workers /\ w.i \in 1..c /\ w.j \in 1..c
        /\ w = [l |-> w.l, r |-> w.r, i |-> w.i, j |-> w.j]
    BY DEF Swaps
  <2>2. w.l \in Nat
    BY <2>1
  <2>3. a(w) \in Nat
    BY <1>1, <1>2, <2>1, <2>2
  <2> HIDE DEF a
  <2>4. b(w) \in Nat
    BY <1>2, <2>1, <2>3
  <2> HIDE DEF b
  <2>5. place(w) \in Nat
    BY <1>2, <2>1, <2>4
  <2> QED BY <2>1, <2>2, <2>3, <2>4, <2>5
<1>4. ASSUME NEW v \in Swaps(c), NEW w \in Swaps(c), place(v) = place(w) PROVE v = w
  <2>1. b(v) = b(w) /\ v.j = w.j
    <3> HIDE DEF b
    <3> QED BY <1>2, <1>3, <1>4
  <2>2. a(v) = a(w) /\ v.i = w.i
    <3> HIDE DEF a
    <3> QED BY <1>2, <1>3, <2>1
  <2>3. v.l = w.l /\ v.r = w.r
    <3> DEFINE x == v.l
               y == w.l
               m == v.r
               n == w.r
    <3>1. x \in Nat /\ y \in Nat /\ m \in 1..Workers /\ n \in 1..Workers
      BY <1>3
    <3>2. x * Workers + m = y * Workers + n
      BY <2>2
    <3> HIDE DEF x, y, m, n
    <3>3. x = y /\ m = n
      BY <1>1, <1>2, <3>1, <3>2
    <3> QED BY <3>3 DEF x, y, m, n
  <2> QED BY <1>3, <2>1, <2>2, <2>3
<1> QED BY <1>3, <1>4

\* The largest and the smallest load of a partition.
LEMMA ScoreType ==
    ASSUME NEW weights \in Seq(Nat), NEW c \in Nat,
           NEW p \in [1..Workers -> [1..c -> 1..Len(weights)]]
    PROVE  Score(weights, p)[1] \in Int /\ Score(weights, p)[2] \in Int
           /\ Score(weights, p) = <<Score(weights, p)[1], Score(weights, p)[2]>>
<1> DEFINE n == Len(weights)
           load(r) == Load(weights, p[r])
           loads == {load(r) : r \in 1..Workers}
<1>1. Score(weights, p) = <<Max(loads), Max(loads) - Min(loads)>>
  BY Zenon DEF Score
<1>2. ASSUME NEW r \in 1..Workers PROVE load(r) \in Nat
  <2> DEFINE q == p[r]
             v == [i \in 1..Len(q) |-> weights[q[i]]]
  <2>1. q \in [1..c -> 1..n]
    OBVIOUS
  <2>2. \A k \in 1..n : weights[k] \in Nat
    OBVIOUS
  <2> HIDE DEF q, n
  <2>3. Len(q) = c
    BY <2>1
  <2>4. v \in Seq(Nat)
    BY <2>1, <2>2, <2>3
  <2>5. SumSeq(v) \in Nat
    <3> HIDE DEF v
    <3> QED BY <2>4, SumSeqType
  <2> QED BY <2>5, Zenon DEF Load, v, q
<1> HIDE DEF load
<1>3. Workers \in Nat \ {0} /\ IsFiniteSet(1..Workers)
  BY PackingAssumption, UpTo1
<1>4. loads \in SUBSET Nat /\ loads # {}
  <2>1. load(1) \in loads
    BY <1>3
  <2> QED BY <1>2, <2>1
<1>5. IsFiniteSet(loads)
  <2> DEFINE f == [r \in 1..Workers |-> load(r)]
  <2>1. f \in Surjection(1..Workers, loads)
    BY DEF Surjection
  <2> HIDE DEF f, loads
  <2> QED BY <1>3, <2>1, FS_Surjection
<1> HIDE DEF loads
<1>6. PICK m \in loads : \A y \in loads : m >= y
  <2> DEFINE before == {w \in loads \X loads : w[1] > w[2]}
  <2>1. StrictOrder(loads, before)
    BY <1>4 DEF StrictOrder
  <2>2. PICK m \in loads : \A y \in loads \ {m} : <<m, y>> \in before
    <3> HIDE DEF before
    <3>1. HasFirst(loads, before)
      BY <1>4, <1>5, <2>1, FirstInOrder, Zenon
    <3> QED BY <3>1 DEF HasFirst
  <2>3. ASSUME NEW y \in loads PROVE m >= y
    <3>1. y = m \/ m > y
      BY <2>2
    <3> QED BY <1>4, <3>1
  <2> QED BY <2>3
<1>7. Max(loads) \in Nat
  <2>1. Max(loads) \in loads
    BY <1>6, Zenon DEF Max
  <2> QED BY <1>4, <2>1
<1>8. Min(loads) \in Nat
  <2>1. Min(loads) \in loads
    BY <1>4, MinOf
  <2> QED BY <1>4, <2>1
<1> DEFINE a == Max(loads)
           b == Min(loads)
<1> HIDE DEF a, b
<1>9. a \in Nat /\ b \in Nat /\ Score(weights, p) = <<a, a - b>>
  BY <1>1, <1>7, <1>8 DEF a, b, loads
<1> QED BY <1>9

\* Refining keeps the parts even.
LEMMA RefinedEven ==
    ASSUME NEW weights \in Seq(Nat), NEW c \in Nat \ {0}, NEW parts, EvenParts(parts, c, Len(weights))
    PROVE  EvenParts(RefineBySwapping(weights, parts), c, Len(weights))
<1> DEFINE m == Len(weights)
           n == Len(parts[1])
           P == [1..Workers -> [1..n -> 1..m]]
           swaps == {w \in [l : 1..Workers, r : 1..Workers, i : 1..n, j : 1..n] : w.l < w.r}
           place(w) == ((w.l * Workers + w.r) * n + w.i) * n + w.j
           score(p) == Score(weights, p)
           First(w, p) == \A v \in swaps \ {w} :
                       \/ Less(score(Swapped(p, w)), score(Swapped(p, v)))
                       \/ score(Swapped(p, w)) = score(Swapped(p, v)) /\ place(w) < place(v)
           best(p) == CHOOSE w \in swaps : First(w, p)
           next(p) == Swapped(p, best(p))
           lower(p) == Less(score(next(p)), score(p))
           rounds == (SumSeq(weights) + 1) * (SumSeq(weights) + 1)
           Solves(g) == g = [k \in 0..rounds |-> [p \in P |->
                                  IF k = 0 \/ swaps = {} \/ ~lower(p) THEN p ELSE g[k - 1][next(p)]]]
           u == CHOOSE g : Solves(g)
<1>1. RefineBySwapping(weights, parts) = u[rounds][parts]
  BY Zenon DEF RefineBySwapping
<1>2. n = c
  <2> DEFINE one == parts[1]
  <2>1. 1 \in 1..Workers
    BY PackingAssumption
  <2>2. one \in [1..c -> 1..m] /\ c \in Nat
    <3>1. parts \in [1..Workers -> [1..c -> 1..m]]
      BY DEF EvenParts
    <3> QED BY <2>1, <3>1
  <2> HIDE DEF one, m
  <2>3. Len(one) = c
    BY <2>2
  <2> QED BY <2>3 DEF one
<1>3. EvenParts(parts, n, m) /\ n \in Nat \ {0}
  BY <1>2
<1>4. rounds \in Nat /\ m \in Nat
  <2> DEFINE z == SumSeq(weights) + 1
  <2>1. z \in Nat
    BY SumSeqType
  <2> HIDE DEF z
  <2>2. z * z \in Nat
    BY <2>1, TimesNat
  <2>3. rounds \in Nat
    BY <2>2 DEF z
  <2> QED BY <2>3
<1> HIDE DEF n, rounds
<1>5. swaps = Swaps(n)
  BY DEF Swaps
<1>6. ASSUME NEW p \in P, swaps # {} PROVE best(p) \in swaps
  <2> DEFINE sc(w) == score(Swapped(p, w))
             a == [w \in swaps |-> sc(w)[1]]
             b == [w \in swaps |-> sc(w)[2]]
             o == [w \in swaps |-> place(w)]
             before == {w \in swaps \X swaps :
                          Less(sc(w[1]), sc(w[2])) \/ (sc(w[1]) = sc(w[2]) /\ place(w[1]) < place(w[2]))}
  <2>1. ASSUME NEW w \in swaps
        PROVE  a[w] \in Int /\ b[w] \in Int /\ sc(w) = <<a[w], b[w]>> /\ o[w] \in Nat
    <3>1. Swapped(p, w) \in P
      <4>1. IsSwap(Swapped(p, w), p, w, n, m)
        BY <1>3, <1>4, <1>5, SwappedAt
      <4> QED BY <4>1 DEF IsSwap
    <3>2. a[w] \in Int /\ b[w] \in Int /\ sc(w) = <<a[w], b[w]>>
      BY <1>3, <3>1, ScoreType
    <3>3. o[w] \in Nat
      BY <1>3, <1>5, PlaceOf
    <3> QED BY <3>2, <3>3
  <2>2. ASSUME NEW v \in swaps, NEW w \in swaps, o[v] = o[w] PROVE v = w
    BY <1>3, <1>5, <2>2, PlaceOf
  <2>3. IsFiniteSet(swaps)
    <3> DEFINE W == 1..Workers
               N == 1..n
               C == (W \X W) \X (N \X N)
               f == [w \in swaps |-> <<<<w.l, w.r>>, <<w.i, w.j>>>>]
    <3>1. IsFiniteSet(W) /\ IsFiniteSet(N)
      BY <1>3, UpTo1, PackingAssumption
    <3>2. \A w \in swaps : w.l \in W /\ w.r \in W /\ w.i \in N /\ w.j \in N
      OBVIOUS
    <3>3. \A v, w \in swaps : v.l = w.l /\ v.r = w.r /\ v.i = w.i /\ v.j = w.j => v = w
      <4>1. \A w \in swaps : w = [l |-> w.l, r |-> w.r, i |-> w.i, j |-> w.j]
        OBVIOUS
      <4> HIDE DEF swaps
      <4> QED BY <4>1
    <3> HIDE DEF swaps, W, N
    <3>4. IsFiniteSet(W \X W) /\ IsFiniteSet(N \X N)
      BY <3>1, FS_Product
    <3>5. IsFiniteSet(C)
      BY <3>4, FS_Product
    <3>6. f \in Injection(swaps, C)
      BY <3>2, <3>3 DEF Injection, IsInjective
    <3> HIDE DEF f, C
    <3> QED BY <3>5, <3>6, FS_Injection
  <2>4. \A v, w \in swaps : <<v, w>> \in before <=>
            (\/ a[v] < a[w] \/ (a[v] = a[w] /\ b[v] < b[w])
             \/ (<<a[v], b[v]>> = <<a[w], b[w]>> /\ o[v] < o[w]))
    <3> TAKE v, w \in swaps
    <3>1. <<v, w>> \in before <=> (Less(sc(v), sc(w)) \/ (sc(v) = sc(w) /\ o[v] < o[w]))
      BY Zenon
    <3> QED BY <2>1, <3>1 DEF Less
  <2> HIDE DEF a, b, o, before
  <2>5. \A v, w \in swaps : <<v, w>> \in before <=>
            (a[v] < a[w] \/ (a[v] = a[w] /\ (b[v] < b[w] \/ (b[v] = b[w] /\ o[v] < o[w]))))
    <3> HIDE DEF sc, swaps
    <3> QED BY <2>1, <2>4
  <2>6. StrictOrder(swaps, before)
    <3> HIDE DEF sc, swaps
    <3>1. \A v \in swaps : a[v] \in Int /\ b[v] \in Int /\ o[v] \in Int
      BY <2>1
    <3>2. ByKeys(swaps, a, b, o, before)
      BY <2>2, <2>5, <3>1 DEF ByKeys
    <3> QED BY <3>2, StrictByKeys, Zenon
  <2>7. PICK w \in swaps : \A v \in swaps \ {w} : <<w, v>> \in before
    <3>1. HasFirst(swaps, before)
      <4> HIDE DEF swaps
      <4> QED BY <1>6, <2>3, <2>6, FirstInOrder, Zenon
    <3> HIDE DEF swaps
    <3> QED BY <3>1 DEF HasFirst
  <2>8. First(w, p)
    BY <2>7 DEF before
  <2> HIDE DEF swaps, First
  <2> QED BY <2>8
<1> HIDE DEF best, swaps, lower
<1> DEFINE stops(p) == swaps = {} \/ ~lower(p)
           Round(v, p) == IF stops(p) THEN p ELSE v[next(p)]
           Stays(p, q) == EvenParts(p, n, m) => EvenParts(q, n, m)
           X == {v \in [P -> P] : \A p \in P : Stays(p, v[p])}
           base == [p \in P |-> p]
           Step(v) == [p \in P |-> Round(v, p)]
           step == [k \in 1..rounds |-> [v \in X |-> Step(v)]]
<1>7. ASSUME NEW p \in P, ~stops(p) PROVE next(p) \in P /\ Stays(p, next(p))
  <2>1. best(p) \in Swaps(n)
    BY <1>5, <1>6, <1>7
  <2>2. IsSwap(next(p), p, best(p), n, m)
    BY <1>3, <1>4, <2>1, SwappedAt
  <2>3. Stays(p, next(p))
    BY <1>3, <1>4, <2>1, SwappedEven
  <2> QED BY <2>2, <2>3 DEF IsSwap
<1>8. base \in X
  OBVIOUS
<1> HIDE DEF P, next
<1>9. ASSUME NEW v \in X PROVE Step(v) \in X
  <2>1. ASSUME NEW p \in P PROVE Round(v, p) \in P /\ Stays(p, Round(v, p))
    <3>1. CASE stops(p)
      BY <3>1
    <3>2. CASE ~stops(p)
      <4>1. next(p) \in P /\ Stays(p, next(p))
        BY <1>7, <3>2
      <4>2. v[next(p)] \in P /\ Stays(next(p), v[next(p)])
        BY <4>1
      <4>3. Round(v, p) = v[next(p)]
        BY <3>2
      <4> HIDE DEF Round
      <4> QED BY <4>1, <4>2, <4>3
    <3> QED BY <3>1, <3>2
  <2> HIDE DEF Round, Stays
  <2>2. Step(v) \in [P -> P] /\ \A p \in P : Stays(p, Step(v)[p])
    BY <2>1
  <2> QED BY <2>2
<1> HIDE DEF X, Step
<1>10. step \in StepMaps(rounds, X)
  BY <1>9 DEF StepMaps
<1>11. PICK f : f \in Recursions(rounds, X, base, step)
  <2> HIDE DEF step, base
  <2> QED BY <1>4, <1>8, <1>10, RecursionUpTo
<1> HIDE DEF base
<1>12. f \in [0..rounds -> X] /\ f[0] = base /\ \A k \in 1..rounds : f[k] = Step(f[k - 1])
  <2>1. f \in [0..rounds -> X] /\ f[0] = base /\ \A k \in 1..rounds : f[k] = step[k][f[k - 1]]
    <3> HIDE DEF step
    <3> QED BY <1>11 DEF Recursions
  <2>2. \A k \in 1..rounds : k - 1 \in 0..rounds
    BY <1>4
  <2>3. \A k \in 1..rounds : f[k - 1] \in X
    BY <2>1, <2>2
  <2> QED BY <2>1, <2>3
<1>13. \A k \in 0..rounds : k = 0 \/ (k \in 1..rounds /\ k - 1 \in 0..rounds /\ k # 0)
  BY <1>4
<1>14. 0 \in 0..rounds /\ rounds \in 0..rounds /\ \A k \in 1..rounds : k \in 0..rounds /\ k # 0
  BY <1>4
<1>15. \A g, k : [p \in P |-> IF k = 0 \/ swaps = {} \/ ~lower(p) THEN p ELSE g[k - 1][next(p)]]
                   = IF k = 0 THEN base ELSE Step(g[k - 1])
  <2> TAKE g, k
  <2>1. CASE k = 0
    BY <2>1 DEF base
  <2>2. CASE k # 0
    BY <2>2 DEF Step
  <2> QED BY <2>1, <2>2
<1> DEFINE Solved(g) == g = [k \in 0..rounds |-> IF k = 0 THEN base ELSE Step(g[k - 1])]
<1>16. \A g : Solves(g) <=> Solved(g)
  <2> TAKE g
  <2>1. [k \in 0..rounds |->
            [p \in P |-> IF k = 0 \/ swaps = {} \/ ~lower(p) THEN p ELSE g[k - 1][next(p)]]]
          = [k \in 0..rounds |-> IF k = 0 THEN base ELSE Step(g[k - 1])]
    BY <1>15
  <2> QED BY <2>1
<1> HIDE DEF Solves
<1>17. Solved(f)
  <2>1. f = [k \in 0..rounds |-> f[k]]
    BY <1>12
  <2>2. \A k \in 0..rounds : f[k] = IF k = 0 THEN base ELSE Step(f[k - 1])
    BY <1>12, <1>13
  <2> QED BY <2>1, <2>2
<1> HIDE DEF Solved
<1>18. Solved(u)
  <2>1. Solves(f)
    BY <1>16, <1>17
  <2>2. Solves(u)
    BY <2>1
  <2> HIDE DEF u
  <2> QED BY <1>16, <2>2
<1> HIDE DEF u
<1>19. u = [k \in 0..rounds |-> u[k]] /\ u[0] = base /\ \A k \in 1..rounds : u[k] = Step(u[k - 1])
  BY <1>14, <1>18 DEF Solved
<1>20. u \in Recursions(rounds, X, base, step)
  <2>1. \A k \in 1..rounds : u[k - 1] \in X => u[k] = step[k][u[k - 1]]
    BY <1>19
  <2> HIDE DEF step
  <2> QED BY <1>4, <1>8, <1>10, <1>19, <2>1, SameRecursion
<1>21. u[rounds] \in X
  <2> HIDE DEF step
  <2> QED BY <1>14, <1>20 DEF Recursions
<1>22. parts \in P
  BY <1>3 DEF P, EvenParts
<1>23. Stays(parts, u[rounds][parts])
  <2> HIDE DEF Stays
  <2> QED BY <1>21, <1>22 DEF X
<1> QED BY <1>1, <1>2, <1>3, <1>23

\* So is the partition balanced_partition makes, of any weights: parts of one
\* size that hold every index exactly once, whatever is merged or swapped.
THEOREM BalancedIs ==
    ASSUME NEW weights \in Seq(Nat), weights # <<>>, Len(weights) % Workers = 0
    PROVE  AnEvenParts(BalancedPartition(weights), Len(weights))
<1>1. PICK c \in Nat \ {0} : EvenParts(KarmarkarKarp(weights), c, Len(weights))
  BY KarmarkarKarpIs DEF AnEvenParts
<1>2. EvenParts(BalancedPartition(weights), c, Len(weights))
  BY <1>1, RefinedEven DEF BalancedPartition
<1> QED BY <1>2 DEF AnEvenParts

-----------------------------------------------------------------------------
(* Groups of one modality, padded and dealt out                            *)

\* A micro batch of samples of S, as prepare_batch makes it.
Batch(mb, S) ==
    /\ mb = MicroBatch(mb.samples) /\ GoodBin(mb.samples, S)

\* Its cost is a natural, and its lengths add up to a multiple of PadTo.
LEMMA BatchCost ==
    ASSUME NEW S, Pieces(S), NEW mb, mb.samples \in Seq(S), mb.pad = (-Length(mb.samples)) % PadTo
    PROVE  BinCost(SequenceLengths(mb)) \in Nat /\ SumSeq(SequenceLengths(mb)) % PadTo = 0
<1> DEFINE n == Length(mb.samples)
           k == mb.pad
           a == Sizes(mb.samples)
           s == SequenceLengths(mb)
<1>1. n \in Nat /\ PadTo \in Nat \ {0}
  BY LengthIs, PackingAssumption
<1>2. a \in Seq(Nat) /\ SumSeq(a) = n
  <2>1. IsImage(Image(SizeOf(S), mb.samples), SizeOf(S), mb.samples)
    BY LengthIs, ImageParts
  <2>2. a = Image(SizeOf(S), mb.samples)
    <3>1. \A i \in 1..Len(mb.samples) : mb.samples[i] \in S
      OBVIOUS
    <3> QED BY <3>1 DEF Sizes, Image, SizeOf
  <2> QED BY <2>1, <2>2, Zenon DEF IsImage, Length
<1> HIDE DEF n, k, a
<1>3. k = (-n) % PadTo
  BY DEF n, k
<1>4. k \in Nat /\ (n + k) % PadTo = 0
  <2> DEFINE q == (-n) \div PadTo
  <2>1. -n = PadTo * q + k /\ k \in 0..(PadTo - 1) /\ q \in Int
    BY <1>1, <1>3
  <2> HIDE DEF q
  <2>2. q <= 0
    <3>1. ASSUME q >= 1 PROVE FALSE
      <4>1. PadTo * q >= PadTo
        BY <1>1, <2>1, <3>1
      <4> QED BY <1>1, <2>1, <4>1
    <3> QED BY <2>1, <3>1
  <2> DEFINE p == -q
  <2>3. p \in Nat /\ n + k = PadTo * p + 0
    BY <1>1, <2>1, <2>2
  <2> HIDE DEF p
  <2>4. (PadTo * p + 0) % PadTo = 0
    <3>1. 0 \in 0..(PadTo - 1)
      BY <1>1
    <3> QED BY <1>1, <2>3, <3>1, DivModUnique
  <2> QED BY <2>1, <2>3, <2>4
<1>5. s = a \o (IF k > 0 THEN <<k>> ELSE <<>>)
  BY DEF SequenceLengths, a, k
<1>6. CASE k > 0
  <2>1. <<k>> \in Seq(Nat) /\ SumSeq(<<k>>) = k
    BY <1>4, SumSeqOne
  <2>2. s = a \o <<k>>
    BY <1>5, <1>6
  <2>3. s \in Seq(Nat) /\ SumSeq(s) = n + k
    <3>1. s \in Seq(Nat)
      BY <1>2, <2>1, <2>2
    <3>2. SumSeq(a \o <<k>>) = SumSeq(a) + SumSeq(<<k>>)
      BY <1>2, <2>1, SumSeqConcat, Zenon
    <3> QED BY <1>2, <2>1, <2>2, <3>1, <3>2
  <2> QED BY <1>4, <2>3, CostNat
<1>7. CASE k = 0
  <2>1. s = a
    BY <1>2, <1>5, <1>7, ConcatEmptySeq
  <2>2. SumSeq(s) = n + k
    BY <1>1, <1>2, <1>7, <2>1
  <2> QED BY <1>2, <1>4, <2>1, <2>2, CostNat
<1> QED BY <1>4, <1>6, <1>7

\* Every number of the group in one place of the grid.
Spreads(grid, group) ==
    \E c, parts :
        /\ c \in Nat \ {0} /\ EvenParts(parts, c, Len(group))
        /\ grid = [r \in 1..Workers |-> [i \in 1..c |-> group[parts[r][i]]]]

\* So a group of a multiple of Workers micro batches is distributed.
LEMMA DistributeIs ==
    ASSUME NEW M, NEW group \in Seq(M), group # <<>>, Len(group) % Workers = 0,
           \A mb \in M : BinCost(SequenceLengths(mb)) \in Nat
    PROVE  Spreads(DistributeGroup(group), group)
<1> DEFINE cost(i) == BinCost(SequenceLengths(group[i]))
           raw == [i \in 1..Len(group) |-> cost(i)]
           weights == Computed(raw)
           parts == BalancedPartition(weights)
<1>1. DistributeGroup(group)
        = [r \in 1..Workers |-> [i \in 1..Len(parts[r]) |-> group[parts[r][i]]]]
  BY Zenon DEF DistributeGroup
<1>2. \A i \in 1..Len(group) : cost(i) \in Nat
  BY ElementOfSeq
<1> HIDE DEF cost
<1>3. raw \in Seq(Nat) /\ Len(raw) = Len(group)
  BY <1>2
<1> HIDE DEF raw
<1>4. weights = raw
  BY <1>3, ComputedIs
<1>5. weights \in Seq(Nat) /\ Len(weights) = Len(group) /\ weights # <<>>
  BY <1>3, <1>4
<1> HIDE DEF weights
<1>6. PICK c \in Nat \ {0} : EvenParts(parts, c, Len(group))
  BY <1>5, BalancedIs DEF AnEvenParts
<1> HIDE DEF parts
<1>7. \A r \in 1..Workers : Len(parts[r]) = c
  <2>1. parts \in [1..Workers -> [1..c -> 1..Len(group)]] /\ c \in Nat
    BY <1>6 DEF EvenParts
  <2> DEFINE m == Len(group)
  <2> HIDE DEF m
  <2>2. \A r \in 1..Workers : parts[r] \in [1..c -> 1..m]
    BY <2>1 DEF m
  <2>3. \A q \in [1..c -> 1..m] : Len(q) = c
    BY <2>1
  <2> QED BY <2>2, <2>3
<1>8. DistributeGroup(group) = [r \in 1..Workers |-> [i \in 1..c |-> group[parts[r][i]]]]
  BY <1>1, <1>7
<1> QED BY <1>6, <1>8 DEF Spreads

\* Rounding up to a multiple of Workers.
LEMMA RoundUpIs ==
    ASSUME NEW n \in Nat
    PROVE  RoundUp(n) \in Nat /\ RoundUp(n) >= n /\ RoundUp(n) % Workers = 0
<1> DEFINE W == Workers
           m == n + W - 1
           q == m \div W
<1>1. W \in Nat \ {0} /\ m \in Nat
  BY PackingAssumption
<1> HIDE DEF W
<1>2. m = W * q + (m % W) /\ m % W \in 0..(W - 1) /\ q \in Nat
  <2> HIDE DEF m
  <2> QED BY <1>1, DivMod
<1>3. RoundUp(n) = q * W
  BY DEF RoundUp, W
<1> HIDE DEF q
<1>4. q * W = W * q + 0 /\ W * q \in Nat
  BY <1>1, <1>2
<1>5. (W * q + 0) % W = 0
  <2>1. 0 \in 0..(W - 1)
    BY <1>1
  <2> QED BY <1>1, <1>2, <2>1, DivModUnique
<1>6. W * q >= n
  <2> DEFINE x == W * q
             y == m % W
  <2>1. x \in Nat /\ y \in 0..(W - 1) /\ n + W - 1 = x + y
    BY <1>2, <1>4
  <2> HIDE DEF x, y
  <2>2. x >= n
    BY <1>1, <2>1
  <2> QED BY <2>2 DEF x
<1>7. RoundUp(n) = W * q
  BY <1>3, <1>4
<1> HIDE DEF m
<1> QED BY <1>4, <1>5, <1>6, <1>7 DEF W

\* The copy of a micro batch without loss.
Dummy(mb) == [mb EXCEPT !.dummy = TRUE]

\* Micro batches that hold the samples S, each once.
Holds(B, S) ==
    /\ \A mb \in B : Batch(mb, S)
    /\ \A mb, nb \in B : mb # nb => ToSet(mb.samples) \cap ToSet(nb.samples) = {}
    /\ \A x \in S : \E mb \in B : x \in ToSet(mb.samples)

\* A grid of the micro batches B, each once, and of dummies of theirs, with c
\* for each rank and one modality at each index.
Dealt(grid, B, c) ==
    /\ c \in Nat /\ grid \in [1..Workers -> Seq(B \cup {Dummy(mb) : mb \in B})]
    /\ \A r \in 1..Workers : Len(grid[r]) = c
    /\ \A mb \in B : \E r \in 1..Workers, i \in 1..c : grid[r][i] = mb
    /\ \A r, s \in 1..Workers, i, j \in 1..c :
          grid[r][i] \in B /\ grid[r][i] = grid[s][j] => r = s /\ i = j
    /\ \A r, s \in 1..Workers, i \in 1..c :
          Multimodal(grid[r][i].samples[1]) = Multimodal(grid[s][i].samples[1])

\* A grid that trains the samples S.
Deals(grid, S) == \E B, c : Holds(B, S) /\ Dealt(grid, B, c)

\* What a micro batch and its dummy look like.
LEMMA BatchIs ==
    ASSUME NEW S, NEW mb, Batch(mb, S)
    PROVE  /\ mb.dummy = FALSE /\ Dummy(mb).dummy = TRUE
           /\ mb.pad = (-Length(mb.samples)) % PadTo
           /\ Dummy(mb).samples = mb.samples /\ Dummy(mb).pad = mb.pad
           /\ mb.samples \in Seq(S) /\ mb.samples # <<>> /\ IsInjective(mb.samples)
           /\ mb.samples[1] \in ToSet(mb.samples)
<1>1. mb = [samples |-> mb.samples, pad |-> (-Length(mb.samples)) % PadTo, dummy |-> FALSE]
  BY DEF Batch, MicroBatch
<1>2. /\ mb.dummy = FALSE /\ Dummy(mb).dummy = TRUE
      /\ mb.pad = (-Length(mb.samples)) % PadTo
      /\ Dummy(mb).samples = mb.samples /\ Dummy(mb).pad = mb.pad
  BY <1>1 DEF Dummy
<1>3. mb.samples \in Seq(S) /\ mb.samples # <<>> /\ IsInjective(mb.samples)
  BY DEF Batch, GoodBin
<1>4. mb.samples[1] \in ToSet(mb.samples)
  BY <1>3 DEF ToSet
<1> QED BY <1>2, <1>3, <1>4

\* A group of one modality is dealt, padded with dummies.
LEMMA GroupDealt ==
    ASSUME NEW S, Pieces(S), NEW B, \A mb \in B : Batch(mb, S),
           NEW group \in Seq(B), IsInjective(group), ToSet(group) = B,
           \A mb, nb \in B : Multimodal(mb.samples[1]) = Multimodal(nb.samples[1])
    PROVE  \E c : Dealt(DistributeGroup(PadGroup(group)), B, c)
<1> DEFINE M == B \cup {Dummy(mb) : mb \in B}
           n == Len(group)
           k == RoundUp(n) - n
           dummies == [i \in 1..k |-> Dummy(group[1])]
           padded == PadGroup(group)
           grid == DistributeGroup(padded)
<1>1. CASE group = <<>>
  <2>1. padded = <<>>
    BY <1>1, Zenon DEF PadGroup
  <2>2. grid = [r \in 1..Workers |-> <<>>]
    <3> HIDE DEF padded
    <3> QED BY <2>1, Zenon DEF DistributeGroup
  <2>3. B = {}
    BY <1>1 DEF ToSet
  <2>4. Dealt([r \in 1..Workers |-> <<>>], B, 0)
    BY <2>3 DEF Dealt
  <2> QED BY <2>2, <2>4
<1>2. CASE group # <<>>
  <2>1. n \in Nat \ {0} /\ k \in Nat /\ n + k = RoundUp(n) /\ RoundUp(n) % Workers = 0
    <3>1. n \in Nat \ {0}
      BY <1>2
    <3> HIDE DEF n
    <3>2. RoundUp(n) \in Nat /\ RoundUp(n) >= n /\ RoundUp(n) % Workers = 0
      BY <3>1, RoundUpIs
    <3> QED BY <3>1, <3>2
  <2>2. padded = group \o dummies
    BY <1>2, Zenon DEF PadGroup, Dummy
  <2> HIDE DEF k, padded
  <2>3. \A i \in 1..n : group[i] \in B
    OBVIOUS
  <2>4. group[1] \in B
    BY <2>1, <2>3
  <2>5. dummies \in Seq(M) /\ Len(dummies) = k /\ \A i \in 1..k : dummies[i] = Dummy(group[1])
    BY <2>1, <2>4
  <2>6. group \in Seq(M)
    BY <2>3
  <2> HIDE DEF dummies, M
  <2>7. IsConcat(padded, group, dummies, M)
    BY <2>2, <2>5, <2>6, ConcatIs, Zenon
  <2>8. /\ padded \in Seq(M) /\ Len(padded) = n + k /\ padded # <<>>
        /\ \A i \in 1..n : padded[i] = group[i]
        /\ \A i \in 1..k : padded[n + i] = Dummy(group[1])
    <3>1. padded \in Seq(M) /\ Len(padded) = n + k
      BY <2>5, <2>7 DEF IsConcat
    <3>2. \A i \in 1..n : padded[i] = group[i]
      BY <2>7, Zenon DEF IsConcat
    <3>3. \A i \in 1..k : padded[n + i] = Dummy(group[1])
      BY <2>5, <2>7, Zenon DEF IsConcat
    <3>4. padded # <<>>
      BY <2>1, <3>1
    <3> QED BY <3>1, <3>2, <3>3, <3>4
  <2>9. ASSUME NEW mb \in M
        PROVE  /\ BinCost(SequenceLengths(mb)) \in Nat
               /\ \E nb \in B : mb.samples = nb.samples
    <3>1. PICK nb \in B : mb = nb \/ mb = Dummy(nb)
      BY DEF M
    <3>2. mb.samples = nb.samples /\ mb.samples \in Seq(S) /\ mb.pad = (-Length(mb.samples)) % PadTo
      BY <3>1, BatchIs
    <3> QED BY <3>2, BatchCost
  <2>10. Spreads(grid, padded)
    BY <2>1, <2>8, <2>9, DistributeIs
  <2>11. PICK c, parts :
             /\ c \in Nat \ {0}
             /\ EvenParts(parts, c, n + k)
             /\ grid = [r \in 1..Workers |-> [i \in 1..c |-> padded[parts[r][i]]]]
    BY <2>8, <2>10 DEF Spreads
  <2> HIDE DEF grid
  <2>12. /\ \A r \in 1..Workers, i \in 1..c : parts[r][i] \in 1..(n + k)
         /\ \A r, s \in 1..Workers, i, j \in 1..c : parts[r][i] = parts[s][j] => r = s /\ i = j
         /\ \A x \in 1..(n + k) : \E r \in 1..Workers, i \in 1..c : parts[r][i] = x
    BY <2>11, SMTT(30) DEF EvenParts
  <2>13. \A r \in 1..Workers, i \in 1..c : grid[r][i] = padded[parts[r][i]]
    BY <2>11
  <2>14. \A x \in 1..(n + k) : padded[x] \in M /\ (padded[x] \in B => x \in 1..n)
    <3> TAKE x \in 1..(n + k)
    <3>1. CASE x \in 1..n
      BY <2>3, <2>8, <3>1 DEF M
    <3>2. CASE x \notin 1..n
      <4> DEFINE i == x - n
      <4>1. i \in 1..k /\ x = n + i
        BY <2>1, <3>2
      <4> HIDE DEF i
      <4>2. padded[x] = Dummy(group[1])
        BY <2>8, <4>1
      <4>3. padded[x].dummy = TRUE
        BY <2>4, <4>2, BatchIs
      <4>4. padded[x] \notin B
        BY <4>3, BatchIs
      <4> QED BY <2>4, <4>2, <4>4 DEF M
    <3> QED BY <3>1, <3>2
  <2>15. \A x, y \in 1..n : padded[x] = padded[y] => x = y
    BY <2>8 DEF IsInjective
  <2>16. grid \in [1..Workers -> Seq(M)] /\ \A r \in 1..Workers : Len(grid[r]) = c
    <3> DEFINE row(r) == [i \in 1..c |-> padded[parts[r][i]]]
    <3>1. \A r \in 1..Workers : row(r) \in Seq(M) /\ Len(row(r)) = c
      <4>1. c \in Nat
        BY <2>11
      <4>2. \A r \in 1..Workers, i \in 1..c : padded[parts[r][i]] \in M
        BY <2>12, <2>14
      <4> HIDE DEF M
      <4> QED BY <4>1, <4>2
    <3>2. grid = [r \in 1..Workers |-> row(r)]
      BY <2>11
    <3> HIDE DEF row
    <3> QED BY <3>1, <3>2
  <2>17. ASSUME NEW mb \in B PROVE \E r \in 1..Workers, i \in 1..c : grid[r][i] = mb
    <3>1. PICK x \in 1..n : group[x] = mb
      BY DEF ToSet
    <3>2. x \in 1..(n + k) /\ padded[x] = mb
      BY <2>1, <2>8, <3>1
    <3> QED BY <2>12, <2>13, <3>2
  <2>18. ASSUME NEW r \in 1..Workers, NEW s \in 1..Workers, NEW i \in 1..c, NEW j \in 1..c,
                grid[r][i] \in B, grid[r][i] = grid[s][j]
         PROVE  r = s /\ i = j
    <3> DEFINE x == parts[r][i]
               y == parts[s][j]
    <3>1. x \in 1..(n + k) /\ y \in 1..(n + k) /\ padded[x] \in B /\ padded[x] = padded[y]
      BY <2>12, <2>13, <2>18
    <3> HIDE DEF x, y
    <3>2. x = y
      BY <2>14, <2>15, <3>1
    <3> QED BY <2>12, <3>2 DEF x, y
  <2>19. ASSUME NEW r \in 1..Workers, NEW s \in 1..Workers, NEW i \in 1..c
         PROVE  Multimodal(grid[r][i].samples[1]) = Multimodal(grid[s][i].samples[1])
    <3> DEFINE x == parts[r][i]
               y == parts[s][i]
    <3>1. x \in 1..(n + k) /\ y \in 1..(n + k) /\ grid[r][i] = padded[x] /\ grid[s][i] = padded[y]
      BY <2>12, <2>13
    <3> HIDE DEF x, y
    <3>2. padded[x] \in M /\ padded[y] \in M
      BY <2>14, <3>1
    <3>3. PICK mb \in B : padded[x].samples = mb.samples
      BY <2>9, <3>2
    <3>4. PICK nb \in B : padded[y].samples = nb.samples
      BY <2>9, <3>2
    <3> QED BY <3>1, <3>3, <3>4
  <2>20. Dealt(grid, B, c)
    <3>1. c \in Nat
      BY <2>11
    <3>2. grid \in [1..Workers -> Seq(B \cup {Dummy(mb) : mb \in B})]
      BY <2>16, Zenon DEF M
    <3> QED BY <2>16, <2>17, <2>18, <2>19, <3>1, <3>2, Zenon DEF Dealt
  <2> QED BY <2>20 DEF grid, padded
<1> QED BY <1>1, <1>2

-----------------------------------------------------------------------------
(* Grids one after the other                                               *)

\* No micro batch of B is a dummy.
Real(B) == \A mb \in B : mb.dummy = FALSE /\ Dummy(mb).dummy = TRUE

\* A grid followed by another one.
Joined(g, h) == [r \in 1..Workers |-> g[r] \o h[r]]

\* Grids with different micro batches, one after the other.
LEMMA DealtConcat ==
    ASSUME NEW g, NEW B, NEW c, Dealt(g, B, c), Real(B),
           NEW h, NEW C, NEW d, Dealt(h, C, d), Real(C), B \cap C = {}
    PROVE  Dealt(Joined(g, h), B \cup C, c + d)
<1> DEFINE Dum(X) == {Dummy(mb) : mb \in X}
           M == (B \cup C) \cup Dum(B \cup C)
           grid == Joined(g, h)
<1>1. c \in Nat /\ d \in Nat
  BY DEF Dealt
<1>2. ASSUME NEW r \in 1..Workers
      PROVE  /\ grid[r] \in Seq(M) /\ Len(grid[r]) = c + d
             /\ \A i \in 1..c : grid[r][i] = g[r][i] /\ g[r][i] \in B \cup Dum(B)
             /\ \A i \in 1..d : grid[r][c + i] = h[r][i] /\ h[r][i] \in C \cup Dum(C)
  <2> DEFINE s == g[r]
             t == h[r]
             u == s \o t
  <2>1. s \in Seq(B \cup Dum(B)) /\ Len(s) = c
    BY DEF Dealt
  <2>2. t \in Seq(C \cup Dum(C)) /\ Len(t) = d
    BY DEF Dealt
  <2>3. grid[r] = u
    BY DEF Joined
  <2> HIDE DEF s, t, Dum, grid
  <2>4. \A i \in 1..c : s[i] \in B \cup Dum(B)
    BY <2>1, ElementOfSeq
  <2>5. \A i \in 1..d : t[i] \in C \cup Dum(C)
    BY <2>2, ElementOfSeq
  <2>6. B \cup Dum(B) \subseteq M /\ C \cup Dum(C) \subseteq M
    BY DEF Dum
  <2>7. s \in Seq(M) /\ t \in Seq(M)
    <3> HIDE DEF M
    <3>1. \A i \in 1..c : s[i] \in M
      BY <2>4, <2>6
    <3>2. \A i \in 1..d : t[i] \in M
      BY <2>5, <2>6
    <3>3. s \in Seq(M)
      BY <2>1, <3>1
    <3> QED BY <2>2, <3>2, <3>3
  <2>8. IsConcat(u, s, t, M)
    BY <2>7, ConcatIs, Zenon
  <2>9. u \in Seq(M) /\ Len(u) = c + d
    BY <2>1, <2>2, <2>8 DEF IsConcat
  <2>10. (\A i \in 1..c : u[i] = s[i]) /\ \A i \in 1..d : u[c + i] = t[i]
    BY <2>1, <2>2, <2>8, Zenon DEF IsConcat
  <2> QED BY <2>3, <2>4, <2>5, <2>9, <2>10 DEF s, t
<1>3. grid = [r \in 1..Workers |-> grid[r]]
  BY DEF Joined
<1> HIDE DEF grid, Dum
<1>4. /\ \A mb \in Dum(B) : mb \notin B \cup C
      /\ \A mb \in Dum(C) : mb \notin B \cup C
  BY DEF Real, Dum
<1>5. /\ \A mb \in B : \E r \in 1..Workers, i \in 1..c : g[r][i] = mb
      /\ \A r, s \in 1..Workers, i, j \in 1..c : g[r][i] \in B /\ g[r][i] = g[s][j] => r = s /\ i = j
      /\ \A r, s \in 1..Workers, i \in 1..c :
            Multimodal(g[r][i].samples[1]) = Multimodal(g[s][i].samples[1])
  BY DEF Dealt
<1>6. /\ \A mb \in C : \E r \in 1..Workers, i \in 1..d : h[r][i] = mb
      /\ \A r, s \in 1..Workers, i, j \in 1..d : h[r][i] \in C /\ h[r][i] = h[s][j] => r = s /\ i = j
      /\ \A r, s \in 1..Workers, i \in 1..d :
            Multimodal(h[r][i].samples[1]) = Multimodal(h[s][i].samples[1])
  BY DEF Dealt
<1>7. \A i \in 1..(c + d) : i \in 1..c \/ \E k \in 1..d : i = c + k
  <2> TAKE i \in 1..(c + d)
  <2>1. i \in 1..c \/ i - c \in 1..d
    BY <1>1
  <2>2. i = c + (i - c)
    BY <1>1
  <2> QED BY <2>1, <2>2
<1>8. (\A i \in 1..c : i \in 1..(c + d)) /\ \A i \in 1..d : c + i \in 1..(c + d)
  BY <1>1
<1>9. grid \in [1..Workers -> Seq(M)] /\ \A r \in 1..Workers : Len(grid[r]) = c + d
  <2> HIDE DEF M
  <2> QED BY <1>2, <1>3
<1>10. ASSUME NEW mb \in B \cup C PROVE \E r \in 1..Workers, i \in 1..(c + d) : grid[r][i] = mb
  BY <1>2, <1>5, <1>6, <1>8
<1>11. ASSUME NEW r \in 1..Workers, NEW s \in 1..Workers, NEW i \in 1..(c + d), NEW j \in 1..(c + d),
              grid[r][i] \in B \cup C, grid[r][i] = grid[s][j]
       PROVE  r = s /\ i = j
  <2>1. CASE i \in 1..c /\ j \in 1..c
    <3>1. g[r][i] \in B /\ g[r][i] = g[s][j]
      BY <1>2, <1>4, <1>11, <2>1
    <3> QED BY <1>5, <2>1, <3>1
  <2>2. CASE i \in 1..c /\ j \notin 1..c
    <3>1. PICK k \in 1..d : j = c + k
      BY <1>7, <2>2
    <3>2. g[r][i] \in B /\ h[s][k] \in C /\ g[r][i] = h[s][k]
      BY <1>2, <1>4, <1>11, <2>2, <3>1
    <3> QED BY <3>2
  <2>3. CASE i \notin 1..c /\ j \in 1..c
    <3>1. PICK k \in 1..d : i = c + k
      BY <1>7, <2>3
    <3>2. g[s][j] \in B /\ h[r][k] \in C /\ g[s][j] = h[r][k]
      BY <1>2, <1>4, <1>11, <2>3, <3>1
    <3> QED BY <3>2
  <2>4. CASE i \notin 1..c /\ j \notin 1..c
    <3>1. PICK k \in 1..d : i = c + k
      BY <1>7, <2>4
    <3>2. PICK l \in 1..d : j = c + l
      BY <1>7, <2>4
    <3>3. h[r][k] \in C /\ h[r][k] = h[s][l]
      BY <1>2, <1>4, <1>11, <3>1, <3>2
    <3> QED BY <1>6, <3>1, <3>2, <3>3
  <2> QED BY <2>1, <2>2, <2>3, <2>4
<1>12. ASSUME NEW r \in 1..Workers, NEW s \in 1..Workers, NEW i \in 1..(c + d)
       PROVE  Multimodal(grid[r][i].samples[1]) = Multimodal(grid[s][i].samples[1])
  <2>1. CASE i \in 1..c
    <3>1. grid[r][i] = g[r][i] /\ grid[s][i] = g[s][i]
      BY <1>2, <2>1
    <3> QED BY <1>5, <2>1, <3>1
  <2>2. CASE i \notin 1..c
    <3>1. PICK k \in 1..d : i = c + k
      BY <1>7, <2>2
    <3>2. grid[r][i] = h[r][k] /\ grid[s][i] = h[s][k]
      BY <1>2, <3>1
    <3> QED BY <1>6, <3>2
  <2> QED BY <2>1, <2>2
<1>13. c + d \in Nat
  BY <1>1
<1> QED BY <1>9, <1>10, <1>11, <1>12, <1>13 DEF Dealt, grid, Dum

\* Nothing to train.
LEMMA DealsEmpty == Deals([r \in 1..Workers |-> <<>>], {})
<1>1. Holds({}, {}) /\ Dealt([r \in 1..Workers |-> <<>>], {}, 0)
  BY DEF Holds, Dealt
<1> QED BY <1>1 DEF Deals

\* Grids that train different samples, one after the other.
LEMMA DealsConcat ==
    ASSUME NEW g, NEW S, Deals(g, S), NEW h, NEW T, Deals(h, T), S \cap T = {}
    PROVE  Deals(Joined(g, h), S \cup T)
<1>1. PICK B, c : Holds(B, S) /\ Dealt(g, B, c)
  BY DEF Deals
<1>2. PICK C, d : Holds(C, T) /\ Dealt(h, C, d)
  BY DEF Deals
<1>3. Real(B) /\ Real(C)
  BY <1>1, <1>2, BatchIs DEF Real, Holds
<1>4. \A mb, U : Batch(mb, U) => ToSet(mb.samples) \subseteq U /\ ToSet(mb.samples) # {}
  <2> TAKE mb, U
  <2> HAVE Batch(mb, U)
  <2>1. mb.samples \in Seq(U) /\ mb.samples[1] \in ToSet(mb.samples)
    BY BatchIs
  <2> QED BY <2>1, ToSetSeq
<1>5. \A mb \in B, nb \in C : ToSet(mb.samples) \cap ToSet(nb.samples) = {}
  BY <1>1, <1>2, <1>4 DEF Holds
<1>6. B \cap C = {}
  BY <1>1, <1>4, <1>5 DEF Holds
<1>7. Dealt(Joined(g, h), B \cup C, c + d)
  BY <1>1, <1>2, <1>3, <1>6, DealtConcat
<1>8. Holds(B \cup C, S \cup T)
  <2>1. ASSUME NEW mb, Batch(mb, S) \/ Batch(mb, T) PROVE Batch(mb, S \cup T)
    <3>1. mb.samples \in Seq(S) \/ mb.samples \in Seq(T)
      BY <2>1 DEF Batch, GoodBin
    <3>2. mb.samples \in Seq(S \cup T)
      BY <3>1
    <3> QED BY <2>1, <3>2 DEF Batch, GoodBin
  <2>2. \A mb \in B \cup C : Batch(mb, S \cup T)
    BY <1>1, <1>2, <2>1 DEF Holds
  <2>3. \A mb, nb \in B \cup C : mb # nb => ToSet(mb.samples) \cap ToSet(nb.samples) = {}
    BY <1>1, <1>2, <1>5 DEF Holds
  <2>4. \A x \in S \cup T : \E mb \in B \cup C : x \in ToSet(mb.samples)
    BY <1>1, <1>2 DEF Holds
  <2> QED BY <2>2, <2>3, <2>4 DEF Holds
<1> QED BY <1>7, <1>8 DEF Deals

-----------------------------------------------------------------------------
(* prepare_batch                                                           *)

\* The samples as they are trained.
Cut(samples) == [i \in 1..Len(samples) |-> Truncate(samples[i])]

\* prepare_batch deals out all of them.
LEMMA PreparedDeals ==
    ASSUME NEW S, Pieces(S), NEW samples, Cut(samples) \in Seq(S), IsInjective(Cut(samples)),
           ToSet(Cut(samples)) = S
    PROVE  Deals(PrepareBatch(samples), S)
<1> DEFINE bins == Bins(Cut(samples))
           n == Len(bins)
           batches == [b \in 1..n |-> MicroBatch(bins[b])]
           B == ToSet(batches)
           images == {mb \in B : Multimodal(mb.samples[1])}
           mm == Selected(batches, images)
           text == Selected(batches, B \ images)
<1>1. PrepareBatch(samples) = Joined(DistributeGroup(PadGroup(mm)), DistributeGroup(PadGroup(text)))
  BY Zenon DEF PrepareBatch, Cut, Joined
<1>2. Divides(bins, S, S)
  BY BinsDivide
<1> HIDE DEF bins
<1>3. /\ n \in Nat /\ \A b \in 1..n : GoodBin(bins[b], S)
      /\ \A b, c \in 1..n : b # c => ToSet(bins[b]) \cap ToSet(bins[c]) = {}
      /\ \A x \in S : \E b \in 1..n : x \in ToSet(bins[b])
  <2>1. n \in Nat
    BY <1>2 DEF Divides
  <2>2. /\ \A b \in 1..n : GoodBin(bins[b], S)
        /\ \A b, c \in 1..n : b # c => ToSet(bins[b]) \cap ToSet(bins[c]) = {}
        /\ \A x \in S : \E b \in 1..n : x \in ToSet(bins[b])
    BY <1>2, Zenon DEF Divides
  <2> QED BY <2>1, <2>2
<1>4. ASSUME NEW b \in 1..n PROVE bins[b] \in Seq(S) /\ ToSet(bins[b]) # {}
  <2> DEFINE s == bins[b]
  <2>1. GoodBin(s, S)
    BY <1>3
  <2> HIDE DEF s
  <2>2. s \in Seq(S) /\ s # <<>>
    BY <2>1 DEF GoodBin
  <2>3. s[1] \in ToSet(s)
    BY <2>2 DEF ToSet
  <2> QED BY <2>2, <2>3 DEF s
<1>5. \A b \in 1..n : MicroBatch(bins[b]).samples = bins[b] /\ Batch(MicroBatch(bins[b]), S)
  BY <1>3 DEF Batch, MicroBatch
<1> HIDE DEF n
<1>6. B = {MicroBatch(bins[b]) : b \in 1..n}
  BY <1>3 DEF ToSet
<1>7. batches \in Seq(B) /\ IsInjective(batches)
  <2>1. batches \in Seq(B)
    BY <1>3, <1>6
  <2>2. ASSUME NEW b \in 1..n, NEW c \in 1..n, MicroBatch(bins[b]) = MicroBatch(bins[c]) PROVE b = c
    <3>1. bins[b] = bins[c]
      BY <1>5, <2>2
    <3>2. ToSet(bins[b]) \cap ToSet(bins[c]) # {}
      BY <1>4, <3>1
    <3> QED BY <1>3, <3>2
  <2> QED BY <1>3, <2>1, <2>2 DEF IsInjective
<1>8. Holds(B, S)
  <2>1. \A mb \in B : Batch(mb, S)
    BY <1>5, <1>6
  <2>2. ASSUME NEW mb \in B, NEW nb \in B, mb # nb PROVE ToSet(mb.samples) \cap ToSet(nb.samples) = {}
    <3>1. PICK b \in 1..n : mb = MicroBatch(bins[b])
      BY <1>6
    <3>2. PICK c \in 1..n : nb = MicroBatch(bins[c])
      BY <1>6
    <3>3. b # c
      BY <2>2, <3>1, <3>2
    <3>4. mb.samples = bins[b] /\ nb.samples = bins[c]
      BY <1>5, <3>1, <3>2
    <3> QED BY <1>3, <3>3, <3>4
  <2>3. \A x \in S : \E mb \in B : x \in ToSet(mb.samples)
    BY <1>3, <1>5, <1>6, SMTT(30)
  <2> HIDE DEF B
  <2> QED BY <2>1, <2>2, <2>3 DEF Holds
<1>9. ToSet(batches) = B
  OBVIOUS
<1> HIDE DEF B, batches
<1>10. ASSUME NEW A \in SUBSET B, \A mb, nb \in A : Multimodal(mb.samples[1]) = Multimodal(nb.samples[1])
       PROVE  \E c : Dealt(DistributeGroup(PadGroup(Selected(batches, A))), A, c)
  <2> DEFINE group == Selected(batches, A)
  <2>1. group \in Seq(B) /\ ToSet(group) = B \cap A /\ IsInjective(group)
    BY <1>7, <1>9, SelectedContent
  <2> HIDE DEF group
  <2>2. ToSet(group) = A
    BY <2>1
  <2>3. group \in Seq(A)
    <3>1. \A i \in 1..Len(group) : group[i] \in A
      BY <2>1, <2>2 DEF ToSet
    <3> QED BY <2>1, <3>1
  <2>4. \A mb \in A : Batch(mb, S)
    BY <1>8 DEF Holds
  <2>5. \E c : Dealt(DistributeGroup(PadGroup(group)), A, c)
    BY <1>10, <2>1, <2>2, <2>3, <2>4, GroupDealt
  <2> QED BY <2>5 DEF group
<1>11. PICK c : Dealt(DistributeGroup(PadGroup(mm)), images, c)
  BY <1>10
<1>12. PICK d : Dealt(DistributeGroup(PadGroup(text)), B \ images, d)
  <2>1. B \ images \in SUBSET B
    OBVIOUS
  <2>2. \A mb, nb \in B \ images : Multimodal(mb.samples[1]) = Multimodal(nb.samples[1])
    BY DEF Multimodal
  <2> HIDE DEF images
  <2> QED BY <1>10, <2>1, <2>2
<1>13. Real(images) /\ Real(B \ images)
  BY <1>8, BatchIs DEF Real, Holds
<1>14. images \cup (B \ images) = B /\ images \cap (B \ images) = {}
  OBVIOUS
<1> HIDE DEF images, mm, text
<1>15. Dealt(PrepareBatch(samples), B, c + d)
  BY <1>1, <1>11, <1>12, <1>13, <1>14, DealtConcat
<1> QED BY <1>8, <1>15 DEF Deals

\* A grid that trains samples with different ids is what the ranks rely on.
LEMMA DealsEven ==
    ASSUME NEW S, S # {}, Pieces(S), \A x, y \in S : x.id = y.id => x = y,
           NEW samples, ToSet(Cut(samples)) = S, Len(samples) \in Nat,
           NEW grid, Deals(grid, S)
    PROVE  EvenGrid(samples, grid)
<1>1. PICK B, c : Holds(B, S) /\ Dealt(grid, B, c)
  BY DEF Deals
<1> DEFINE M == B \cup {Dummy(mb) : mb \in B}
<1>2. /\ c \in Nat /\ grid \in [1..Workers -> Seq(M)]
      /\ \A r \in 1..Workers : Len(grid[r]) = c
  BY <1>1 DEF Dealt
<1>3. /\ \A mb \in B : \E r \in 1..Workers, i \in 1..c : grid[r][i] = mb
      /\ \A r, s \in 1..Workers, i, j \in 1..c :
            grid[r][i] \in B /\ grid[r][i] = grid[s][j] => r = s /\ i = j
      /\ \A r, s \in 1..Workers, i \in 1..c :
            Multimodal(grid[r][i].samples[1]) = Multimodal(grid[s][i].samples[1])
  BY <1>1 DEF Dealt
<1>4. 1 \in 1..Workers
  BY PackingAssumption
<1>5. Len(grid[1]) = c
  BY <1>2, <1>4
<1>6. ASSUME NEW r \in 1..Workers, NEW i \in 1..c PROVE grid[r][i] \in M
  <2>1. grid[r] \in Seq(M) /\ Len(grid[r]) = c
    BY <1>2
  <2> HIDE DEF M
  <2> QED BY <2>1, ElementOfSeq
<1> DEFINE Like(mb, nb) == /\ mb.samples = nb.samples /\ mb.pad = (-Length(mb.samples)) % PadTo
                           /\ mb.samples \in Seq(S) /\ Batch(nb, S)
                           /\ mb = nb \/ mb.dummy = TRUE
<1>7. ASSUME NEW mb \in M
      PROVE  \E nb \in B : Like(mb, nb)
  <2>1. PICK nb \in B : mb = nb \/ mb = Dummy(nb)
    OBVIOUS
  <2>2. Batch(nb, S)
    BY <1>1 DEF Holds
  <2>3. /\ nb.samples \in Seq(S) /\ Dummy(nb).samples = nb.samples /\ Dummy(nb).pad = nb.pad
        /\ Dummy(nb).dummy = TRUE /\ nb.pad = (-Length(nb.samples)) % PadTo
    BY <2>2, BatchIs
  <2>4. mb.samples = nb.samples /\ mb.pad = nb.pad /\ (mb = nb \/ mb.dummy = TRUE)
    BY <2>1, <2>3
  <2>5. mb.pad = (-Length(mb.samples)) % PadTo
    BY <2>3, <2>4
  <2> QED BY <2>2, <2>3, <2>4, <2>5
<1> HIDE DEF M, Like
<1>8. Len(grid[1]) > 0
  <2>1. PICK x \in S : TRUE
    OBVIOUS
  <2>2. PICK mb \in B : x \in ToSet(mb.samples)
    BY <1>1 DEF Holds
  <2>3. PICK r \in 1..Workers, i \in 1..c : grid[r][i] = mb
    BY <1>3
  <2> QED BY <1>2, <1>5
<1>9. Aligned(grid)
  BY <1>2, <1>3, <1>4, <1>5 DEF Aligned
<1>10. ASSUME NEW r \in 1..Workers, NEW i \in 1..Len(grid[1]) PROVE WellFormed(grid[r][i])
  <2> DEFINE mb == grid[r][i]
             s == mb.samples
  <2>0. PICK nb \in B : Like(mb, nb)
    BY <1>5, <1>6, <1>7
  <2>1. s = nb.samples /\ mb.pad = (-Length(s)) % PadTo /\ s \in Seq(S) /\ Batch(nb, S)
    BY <2>0 DEF Like
  <2> HIDE DEF mb
  <2>2. SumSeq(SequenceLengths(mb)) % PadTo = 0
    BY <2>1, BatchCost
  <2>3. GoodBin(s, S)
    BY <2>1 DEF Batch
  <2> HIDE DEF s
  <2>4. s # <<>> /\ Length(s) <= SeqLen /\ \A k \in 1..Len(s) : s[k] \in ToSet(s)
    BY <2>3 DEF GoodBin, ToSet
  <2>5. /\ \A k, l \in 1..Len(s) : s[k].routed = s[l].routed
        /\ \A k \in 1..Len(s) : Multimodal(s[k]) => Len(s) = 1
    BY <2>3, <2>4 DEF GoodBin
  <2>6. WellFormed(mb)
    BY <2>2, <2>4, <2>5 DEF WellFormed, s
  <2> QED BY <2>6 DEF mb
<1> DEFINE at(p) == grid[p[1]][p[2]].samples[p[3]]
<1>11. ASSUME NEW p, p \in Trained(grid)
       PROVE  /\ p = <<p[1], p[2], p[3]>> /\ p[1] \in 1..Workers /\ p[2] \in 1..c
              /\ grid[p[1]][p[2]] \in B /\ p[3] \in 1..Len(grid[p[1]][p[2]].samples)
              /\ at(p) \in ToSet(grid[p[1]][p[2]].samples)
              /\ Batch(grid[p[1]][p[2]], S) /\ at(p) \in S
  <2> DEFINE cells == {e \in (1..Workers) \X (1..Len(grid[1])) : ~grid[e[1]][e[2]].dummy}
             of(e) == {<<e[1], e[2], k>> : k \in 1..Len(grid[e[1]][e[2]].samples)}
  <2>1. Trained(grid) = UNION {of(e) : e \in cells}
    BY Zenon DEF Trained
  <2>2. PICK e \in cells : p \in of(e)
    <3> HIDE DEF cells, of
    <3> QED BY <1>11, <2>1
  <2>3. PICK k \in 1..Len(grid[e[1]][e[2]].samples) : p = <<e[1], e[2], k>>
    BY <2>2
  <2>4. e[1] \in 1..Workers /\ e[2] \in 1..c /\ ~grid[e[1]][e[2]].dummy
    BY <1>5, <2>2
  <2> DEFINE mb == grid[e[1]][e[2]]
  <2>5. mb \in M
    BY <1>6, <2>4
  <2> HIDE DEF mb
  <2>6. PICK nb \in B : Like(mb, nb)
    BY <1>7, <2>5
  <2>7. mb \in B /\ Batch(mb, S)
    <3>1. ~mb.dummy
      BY <2>4 DEF mb
    <3> QED BY <2>6, <3>1 DEF Like
  <2>8. mb.samples \in Seq(S)
    BY <2>7, BatchIs
  <2> DEFINE s == mb.samples
             x == s[k]
  <2>9. k \in 1..Len(s)
    BY <2>3 DEF mb
  <2>10. x \in ToSet(s) /\ x \in S
    <3> HIDE DEF s
    <3>1. s \in Seq(S)
      BY <2>8 DEF s
    <3> QED BY <2>9, <3>1, ToSetSeq
  <2>11. p[1] = e[1] /\ p[2] = e[2] /\ p[3] = k
    BY <2>3
  <2> QED BY <2>3, <2>4, <2>7, <2>9, <2>10, <2>11 DEF mb
<1>12. ASSUME NEW p, p \in Trained(grid), NEW q, q \in Trained(grid), at(p).id = at(q).id PROVE p = q
  <2> DEFINE mb == grid[p[1]][p[2]]
             nb == grid[q[1]][q[2]]
             s == mb.samples
  <2>1. /\ p = <<p[1], p[2], p[3]>> /\ p[1] \in 1..Workers /\ p[2] \in 1..c /\ mb \in B
        /\ p[3] \in 1..Len(s) /\ at(p) \in ToSet(s) /\ Batch(mb, S) /\ at(p) \in S
    BY <1>11, <1>12
  <2>2. /\ q = <<q[1], q[2], q[3]>> /\ q[1] \in 1..Workers /\ q[2] \in 1..c /\ nb \in B
        /\ q[3] \in 1..Len(nb.samples) /\ at(q) \in ToSet(nb.samples) /\ at(q) \in S
    BY <1>11, <1>12
  <2>3. at(p) = at(q)
    BY <1>12, <2>1, <2>2
  <2>4. mb = nb
    <3> HIDE DEF mb, nb, at
    <3>1. \A m, n \in B : m # n => ToSet(m.samples) \cap ToSet(n.samples) = {}
      BY <1>1 DEF Holds
    <3>2. at(p) \in ToSet(mb.samples)
      BY <2>1 DEF s
    <3> QED BY <2>1, <2>2, <2>3, <3>1, <3>2
  <2>5. p[1] = q[1] /\ p[2] = q[2]
    <3>1. grid[p[1]][p[2]] \in B /\ grid[p[1]][p[2]] = grid[q[1]][q[2]]
      BY <2>1, <2>4
    <3> QED BY <1>3, <2>1, <2>2, <3>1, SMTT(30)
  <2>6. p[3] = q[3]
    <3>1. s[p[3]] = s[q[3]] /\ q[3] \in 1..Len(s)
      BY <2>2, <2>3, <2>5
    <3>2. s \in Seq(S) /\ IsInjective(s)
      BY <2>1, BatchIs
    <3> HIDE DEF s
    <3> QED BY <2>1, <3>1, <3>2 DEF IsInjective
  <2> QED BY <2>1, <2>2, <2>5, <2>6
<1>13. ASSUME NEW n \in 1..Len(samples) PROVE \E p \in Trained(grid) : at(p) = Truncate(samples[n])
  <2> DEFINE x == Truncate(samples[n])
  <2>1. x \in S
    <3>1. DOMAIN Cut(samples) = 1..Len(samples) /\ Cut(samples)[n] = x
      BY DEF Cut
    <3> QED BY <3>1 DEF ToSet
  <2> HIDE DEF x
  <2>2. PICK mb \in B : x \in ToSet(mb.samples)
    BY <1>1, <2>1 DEF Holds
  <2>3. PICK r \in 1..Workers, i \in 1..c : grid[r][i] = mb
    BY <1>3
  <2>4. Batch(mb, S)
    BY <1>1 DEF Holds
  <2>5. mb.samples \in Seq(S) /\ mb.dummy = FALSE
    BY <2>4, BatchIs
  <2>6. PICK k \in 1..Len(mb.samples) : mb.samples[k] = x
    BY <2>2, <2>5, ToSetSeq
  <2> DEFINE p == <<r, i, k>>
             e == <<r, i>>
             cells == {f \in (1..Workers) \X (1..Len(grid[1])) : ~grid[f[1]][f[2]].dummy}
             of(f) == {<<f[1], f[2], l>> : l \in 1..Len(grid[f[1]][f[2]].samples)}
  <2>7. Trained(grid) = UNION {of(f) : f \in cells}
    BY Zenon DEF Trained
  <2>8. e \in cells
    BY <1>5, <2>3, <2>5
  <2>9. p \in of(e)
    BY <2>3, <2>6
  <2>10. p \in Trained(grid)
    <3> HIDE DEF cells, of, p, e
    <3> QED BY <2>7, <2>8, <2>9
  <2>11. at(p) = x
    BY <2>3, <2>6
  <2> HIDE DEF p, at
  <2> QED BY <2>10, <2>11 DEF x
<1>14. TrainedOnce(samples, grid)
  BY <1>12, <1>13 DEF TrainedOnce
<1> QED BY <1>8, <1>9, <1>10, <1>14 DEF EvenGrid

\* The samples the trainer is given, and what truncation leaves of them.
SampleOf(Ids) == [id : Ids, types : Seq(Nat), routed : BOOLEAN]

\* Truncation keeps the id, fits, and leaves what already fits alone.
LEMMA TruncateIs ==
    ASSUME NEW Ids, NEW x \in SampleOf(Ids)
    PROVE  /\ Truncate(x) \in SampleOf(Ids) /\ Truncate(x).id = x.id
           /\ Size(Truncate(x)) \in 0..SeqLen
           /\ Size(x) <= SeqLen => Truncate(x) = x
<1> DEFINE t == x.types
           n == CutPoint(t)
<1>1. t \in Seq(Nat) /\ SeqLen \in Nat \ {0} /\ Len(t) \in Nat /\ Size(x) = Len(t)
  BY PackingAssumption DEF SampleOf, Size
<1> HIDE DEF t
<1>2. CASE Len(t) <= SeqLen
  <2>1. Truncate(x) = x
    BY <1>1, <1>2 DEF Truncate
  <2> QED BY <1>1, <1>2, <2>1
<1>3. CASE Len(t) > SeqLen
  <2>1. n \in 0..SeqLen
    <3>1. CASE CrossingImage(t) = {}
      BY <1>1, <3>1 DEF CutPoint
    <3>2. CASE CrossingImage(t) # {}
      <4>1. CrossingImage(t) \in SUBSET (1..SeqLen)
        BY DEF CrossingImage
      <4>2. CrossingImage(t) \in SUBSET Nat
        BY <1>1, <4>1
      <4>3. Min(CrossingImage(t)) \in 1..SeqLen
        BY <3>2, <4>1, <4>2, MinOf
      <4>4. n = Min(CrossingImage(t)) - 1
        BY <3>2, Zenon DEF CutPoint
      <4> QED BY <1>1, <4>3, <4>4
    <3> QED BY <3>1, <3>2
  <2> DEFINE s == SubSeq(t, 1, n)
  <2>2. s \in Seq(Nat) /\ Len(s) = n
    <3> HIDE DEF n
    <3>1. n \in Nat /\ n <= Len(t)
      BY <1>1, <1>3, <2>1
    <3> QED BY <1>1, <3>1
  <2>3. Truncate(x) = [x EXCEPT !.types = SubSeq(x.types, 1, CutPoint(x.types))]
    BY <1>1, <1>3 DEF Truncate
  <2>4. Truncate(x) = [x EXCEPT !.types = s]
    BY <2>3 DEF t
  <2> HIDE DEF s, n
  <2>5. Truncate(x) \in SampleOf(Ids) /\ Truncate(x).id = x.id /\ Truncate(x).types = s
    BY <2>2, <2>4 DEF SampleOf
  <2>6. Size(Truncate(x)) \in 0..SeqLen
    BY <2>1, <2>2, <2>5 DEF Size
  <2> QED BY <1>1, <1>3, <2>5, <2>6
<1> QED BY <1>1, <1>2, <1>3

\* Samples with different ids, of which truncation leaves some tokens.
Packable(samples, Ids) ==
    /\ samples \in Seq(SampleOf(Ids))
    /\ \A i, j \in 1..Len(samples) : samples[i].id = samples[j].id => i = j
    /\ \A i \in 1..Len(samples) : Truncate(samples[i]).types # <<>>

\* What is trained of them.
Trainable(samples) == ToSet(Cut(samples))

\* They are different pieces, with different ids, one of each sample.
LEMMA CutIsTrainable ==
    ASSUME NEW Ids, NEW samples, Packable(samples, Ids)
    PROVE  /\ Cut(samples) \in Seq(Trainable(samples)) /\ IsInjective(Cut(samples))
           /\ Pieces(Trainable(samples)) /\ Len(samples) \in Nat
           /\ \A x, y \in Trainable(samples) : x.id = y.id => x = y
           /\ Trainable(samples) = {} <=> samples = <<>>
           /\ \A x \in Trainable(samples) : \E i \in 1..Len(samples) : x.id = samples[i].id
<1> DEFINE n == Len(samples)
           c == Cut(samples)
<1>1. n \in Nat /\ \A i \in 1..n : samples[i] \in SampleOf(Ids)
  BY DEF Packable
<1>2. c = [i \in 1..n |-> c[i]] /\ \A i \in 1..n : c[i] = Truncate(samples[i])
  BY DEF Cut
<1>3. samples = <<>> <=> n = 0
  BY DEF Packable
<1> HIDE DEF n, c
<1>4. ASSUME NEW i \in 1..n
      PROVE  c[i].id = samples[i].id /\ Size(c[i]) \in 1..SeqLen
  <2> DEFINE x == samples[i]
             y == c[i]
  <2>1. x \in SampleOf(Ids) /\ y = Truncate(x)
    BY <1>1, <1>2
  <2>2. y.types # <<>>
    BY <2>1 DEF Packable, n
  <2> HIDE DEF x, y
  <2>3. y \in SampleOf(Ids) /\ y.id = x.id /\ Size(y) \in 0..SeqLen
    BY <2>1, TruncateIs
  <2>4. y.types \in Seq(Nat)
    BY <2>3 DEF SampleOf
  <2>5. Size(y) # 0
    BY <2>2, <2>4 DEF Size
  <2>6. SeqLen \in Nat
    BY PackingAssumption
  <2> QED BY <2>3, <2>5, <2>6 DEF x, y
<1>5. ToSet(c) = {c[i] : i \in 1..n} /\ c \in Seq(ToSet(c))
  <2>1. DOMAIN c = 1..n
    BY <1>2
  <2>2. ToSet(c) = {c[i] : i \in 1..n}
    BY <2>1 DEF ToSet
  <2> QED BY <1>1, <1>2, <2>2
<1>6. \A i, j \in 1..n : samples[i].id = samples[j].id => i = j
  BY DEF Packable, n
<1>7. IsInjective(c)
  <2>1. DOMAIN c = 1..n
    BY <1>2
  <2> QED BY <1>4, <1>6, <2>1 DEF IsInjective
<1>8. Pieces(ToSet(c)) /\ \A x, y \in ToSet(c) : x.id = y.id => x = y
  <2>1. \A x \in ToSet(c) : Size(x) \in 1..SeqLen
    BY <1>4, <1>5
  <2>2. ASSUME NEW x \in ToSet(c), NEW y \in ToSet(c), x.id = y.id PROVE x = y
    <3>1. PICK i \in 1..n : x = c[i]
      BY <1>5
    <3>2. PICK j \in 1..n : y = c[j]
      BY <1>5
    <3>3. samples[i].id = samples[j].id
      BY <1>4, <2>2, <3>1, <3>2
    <3> QED BY <1>6, <3>1, <3>2, <3>3
  <2> QED BY <2>1, <2>2 DEF Pieces
<1>9. ToSet(c) = {} <=> n = 0
  <2>1. CASE n = 0
    <3>1. 1..n = {}
      BY <2>1
    <3> QED BY <1>5, <2>1, <3>1
  <2>2. CASE n # 0
    <3>1. 1 \in 1..n
      BY <1>1, <2>2
    <3>2. c[1] \in ToSet(c)
      BY <1>5, <3>1
    <3> QED BY <2>2, <3>2
  <2> QED BY <2>1, <2>2
<1>10. \A x \in ToSet(c) : \E i \in 1..n : x.id = samples[i].id
  BY <1>4, <1>5
<1> QED BY <1>1, <1>3, <1>5, <1>7, <1>8, <1>9, <1>10 DEF Trainable, c, n

\* prepare_batch gives the ranks an even grid of whatever samples it gets:
\* equally many micro batches, of one modality at each index, that fit, and in
\* which every sample is trained once.
THEOREM PreparedEven ==
    ASSUME NEW Ids, NEW samples, Packable(samples, Ids), samples # <<>>
    PROVE  EvenGrid(samples, PrepareBatch(samples))
<1> DEFINE S == Trainable(samples)
<1>1. /\ Cut(samples) \in Seq(S) /\ IsInjective(Cut(samples)) /\ Pieces(S) /\ S # {}
      /\ \A x, y \in S : x.id = y.id => x = y
      /\ Len(samples) \in Nat
  BY CutIsTrainable
<1>2. ToSet(Cut(samples)) = S
  BY DEF Trainable
<1> HIDE DEF S
<1>3. Deals(PrepareBatch(samples), S)
  BY <1>1, <1>2, PreparedDeals
<1> QED BY <1>1, <1>2, <1>3, DealsEven

-----------------------------------------------------------------------------
(* Each sample in one place, also of names that were reused                *)

\* The creation of a directory, and the step of it, that a sample says it is
\* of, have been.
Was(x) == x.made <= created /\ (x.made = dir[x.run] => x.step <= Len(files[x.run]))

\* What is on its way from a run has been written, each sample once.
Apart(n) ==
    /\ \A x, y \in Drained(n) : x = y \/ ToSet(x.samples) \cap ToSet(y.samples) = {}
    /\ \A m \in Drained(n) : \A x \in ToSet(m.samples) : Was(x)

\* A slot's buffer holds valid samples, each once, and nothing that may still
\* arrive.
Kind(s, x) ==
    /\ x.len \in 1..SeqLen /\ Was(x)
    /\ transport = "filesystem" => x.step < received[s]
    /\ \A m \in Drained(x.run) : x \notin ToSet(m.samples)

\* Each sample of a slot's buffer is there once and of that kind.
Stored(s) == IsInjective(buffers[s]) /\ \A x \in ToSet(buffers[s]) : Kind(s, x)

\* What was packed of a slot is a list of different valid samples.
Picks(s) ==
    /\ IsInjective(Taken(selected, s))
    /\ \A i \in 1..Len(Taken(selected, s)) : Taken(selected, s)[i][2].len \in 1..SeqLen

\* While the ranks train, something was packed.
Chosen == pc = "train" => selected # <<>> /\ \A s \in Slots : Picks(s)

\* The invariant behind GridEven.
Fresh ==
    /\ \A n \in Names : Apart(n)
    /\ \A s \in Slots : Stored(s)
    /\ Chosen

\* Nothing is there at first.
LEMMA InitFresh == Init => Fresh
<1> SUFFICES ASSUME Init PROVE Fresh
  OBVIOUS
<1>1. ToSet(<<>>) = {}
  BY DEF ToSet
<1>2. \A n \in Names : Apart(n)
  BY <1>1 DEF Init, Apart, Drained
<1>3. \A s \in Slots : Stored(s)
  <2>1. IsInjective(<<>>)
    BY DEF IsInjective
  <2> QED BY <1>1, <2>1 DEF Init, Stored
<1>4. Chosen
  BY DEF Init, Chosen
<1> QED BY <1>2, <1>3, <1>4 DEF Fresh

\* What the buffers and the batches on their way keep, a step that only takes
\* away from them and leaves the directories alone keeps.
LEMMA LessFresh ==
    ASSUME Fresh, UNCHANGED <<dir, created, files, transport>>,
           \A n \in Names : Drained(n)' \subseteq Drained(n),
           NEW s \in Slots, IsInjective(buffers'[s]), ToSet(buffers'[s]) \subseteq ToSet(buffers[s]),
           received'[s] = received[s], \A x \in ToSet(buffers[s]) : x.run \in Names
    PROVE  Stored(s)'
<1>1. \A x \in ToSet(buffers'[s]) : Kind(s, x)
  BY DEF Fresh, Stored
<1>2. \A x \in ToSet(buffers'[s]) : Kind(s, x)'
  BY <1>1 DEF Kind, Was
<1> QED BY <1>2 DEF Stored

\* The same for what is on its way.
LEMMA LessApart ==
    ASSUME Fresh, UNCHANGED <<dir, created, files>>, NEW n \in Names, Drained(n)' \subseteq Drained(n)
    PROVE  Apart(n)'
<1>1. Apart(n)
  BY DEF Fresh
<1> QED BY <1>1 DEF Apart, Was

\* The runs of samples.
LEMMA RunsOf ==
    ASSUME Basics
    PROVE  /\ \A s \in Slots : \A x \in ToSet(buffers[s]) : x.run \in Names /\ x.run = slotOf[s] /\ x \in Samples
           /\ \A n \in Names : \A m \in Drained(n) : \A x \in ToSet(m.samples) : x.run = n /\ x \in Samples
<1>1. \A s \in Slots : \A x \in ToSet(buffers[s]) : x.run \in Names /\ x.run = slotOf[s] /\ x \in Samples
  <2>1. ASSUME NEW s \in Slots, NEW x \in ToSet(buffers[s]) PROVE x \in Samples
    <3>1. buffers[s] \in Seq(Samples)
      BY DEF Basics, MasterTypes
    <3> QED BY <3>1, <2>1, ToSetSeq
  <2>2. \A x \in Samples : x.run \in Names
    BY DEF Samples
  <2> QED BY <2>1, <2>2 DEF Basics, Owned
<1>2. ASSUME NEW n \in Names, NEW m \in Drained(n), NEW x \in ToSet(m.samples)
      PROVE  x.run = n /\ x \in Samples
  <2>1. m.samples \in Seq(Samples)
    BY DrainedType DEF Basics
  <2> QED BY <2>1, ToSetSeq DEF Basics, Owned
<1> QED BY <1>1, <1>2

\* A new directory is of a new creation.
LEMMA CreateFresh ==
    ASSUME Basics, Fresh, NEW n \in Names, CreateRun(n) PROVE Fresh'
<1>1. /\ created' = created + 1 /\ dir' = [dir EXCEPT ![n] = created']
      /\ UNCHANGED <<files, linkVars, pc, mapVars, packVars>>
  BY DEF CreateRun
<1>2. created \in Nat /\ DOMAIN dir = Names
  BY ConstTypes DEF Basics, FsTypes
<1>3. \A x \in Samples : x.made \in Nat /\ x.run \in Names
  BY ConstTypes DEF Samples
<1>4. \A x \in Samples : Was(x) => Was(x)'
  BY <1>1, <1>2, <1>3 DEF Was
<1>5. \A m \in Names : Drained(m)' = Drained(m)
  BY <1>1 DEF Drained, linkVars
<1>6. \A m \in Names : Apart(m)'
  BY <1>4, <1>5, RunsOf DEF Fresh, Apart
<1>7. \A s \in Slots : Stored(s)'
  <2>1. ASSUME NEW s \in Slots, NEW x \in ToSet(buffers[s]) PROVE Kind(s, x)'
    <3>1. Kind(s, x) /\ x \in Samples /\ x.run \in Names
      BY <2>1, RunsOf DEF Fresh, Stored
    <3> QED BY <1>1, <1>4, <1>5, <3>1 DEF Kind, linkVars, mapVars
  <2> QED BY <1>1, <2>1 DEF Fresh, Stored, packVars
<1>8. Chosen'
  BY <1>1 DEF Fresh, Chosen, Picks, packVars
<1> QED BY <1>6, <1>7, <1>8 DEF Fresh

\* No sample is of a directory that is gone.
LEMMA DeleteFresh ==
    ASSUME Basics, Fresh, NEW n \in Names, DeleteRun(n) PROVE Fresh'
<1>1. /\ dir' = [dir EXCEPT ![n] = 0] /\ files' = [files EXCEPT ![n] = <<>>]
      /\ UNCHANGED <<created, transport, wire, pending, pc, slept, mapVars, packVars>>
  BY DEF DeleteRun
<1>2. DOMAIN dir = Names /\ DOMAIN files = Names
  BY DEF Basics, FsTypes
<1>3. \A x \in Samples : x.made # 0 /\ x.run \in Names
  BY ConstTypes DEF Samples
<1>4. \A x \in Samples : Was(x) => Was(x)'
  BY <1>1, <1>2, <1>3 DEF Was
<1>5. \A m \in Names : Drained(m)' = Drained(m)
  BY <1>1 DEF Drained
<1>6. \A m \in Names : Apart(m)'
  BY <1>4, <1>5, RunsOf DEF Fresh, Apart
<1>7. \A s \in Slots : Stored(s)'
  <2>1. ASSUME NEW s \in Slots, NEW x \in ToSet(buffers[s]) PROVE Kind(s, x)'
    <3>1. Kind(s, x) /\ x \in Samples /\ x.run \in Names
      BY <2>1, RunsOf DEF Fresh, Stored
    <3> QED BY <1>1, <1>4, <1>5, <3>1 DEF Kind, mapVars
  <2> QED BY <1>1, <2>1 DEF Fresh, Stored, packVars
<1>8. Chosen'
  BY <1>1 DEF Fresh, Chosen, Picks, packVars
<1> QED BY <1>6, <1>7, <1>8 DEF Fresh

\* What a run writes is of a step that nothing is of yet.
LEMMA WriteFresh ==
    ASSUME Basics, Fresh, NEW n \in Names, Write(n) PROVE Fresh'
<1> DEFINE l == Len(files[n]) + 1
           new == Message(n, files')
<1>1. /\ Len(files'[n]) = l /\ \A m \in Names : m # n => files'[m] = files[m]
      /\ \A x \in ToSet(new.samples) : x.run = n /\ x.made = dir[n] /\ x.step = l
  BY WriteParts
<1>2. UNCHANGED <<dir, created, transport, pc, mapVars, packVars>>
  BY DEF Write
<1>3. Len(files[n]) \in Nat /\ dir[n] <= created
  BY DEF Basics, FsTypes, Directories
<1>4. \A x \in Samples : x.step \in Nat /\ x.run \in Names
  BY ConstTypes DEF Samples
<1>5. \A m \in Names : Drained(m)' = (IF m = n /\ transport = "zmq" THEN Drained(m) \cup {new} ELSE Drained(m))
  BY WriteDrained
<1> HIDE DEF new
<1>6. \A x \in Samples : Was(x) => Was(x)' /\ x \notin ToSet(new.samples)
  <2>1. ASSUME NEW x \in Samples, Was(x) PROVE Was(x)'
    <3>1. CASE x.run = n
      BY <1>1, <1>2, <1>3, <1>4, <2>1, <3>1 DEF Was
    <3>2. CASE x.run # n
      BY <1>1, <1>2, <1>4, <2>1, <3>2 DEF Was
    <3> QED BY <3>1, <3>2
  <2>2. ASSUME NEW x \in Samples, Was(x), x \in ToSet(new.samples) PROVE FALSE
    BY <1>1, <1>3, <1>4, <2>2 DEF Was
  <2> QED BY <2>1, <2>2
<1>7. \A x \in ToSet(new.samples) : Was(x)'
  BY <1>1, <1>2, <1>3 DEF Was
<1>8. ASSUME NEW m \in Names PROVE Apart(m)'
  <2>1. \A y \in Drained(m) : \A x \in ToSet(y.samples) : Was(x)' /\ x \notin ToSet(new.samples)
    BY <1>6, RunsOf DEF Fresh, Apart
  <2>2. \A x \in Drained(m) : ToSet(x.samples) \cap ToSet(new.samples) = {}
    BY <2>1
  <2>3. Drained(m)' \subseteq Drained(m) \cup {new}
    BY <1>5
  <2>4. \A x, y \in Drained(m)' : x = y \/ ToSet(x.samples) \cap ToSet(y.samples) = {}
    BY <2>2, <2>3 DEF Fresh, Apart
  <2>5. \A y \in Drained(m)' : \A x \in ToSet(y.samples) : Was(x)'
    BY <1>7, <2>1, <2>3
  <2> QED BY <2>4, <2>5 DEF Apart
<1>9. \A s \in Slots : Stored(s)'
  <2>1. ASSUME NEW s \in Slots, NEW x \in ToSet(buffers[s]) PROVE Kind(s, x)'
    <3>1. Kind(s, x) /\ x \in Samples /\ x.run \in Names
      BY <2>1, RunsOf DEF Fresh, Stored
    <3>2. \A m \in Drained(x.run)' : x \notin ToSet(m.samples)
      BY <1>5, <1>6, <3>1 DEF Kind
    <3> QED BY <1>2, <1>6, <3>1, <3>2 DEF Kind, mapVars
  <2> QED BY <1>2, <2>1 DEF Fresh, Stored, packVars
<1>10. Chosen'
  BY <1>2 DEF Fresh, Chosen, Picks, packVars
<1> QED BY <1>8, <1>9, <1>10 DEF Fresh

\* Closing takes away.
LEMMA CloseFresh ==
    ASSUME Basics, Fresh, NEW n \in Names, Close(n) PROVE Fresh'
<1>1. UNCHANGED <<fsVars, transport, pc, mapVars, packVars>>
  BY DEF Close
<1>2. \A m \in Names : Drained(m)' \subseteq Drained(m)
  BY CloseParts
<1>3. \A m \in Names : Apart(m)'
  BY <1>1, <1>2, LessApart DEF fsVars
<1>4. \A s \in Slots : Stored(s)'
  BY <1>1, <1>2, LessFresh, RunsOf DEF Fresh, Stored, fsVars, mapVars, packVars
<1>5. Chosen'
  BY <1>1 DEF Fresh, Chosen, Picks, packVars
<1> QED BY <1>3, <1>4, <1>5 DEF Fresh

\* A discovery empties buffers or leaves them.
LEMMA DiscoverFresh ==
    ASSUME Basics, Fresh, DiscoverRuns, pc' # "train",
           UNCHANGED <<fsVars, linkVars>>
    PROVE  Fresh'
<1>1. \A n \in Names : Drained(n)' = Drained(n)
  BY DEF Drained, linkVars
<1>2. \A n \in Names : Apart(n)'
  BY <1>1, LessApart DEF fsVars
<1>3. \A s \in Slots : Keeps(s) \/ Places(s) \/ Leaves(s)
  BY DiscoverParts DEF Basics
<1>4. IsInjective(<<>>) /\ ToSet(<<>>) = {}
  BY DEF IsInjective, ToSet
<1>5. ASSUME NEW s \in Slots PROVE Stored(s)'
  <2>1. CASE buffers'[s] = <<>>
    BY <1>4, <2>1 DEF Stored
  <2>2. CASE Keeps(s)
    <3>1. buffers'[s] = buffers[s] /\ received'[s] = received[s]
      BY <2>2 DEF Keeps
    <3>2. IsInjective(buffers[s]) /\ \A x \in ToSet(buffers[s]) : x.run \in Names
      BY RunsOf DEF Fresh, Stored
    <3> QED BY <1>1, <3>1, <3>2, LessFresh DEF fsVars, linkVars
  <2> QED BY <1>3, <2>1, <2>2 DEF Places, Leaves
<1>6. Chosen'
  BY DEF Chosen
<1> QED BY <1>2, <1>5, <1>6 DEF Fresh

\* Everything a valid prefix holds is valid.
LEMMA ValidLengths ==
    ASSUME NEW a \in Seq(Samples)
    PROVE  \A x \in ToSet(ValidPrefix(a)) : x.len \in 1..SeqLen
<1> DEFINE bad == {i \in 1..Len(a) : a[i].len \notin 1..SeqLen}
           p == ValidPrefix(a)
<1>1. p = Before(a, bad)
  BY Zenon DEF ValidPrefix, Before
<1>2. bad \in SUBSET (1..Len(a))
  OBVIOUS
<1>3. \A i \in 1..Len(a) : i \notin bad => a[i].len \in 1..SeqLen
  OBVIOUS
<1> HIDE DEF bad, p
<1>4. p \in Seq(Samples) /\ \A i \in 1..Len(p) : i \in 1..Len(a) /\ p[i] = a[i] /\ i \notin bad
  <2>1. GoodPart(p, a, bad, Samples)
    BY <1>1, <1>2, BeforeParts, Zenon
  <2> QED BY <2>1 DEF GoodPart
<1>5. ToSet(p) = {p[i] : i \in 1..Len(p)}
  BY <1>4, ToSetSeq
<1> QED BY <1>3, <1>4, <1>5 DEF p

\* What arrives at a slot was written, is not in its buffer yet and is not on
\* its way any more.
LEMMA ArrivingFresh ==
    ASSUME Basics, Fresh, Receives, UNCHANGED <<dir, created, files, transport>>, NEW s \in Arrivals,
           NEW n, n = slotOf[s]
    PROVE  /\ ToSet(buffers[s]) \cap ToSet(Arriving(s)) = {}
           /\ \A x \in ToSet(Arriving(s)) :
                /\ Was(x)
                /\ transport = "filesystem" => x.step < received'[s]
                /\ \A m \in Drained(n)' : x \notin ToSet(m.samples)
           /\ transport = "filesystem" => received[s] <= received'[s]
<1> DEFINE a == Arriving(s)
<1>1. /\ s \in Used /\ s \in Slots /\ n \in Names /\ \A x \in ToSet(a) : x.run = n
      /\ transport = "zmq" => Oldest(Drained(n)) \in Drained(n) /\ a = Oldest(Drained(n)).samples
      /\ transport # "zmq" => NextStep(s) \in 1..Len(files[n]) /\ a = SamplesOf(n, NextStep(s))
  BY ArrivingParts
<1>2. /\ \A x \in ToSet(buffers[s]) : Kind(s, x) /\ x.run = n /\ x \in Samples
  BY <1>1, RunsOf DEF Fresh, Stored
<1>3. transport \in {"zmq", "filesystem"}
  BY MultiRunAssumption DEF Basics, LinkTypes
<1> HIDE DEF a
<1>4. CASE transport = "zmq"
  <2> DEFINE o == Oldest(Drained(n))
  <2>1. o \in Drained(n) /\ a = o.samples
    BY <1>1, <1>4
  <2>2. Drained(n)' = Drained(n) \ {o}
    <3>1. n \in Names /\ \E t \in Arrivals : slotOf[t] = n
      BY <1>1
    <3>2. /\ Drained(n)' = pending'[n]
          /\ pending'[n] = IF transport = "zmq" /\ \E t \in Arrivals : slotOf[t] = n
                           THEN Drained(n) \ {Oldest(Drained(n))} ELSE Drained(n)
      BY <1>1, Zenon DEF Receives
    <3> QED BY <1>4, <3>1, <3>2
  <2> HIDE DEF o
  <2>3. \A x \in ToSet(a) : Was(x)
    BY <1>1, <2>1 DEF Fresh, Apart
  <2>4. \A x \in ToSet(buffers[s]) : x \notin ToSet(a)
    BY <1>2, <2>1 DEF Kind
  <2>5. \A m \in Drained(n)' : ToSet(o.samples) \cap ToSet(m.samples) = {}
    BY <1>1, <2>1, <2>2 DEF Fresh, Apart
  <2> QED BY <1>4, <2>1, <2>3, <2>4, <2>5 DEF a
<1>5. CASE transport = "filesystem"
  <2> DEFINE k == NextStep(s)
  <2>1. k \in 1..Len(files[n]) /\ a = SamplesOf(n, k)
    BY <1>1, <1>5
  <2>2. received'[s] = k + 1 /\ received[s] \in Nat
    BY <1>1, <1>5, ConstTypes DEF Receives, Basics, MasterTypes
  <2>3. received[s] # 0 => k = received[s]
    BY DEF NextStep
  <2>4. \A x \in ToSet(a) : x.run = n /\ x.made = dir[n] /\ x.step = k
    <3>1. FsTypes /\ Directories
      BY DEF Basics
    <3> HIDE DEF k
    <3> QED BY <1>1, <2>1, <3>1, WrittenParts
  <2> HIDE DEF k
  <2>5. Len(files[n]) \in Nat /\ dir[n] <= created
    BY <1>1 DEF Basics, FsTypes, Directories
  <2>6. \A x \in ToSet(a) : Was(x) /\ x.step < received'[s]
    BY <2>1, <2>2, <2>4, <2>5 DEF Was
  <2>7. \A x \in ToSet(buffers[s]) : x \notin ToSet(a)
    <3>1. CASE received[s] = 0
      <4>1. buffers[s] = <<>>
        BY <1>1, <1>5, <3>1 DEF Basics, Receivers
      <4> QED BY <4>1 DEF ToSet
    <3>2. CASE received[s] # 0
      <4>1. \A x \in ToSet(buffers[s]) : x.step < k
        BY <1>2, <1>5, <2>3, <3>2 DEF Kind
      <4> QED BY <2>1, <2>4, <2>5, <4>1
    <3> QED BY <3>1, <3>2
  <2>8. Drained(n)' = {}
    <3>1. Drained(n) = {}
      BY <1>1, <1>5 DEF Basics, Receivers, Drained, ToSet
    <3>2. /\ Drained(n)' = pending'[n]
          /\ pending'[n] = IF transport = "zmq" /\ \E t \in Arrivals : slotOf[t] = n
                           THEN Drained(n) \ {Oldest(Drained(n))} ELSE Drained(n)
      BY <1>1, Zenon DEF Receives
    <3> QED BY <1>5, <3>1, <3>2
  <2>9. received[s] <= received'[s]
    BY <2>1, <2>2, <2>3, <2>5
  <2> QED BY <1>5, <2>6, <2>7, <2>8, <2>9 DEF a
<1> QED BY <1>3, <1>4, <1>5

\* A batch that arrives is moved.
LEMMA ReceiveFresh ==
    ASSUME Basics, Fresh, Receive PROVE Fresh'
<1>1. UNCHANGED <<dir, created, files, transport, slotOf, selected>> /\ pc = "receive"
  BY DEF Receive
<1>2. CASE /\ pc' = "crashed" /\ UNCHANGED <<wire, pending, received, buffers, evicted>>
  <2>1. \A n \in Names : Drained(n)' = Drained(n)
    BY <1>2 DEF Drained
  <2>2. \A n \in Names : Apart(n)'
    BY <1>1, <2>1, LessApart
  <2>3. \A s \in Slots : Stored(s)'
    BY <1>1, <1>2, <2>1, LessFresh, RunsOf DEF Fresh, Stored
  <2>4. Chosen'
    BY <1>2 DEF Chosen
  <2> QED BY <2>2, <2>3, <2>4 DEF Fresh
<1>3. CASE pc' = "forget" /\ Receives
  <2>1. ASSUME NEW n \in Names PROVE Drained(n)' \subseteq Drained(n)
    <3>1. /\ Drained(n)' = pending'[n]
          /\ pending'[n] = IF transport = "zmq" /\ \E t \in Arrivals : slotOf[t] = n
                           THEN Drained(n) \ {Oldest(Drained(n))} ELSE Drained(n)
      BY <1>3, Zenon DEF Receives
    <3> QED BY <3>1
  <2>2. \A n \in Names : Apart(n)'
    BY <1>1, <2>1, LessApart
  <2>3. ASSUME NEW s \in Slots PROVE Stored(s)'
    <3> DEFINE a == Arriving(s)
               p == ValidPrefix(a)
    <3>1. IsInjective(buffers[s]) /\ \A x \in ToSet(buffers[s]) : Kind(s, x) /\ x.run \in Names /\ x.run = slotOf[s]
      BY RunsOf DEF Fresh, Stored
    <3>2. buffers[s] \in Seq(Samples)
      BY DEF Basics, MasterTypes
    <3>3. CASE s \in Arrivals
      <4>1. a \in Seq(Samples) /\ IsInjective(a) /\ \A x \in ToSet(a) : x.run = slotOf[s]
        BY <3>3, ArrivingParts
      <4>2. /\ ToSet(buffers[s]) \cap ToSet(a) = {}
            /\ \A x \in ToSet(a) :
                /\ Was(x)
                /\ transport = "filesystem" => x.step < received'[s]
                /\ \A m \in Drained(slotOf[s])' : x \notin ToSet(m.samples)
            /\ transport = "filesystem" => received[s] <= received'[s]
        <5>1. slotOf[s] = slotOf'[s]
          BY <1>1
        <5> HIDE DEF a
        <5>2. ASSUME NEW n, n = slotOf[s]
              PROVE  /\ ToSet(buffers[s]) \cap ToSet(a) = {}
                     /\ \A x \in ToSet(a) :
                         /\ Was(x)
                         /\ transport = "filesystem" => x.step < received'[s]
                         /\ \A m \in Drained(n)' : x \notin ToSet(m.samples)
                     /\ transport = "filesystem" => received[s] <= received'[s]
          BY <1>1, <1>3, <3>3, <5>2, ArrivingFresh, Zenon DEF a
        <5> QED BY <5>1, <5>2
      <4>3. p \in Seq(Samples) /\ ToSet(p) \subseteq ToSet(a) /\ IsInjective(p)
        <5> HIDE DEF a
        <5> QED BY <4>1, ValidParts
      <4>4. \A x \in ToSet(p) : x.len \in 1..SeqLen
        <5> HIDE DEF a
        <5> QED BY <4>1, ValidLengths
      <4>5. buffers'[s] = buffers[s] \o p
        BY <1>3, <3>3 DEF Receives
      <4> HIDE DEF a, p
      <4>6. ToSet(buffers'[s]) = ToSet(buffers[s]) \cup ToSet(p)
        BY <3>2, <4>3, <4>5, ToSetConcat
      <4>7. IsInjective(buffers'[s])
        <5>1. ToSet(buffers[s]) \cap ToSet(p) = {}
          BY <4>2, <4>3
        <5> QED BY <3>1, <3>2, <4>3, <4>5, <5>1, InjectiveConcat
      <4>8. ASSUME NEW x \in ToSet(buffers[s]) PROVE Kind(s, x)'
        <5>1. Kind(s, x) /\ x.run \in Names /\ x \in Samples
          BY <3>1, RunsOf
        <5>2. transport = "filesystem" => x.step < received'[s]
          <6>1. x.step \in Nat /\ received[s] \in Nat
            <7>1. \A y \in Samples : y.step \in Nat
              BY ConstTypes DEF Samples
            <7>2. received \in [Slots -> 0..MaxSteps + 1] /\ MaxSteps \in Nat
              BY ConstTypes DEF Basics, MasterTypes
            <7>3. received[s] \in 0..MaxSteps + 1
              BY <7>2, Zenon
            <7> QED BY <5>1, <7>1, <7>2, <7>3
          <6>2. received'[s] \in Int
            BY <1>1, ReceiveBasics DEF Basics, MasterTypes
          <6> QED BY <4>2, <5>1, <6>1, <6>2 DEF Kind
        <5> QED BY <1>1, <2>1, <5>1, <5>2 DEF Kind, Was
      <4>9. ASSUME NEW x \in ToSet(p) PROVE Kind(s, x)'
        <5>1. x \in ToSet(a) /\ x.len \in 1..SeqLen /\ x.run = slotOf[s]
          BY <4>1, <4>3, <4>4
        <5> QED BY <1>1, <4>2, <5>1 DEF Kind, Was
      <4> QED BY <4>6, <4>7, <4>8, <4>9 DEF Stored
    <3>4. CASE s \notin Arrivals
      <4>1. buffers'[s] = buffers[s]
        BY <1>3, <3>4 DEF Receives
      <4>2. ASSUME NEW x \in ToSet(buffers[s]), transport = "filesystem" PROVE x.step < received'[s]
        <5>1. s \in Used
          <6>1. buffers[s] # <<>>
            BY <4>2 DEF ToSet
          <6> QED BY <6>1 DEF Basics, Progress
        <5>2. received'[s] = NextStep(s)
          BY <1>3, <3>4, <4>2, <5>1 DEF Receives
        <5>3. x.step < received[s] /\ x \in Samples
          BY <3>1, <4>2, RunsOf DEF Kind
        <5>4. x.step \in Nat /\ x.step # 0
          BY <5>3, ConstTypes DEF Samples
        <5>5. received[s] # 0
          BY <5>3, <5>4
        <5> QED BY <5>2, <5>3, <5>5 DEF NextStep
      <4>3. ASSUME NEW x \in ToSet(buffers[s]) PROVE Kind(s, x)'
        <5>1. Kind(s, x) /\ x.run \in Names
          BY <3>1
        <5> QED BY <1>1, <2>1, <4>2, <5>1 DEF Kind, Was
      <4> QED BY <3>1, <4>1, <4>3 DEF Stored
    <3> QED BY <3>3, <3>4
  <2>4. Chosen'
    BY <1>3 DEF Chosen
  <2> QED BY <2>2, <2>3, <2>4 DEF Fresh
<1> QED BY <1>2, <1>3, ReceiveParts

\* What pack() took of a slot.
LEMMA PackTaken ==
    ASSUME MasterTypes, Pack, NEW s \in Slots
    PROVE  /\ selected' # <<>>
           /\ \E c \in 0..Len(buffers[s]) :
                /\ Taken(selected', s) = [i \in 1..c |-> <<s, buffers[s][i]>>]
                /\ buffers'[s] = SubSeq(buffers[s], c + 1, Len(buffers[s]))
<1>1. /\ position \in Slots /\ buffers \in [Slots -> Seq(Samples)] /\ progress \in [Slots -> Nat]
  BY DEF MasterTypes
<1>2. PICK k \in 1..Len(Work) : selected' = SubSeq(Work, 1, k)
  BY Zenon DEF Pack
<1>3. Work \in Seq(Slots \X Samples)
  BY <1>1, WorkOf
<1>4. selected' # <<>>
  <2> DEFINE w == Work
             S == Slots \X Samples
  <2>1. w \in Seq(S) /\ k \in 1..Len(w) /\ selected' = SubSeq(w, 1, k)
    BY <1>2, <1>3
  <2> HIDE DEF w, S
  <2>2. k \in Nat /\ 1 <= k /\ k <= Len(w) /\ Len(w) \in Nat
    BY <2>1
  <2>3. Len(SubSeq(w, 1, k)) = k
    BY <2>1, <2>2
  <2> QED BY <2>1, <2>2, <2>3
<1> DEFINE c == Len(Taken(selected', s))
<1>5. /\ c \in 0..Len(buffers[s])
      /\ Taken(SubSeq(Work, 1, k), s) = [i \in 1..c |-> <<s, buffers[s][i]>>]
  <2>1. c = Len(Taken(SubSeq(Work, 1, k), s))
    BY <1>2
  <2> HIDE DEF c
  <2> QED BY <1>1, <2>1, TakenOf, Zenon
<1>6. buffers'[s] = SubSeq(buffers[s], c + 1, Len(buffers[s]))
  <2>1. buffers' = [t \in Slots |-> SubSeq(buffers[t], Len(Taken(selected', t)) + 1, Len(buffers[t]))]
    BY Zenon DEF Pack
  <2> QED BY <2>1
<1> QED BY <1>2, <1>4, <1>5, <1>6

\* The rest of a pack stays in the buffer.
LEMMA PackFresh ==
    ASSUME Basics, Fresh, Pack PROVE Fresh'
<1>1. UNCHANGED <<fsVars, linkVars, received>>
  BY DEF Pack
<1>2. \A n \in Names : Drained(n)' = Drained(n)
  BY <1>1 DEF Drained, linkVars
<1>3. \A n \in Names : Apart(n)'
  BY <1>1, <1>2, LessApart DEF fsVars
<1>4. ASSUME NEW s \in Slots PROVE Stored(s)' /\ Picks(s)'
  <2> DEFINE b == buffers[s]
  <2>1. PICK c \in 0..Len(b) :
            /\ Taken(selected', s) = [i \in 1..c |-> <<s, b[i]>>]
            /\ buffers'[s] = SubSeq(b, c + 1, Len(b))
    BY PackTaken DEF Basics
  <2>2. b \in Seq(Samples) /\ IsInjective(b) /\ \A x \in ToSet(b) : x.len \in 1..SeqLen /\ x.run \in Names
    BY RunsOf DEF Fresh, Stored, Kind, Basics, MasterTypes
  <2> HIDE DEF b
  <2>3. RestOf(buffers'[s], b, c, Samples)
    BY <2>1, <2>2, RestParts
  <2>4. IsInjective(buffers'[s]) /\ ToSet(buffers'[s]) \subseteq ToSet(b)
    BY <2>2, <2>3 DEF RestOf
  <2>5. Stored(s)'
    BY <1>1, <1>2, <2>2, <2>4, LessFresh DEF b, fsVars, linkVars
  <2>6. /\ c \in Nat /\ DOMAIN b = 1..Len(b) /\ \A i \in 1..c : i \in 1..Len(b)
        /\ \A i \in 1..Len(b) : b[i] \in ToSet(b)
    BY <2>2 DEF ToSet
  <2> DEFINE t == [i \in 1..c |-> <<s, b[i]>>]
  <2>7. IsInjective(t)
    BY <2>2, <2>6 DEF IsInjective
  <2>8. Len(t) = c /\ \A i \in 1..c : t[i][2] = b[i]
    BY <2>6
  <2>9. Taken(selected, s)' = t
    BY <2>1 DEF Taken
  <2> HIDE DEF t
  <2>10. Picks(s)'
    BY <2>2, <2>6, <2>7, <2>8, <2>9 DEF Picks
  <2> QED BY <2>5, <2>10
<1>5. Chosen'
  <2>1. selected' # <<>>
    BY PackTaken, ConstTypes DEF Basics
  <2> QED BY <1>4, <2>1 DEF Chosen
<1> QED BY <1>3, <1>4, <1>5 DEF Fresh

\* Every step preserves it.
LEMMA NextFresh == ASSUME Basics, Fresh, [Next]_vars PROVE Fresh'
<1>1. ASSUME UNCHANGED <<dir, created, files, transport, wire, pending, received, buffers>>,
             pc' # "train" \/ UNCHANGED <<pc, selected>>
      PROVE  Fresh'
  <2>1. \A n \in Names : Drained(n)' = Drained(n)
    BY <1>1 DEF Drained
  <2>2. \A n \in Names : Apart(n)'
    BY <1>1, <2>1, LessApart
  <2>3. \A s \in Slots : Stored(s)'
    BY <1>1, <2>1, LessFresh, RunsOf DEF Fresh, Stored
  <2>4. Chosen'
    BY <1>1 DEF Fresh, Chosen, Picks
  <2> QED BY <2>2, <2>3, <2>4 DEF Fresh
<1>2. CASE UNCHANGED vars
  BY <1>1, <1>2 DEF vars, fsVars, linkVars, mapVars, packVars
<1>3. CASE \E n \in Names : CreateRun(n) \/ DeleteRun(n) \/ Write(n) \/ Close(n)
  BY <1>3, CreateFresh, DeleteFresh, WriteFresh, CloseFresh
<1>4. CASE Discover \/ Forget
  <2>1. DiscoverRuns /\ pc' # "train" /\ UNCHANGED <<fsVars, linkVars>>
    BY <1>4 DEF Discover, Forget
  <2> QED BY <2>1, DiscoverFresh
<1>5. CASE Receive \/ Pack
  BY <1>5, ReceiveFresh, PackFresh
<1>6. CASE Sleep
  BY <1>1, <1>6 DEF Sleep, fsVars, linkVars, mapVars, packVars
<1>7. CASE TrainStep
  BY <1>1, <1>7 DEF TrainStep, fsVars, linkVars, mapVars, packVars
<1>8. CASE Broadcast
  BY <1>1, <1>8 DEF Broadcast, linkVars, mapVars
<1> QED BY <1>2, <1>3, <1>4, <1>5, <1>6, <1>7, <1>8 DEF Next, Master

\* It holds always.
LEMMA FreshAlways == Spec => [](Basics /\ Fresh)
<1>1. Init => Basics /\ Fresh
  BY InitBasics, InitFresh
<1>2. Basics /\ Fresh /\ [Next]_vars => (Basics /\ Fresh)'
  BY NextBasics, NextFresh
<1> QED BY <1>1, <1>2, PTL DEF Spec

-----------------------------------------------------------------------------
(* The grid of a round                                                     *)

\* What the packer is given of a slot: samples of the slot's run, with ids that
\* differ, which are trained uncut.
Untouched(s) ==
    /\ Packable(Rollouts(s), Samples)
    /\ Cut(Rollouts(s)) = Rollouts(s)
    /\ \A x \in ToSet(Rollouts(s)) : Truncate(x) = x /\ s \in Used /\ x.id.run = slotOf[s]
    /\ (\E x \in ToSet(selected) : x[1] = s) => Rollouts(s) # <<>>

\* The types of a sample that the packer takes.
LEMMA ContentType ==
    ASSUME NEW n \in 1..SeqLen
    PROVE  Content[n] \in Seq(Nat) /\ Len(Content[n]) = n
<1>1. Content \in Seq(Seq(Nat)) /\ Len(Content) >= SeqLen /\ SeqLen \in Nat /\ Len(Content[n]) = n
  BY ContentAssumption, ConstTypes
<1>2. n \in 1..Len(Content)
  <2> DEFINE l == Len(Content)
  <2>1. l \in Nat /\ l >= SeqLen
    BY <1>1
  <2> HIDE DEF l
  <2>2. n \in 1..l
    BY <1>1, <2>1
  <2> QED BY <2>2 DEF l
<1> QED BY <1>1, <1>2

\* That is what pack() took of it.
LEMMA RolloutsAre ==
    ASSUME Basics, Fresh, pc = "train", NEW s \in Slots
    PROVE  Untouched(s)
<1> DEFINE taken == Taken(selected, s)
           n == Len(taken)
           q == Rollouts(s)
<1>1. selected \in Seq(Slots \X Samples)
  BY DEF Basics, MasterTypes
<1>2. ToSet(taken) = ToSet(selected) \cap ({s} \X Samples) /\ taken \in Seq(Slots \X Samples)
  BY <1>1, SelectedContent DEF Taken
<1>3. Picks(s)
  BY DEF Fresh, Chosen
<1>4. q = [i \in 1..n |-> [id |-> taken[i][2], types |-> Content[taken[i][2].len], routed |-> FALSE]]
  BY Zenon DEF Rollouts
<1>5. n \in Nat /\ DOMAIN taken = 1..n
  BY <1>2
<1>6. \A i \in 1..n : taken[i] \in ToSet(selected) /\ taken[i][1] = s /\ taken[i][2] \in Samples
                      /\ taken[i] = <<s, taken[i][2]>>
  <2>1. \A i \in 1..n : taken[i] \in ToSet(taken)
    BY <1>5 DEF ToSet
  <2> HIDE DEF taken, n
  <2> QED BY <1>2, <2>1
<1>7. \A i, j \in 1..n : taken[i] = taken[j] => i = j
  BY <1>3, <1>5 DEF Picks, IsInjective
<1>8. \A i \in 1..n : taken[i][2].len \in 1..SeqLen
  BY <1>3 DEF Picks
<1>9. \A x \in ToSet(selected) : x[1] \in Used /\ x[2].run = slotOf[x[1]]
  BY DEF Basics, Owned
<1>10. (\E x \in ToSet(selected) : x[1] = s) => n # 0
  <2>1. \A x \in ToSet(selected) : x \in Slots \X Samples
    BY <1>1, ToSetSeq
  <2> SUFFICES ASSUME NEW x \in ToSet(selected), x[1] = s PROVE n # 0
    OBVIOUS
  <2>2. x \in ToSet(taken)
    BY <1>2, <2>1
  <2>3. ToSet(taken) = {taken[i] : i \in 1..n}
    BY <1>5 DEF ToSet
  <2> QED BY <1>5, <2>2, <2>3
<1> HIDE DEF taken, n, q
<1>11. ASSUME NEW i \in 1..n
       PROVE  /\ q[i] \in SampleOf(Samples) /\ q[i].id = taken[i][2]
              /\ Size(q[i]) \in 1..SeqLen
  <2> DEFINE x == taken[i][2]
             t == Content[x.len]
  <2>1. x \in Samples /\ t \in Seq(Nat) /\ Len(t) \in 1..SeqLen
    BY <1>6, <1>8, ContentType
  <2>2. q[i] = [id |-> x, types |-> t, routed |-> FALSE]
    BY <1>4
  <2> HIDE DEF x, t
  <2> QED BY <2>1, <2>2 DEF SampleOf, Size, x
<1>12. q \in Seq(SampleOf(Samples)) /\ Len(q) = n /\ DOMAIN q = 1..n
  <2>1. q = [i \in 1..n |-> q[i]]
    BY <1>4
  <2>2. q \in [1..n -> SampleOf(Samples)]
    BY <1>11, <2>1
  <2> QED BY <1>5, <2>2
<1>13. ASSUME NEW i \in 1..n PROVE Truncate(q[i]) = q[i] /\ Truncate(q[i]).types # <<>>
  <2>1. Size(q[i]) <= SeqLen /\ Size(q[i]) # 0
    <3>1. SeqLen \in Nat
      BY ConstTypes
    <3> QED BY <1>11, <3>1
  <2>2. Truncate(q[i]) = q[i]
    BY <1>11, <2>1, TruncateIs
  <2>3. q[i].types # <<>>
    BY <2>1 DEF Size
  <2> QED BY <2>2, <2>3
<1>14. \A i, j \in 1..n : q[i].id = q[j].id => i = j
  BY <1>6, <1>7, <1>11
<1>15. Packable(q, Samples)
  BY <1>12, <1>13, <1>14 DEF Packable
<1>16. Cut(q) = q
  <2>1. Cut(q) = [i \in 1..n |-> q[i]]
    BY <1>12, <1>13 DEF Cut
  <2> QED BY <1>4, <2>1
<1>17. ToSet(q) = {q[i] : i \in 1..n}
  BY <1>12 DEF ToSet
<1>18. \A i \in 1..n : s \in Used /\ q[i].id.run = slotOf[s]
  <2>1. \A i \in 1..n : taken[i] \in ToSet(selected) /\ taken[i][1] = s /\ q[i].id = taken[i][2]
    BY <1>6, <1>11
  <2> QED BY <1>9, <2>1
<1>19. \A x \in ToSet(q) : Truncate(x) = x /\ s \in Used /\ x.id.run = slotOf[s]
  BY <1>13, <1>17, <1>18
<1>20. n # 0 => q # <<>>
  BY <1>12
<1> QED BY <1>10, <1>15, <1>16, <1>19, <1>20 DEF Untouched, q

\* The part of the grid that is of a slot, and that it trains what was taken
\* of it.
Part(s) ==
    IF Rollouts(s) = <<>> THEN [r \in 1..Workers |-> <<>>] ELSE PrepareBatch(Rollouts(s))

\* It trains each sample of the slot once.
LEMMA PartDeals ==
    ASSUME NEW s \in Slots, Untouched(s)
    PROVE  /\ Deals(Part(s), ToSet(Rollouts(s))) /\ Pieces(ToSet(Rollouts(s)))
           /\ \A x, y \in ToSet(Rollouts(s)) : x.id = y.id => x = y
<1> DEFINE q == Rollouts(s)
           S == Trainable(q)
<1>1. Packable(q, Samples) /\ Cut(q) = q
  BY DEF Untouched
<1> HIDE DEF q
<1>2. S = ToSet(q)
  BY <1>1 DEF Trainable
<1>3. /\ Cut(q) \in Seq(S) /\ IsInjective(Cut(q)) /\ Pieces(S)
      /\ \A x, y \in S : x.id = y.id => x = y
  BY <1>1, CutIsTrainable
<1>4. ToSet(Cut(q)) = S
  BY DEF Trainable
<1> HIDE DEF S
<1>5. CASE q = <<>>
  <2>1. ToSet(q) = {}
    BY <1>5 DEF ToSet
  <2>2. Part(s) = [r \in 1..Workers |-> <<>>]
    BY <1>5 DEF Part, q
  <2>3. Deals(Part(s), ToSet(q))
    BY <2>1, <2>2, DealsEmpty
  <2> QED BY <1>2, <1>3, <2>3 DEF q
<1>6. CASE q # <<>>
  <2>1. Part(s) = PrepareBatch(q)
    BY <1>6 DEF Part, q
  <2>2. Deals(Part(s), S)
    BY <1>3, <1>4, <2>1, PreparedDeals
  <2> QED BY <1>2, <1>3, <2>2 DEF q
<1> QED BY <1>5, <1>6

\* The grids of several parts, flattened rank by rank, and what they train.
Ranks(n, parts) == [r \in 1..Workers |-> FlattenSeq([i \in 1..n |-> parts[i][r]])]
AllOf(n, sets) == UNION {sets[i] : i \in 1..n}

\* Grids that train different samples can be flattened rank by rank.
LEMMA DealsFlatten ==
    ASSUME NEW n \in Nat \ {0}, NEW parts, NEW sets,
           \A i \in 1..n : Deals(parts[i], sets[i]),
           \A i, j \in 1..n : i # j => sets[i] \cap sets[j] = {}
    PROVE  Deals(Ranks(n, parts), AllOf(n, sets))
<1> DEFINE cell(i, r) == parts[i][r]
           X == UNION {ToSet(cell(w[1], w[2])) : w \in (1..n) \X (1..Workers)}
           row(r) == [i \in 1..n |-> cell(i, r)]
           Unfolds(v, r) ==
              /\ v \in [0..n -> Seq(X)] /\ FlattenSeq(row(r)) = v[n]
              /\ v[0] = <<>>
              /\ \A i \in 1..n : v[i] = v[i - 1] \o cell(i, r)
           u(r) == CHOOSE v : Unfolds(v, r)
           grid(i) == [r \in 1..Workers |-> u(r)[i]]
           E(i) == UNION {sets[j] : j \in 1..i}
<1>1. ASSUME NEW i \in 1..n, NEW r \in 1..Workers PROVE cell(i, r) \in Seq(X)
  <2> DEFINE s == cell(i, r)
  <2>1. PICK B, c : Dealt(parts[i], B, c)
    BY DEF Deals
  <2> DEFINE M == B \cup {Dummy(mb) : mb \in B}
  <2>2. s \in Seq(M)
    <3>1. parts[i] \in [1..Workers -> Seq(M)]
      BY <2>1 DEF Dealt
    <3> HIDE DEF M
    <3> QED BY <3>1
  <2>3. ToSet(s) \subseteq X
    <3>1. <<i, r>> \in (1..n) \X (1..Workers) /\ <<i, r>>[1] = i /\ <<i, r>>[2] = r
      OBVIOUS
    <3> HIDE DEF cell
    <3> QED BY <3>1
  <2> HIDE DEF s, X, M
  <2>4. Len(s) \in Nat /\ DOMAIN s = 1..Len(s) /\ s = [k \in 1..Len(s) |-> s[k]]
    BY <2>2
  <2>5. \A k \in 1..Len(s) : s[k] \in X
    BY <2>3, <2>4 DEF ToSet
  <2>6. s \in Seq(X)
    BY <2>4, <2>5
  <2> QED BY <2>6 DEF s
<1> HIDE DEF cell, X
<1>2. ASSUME NEW r \in 1..Workers PROVE Unfolds(u(r), r)
  <2>1. row(r) \in Seq(Seq(X)) /\ Len(row(r)) = n /\ row(r) # <<>>
    <3>1. \A i \in 1..n : cell(i, r) \in Seq(X)
      BY <1>1
    <3>2. row(r) \in Seq(Seq(X)) /\ Len(row(r)) = n
      BY <3>1
    <3> HIDE DEF row
    <3> QED BY <3>2
  <2>2. \A i \in 1..n : row(r)[i] = cell(i, r)
    OBVIOUS
  <2> HIDE DEF row
  <2>3. PICK v \in [0..Len(row(r)) -> Seq(X)] :
            /\ FlattenSeq(row(r)) = v[Len(row(r))]
            /\ v[0] = <<>>
            /\ \A i \in 1..Len(row(r)) : v[i] = v[i - 1] \o row(r)[i]
    BY <2>1, FlattenUnfolds
  <2>4. Unfolds(v, r)
    BY <2>1, <2>2, <2>3
  <2> HIDE DEF Unfolds
  <2> QED BY <2>4, Zenon
<1> HIDE DEF u, row
<1>3. \A r \in 1..Workers : /\ u(r)[n] = FlattenSeq(row(r)) /\ u(r)[0] = <<>>
                            /\ \A i \in 1..n : u(r)[i] = u(r)[i - 1] \o cell(i, r)
  BY <1>2
<1> HIDE DEF Unfolds
<1> DEFINE T == {i \in 0..n : Deals(grid(i), E(i))}
<1>4. 0 \in T
  <2>1. grid(0) = [r \in 1..Workers |-> <<>>]
    BY <1>3
  <2>2. E(0) = {} /\ 0 \in 0..n
    OBVIOUS
  <2> HIDE DEF grid, E
  <2>3. Deals(grid(0), E(0))
    BY <2>1, <2>2, DealsEmpty
  <2> QED BY <2>2, <2>3
<1>5. ASSUME NEW i \in 0..(n - 1), i \in T PROVE i + 1 \in T
  <2> DEFINE k == i + 1
  <2>1. k \in 1..n /\ k - 1 = i /\ k \in 0..n /\ 1..k = (1..i) \cup {k} /\ \A j \in 1..i : j \in 1..n /\ j # k
    OBVIOUS
  <2> HIDE DEF k
  <2>2. grid(k) = Joined(grid(i), parts[k])
    <3>1. \A r \in 1..Workers : u(r)[k] = u(r)[i] \o parts[k][r]
      BY <1>3, <2>1 DEF cell
    <3>2. \A r \in 1..Workers : grid(i)[r] = u(r)[i]
      OBVIOUS
    <3>3. Joined(grid(i), parts[k]) = [r \in 1..Workers |-> grid(i)[r] \o parts[k][r]]
      BY DEF Joined
    <3> QED BY <3>1, <3>2, <3>3
  <2>3. E(k) = E(i) \cup sets[k]
    BY <2>1
  <2>4. E(i) \cap sets[k] = {}
    BY <2>1
  <2>5. Deals(grid(i), E(i))
    BY <1>5
  <2> HIDE DEF grid, E
  <2>6. Deals(grid(k), E(k))
    BY <2>1, <2>2, <2>3, <2>4, <2>5, DealsConcat
  <2>7. k \in T
    BY <2>1, <2>6
  <2> QED BY <2>7 DEF k
<1>6. \A i \in 0..n : i \in T
  <2> HIDE DEF T
  <2> QED BY <1>4, <1>5, UpToInduction
<1>7. Deals(grid(n), E(n))
  <2> HIDE DEF grid, E
  <2>1. n \in 0..n
    OBVIOUS
  <2> QED BY <1>6, <2>1
<1>8. grid(n) = [r \in 1..Workers |-> FlattenSeq([i \in 1..n |-> parts[i][r]])]
  BY <1>3 DEF row, cell
<1> HIDE DEF grid
<1>9. grid(n) = Ranks(n, parts)
  BY <1>8, Zenon DEF Ranks
<1>10. E(n) = AllOf(n, sets)
  BY Zenon DEF AllOf
<1> QED BY <1>7, <1>9, <1>10, Zenon

\* Different slots are of different runs.
LEMMA RolloutsDiffer ==
    ASSUME Basics, NEW s \in Slots, NEW t \in Slots, Untouched(s), Untouched(t), s # t
    PROVE  \A x \in ToSet(Rollouts(s)), y \in ToSet(Rollouts(t)) : x.id # y.id
BY DEF Untouched, Basics, SlotsDiffer

\* So what is trained is an even grid of what was taken.
LEMMA FreshEven ==
    ASSUME Basics, Fresh, pc = "train", NEW all, all = FlattenSeq([i \in 1..MaxRuns |-> Rollouts(i - 1)])
    PROVE  EvenGrid(all, Grid)
<1> DEFINE n == MaxRuns
           parts == [i \in 1..n |-> Part(i - 1)]
           sets == [i \in 1..n |-> ToSet(Rollouts(i - 1))]
           q == [i \in 1..n |-> Rollouts(i - 1)]
           S == UNION {sets[i] : i \in 1..n}
<1>1. n \in Nat \ {0} /\ (\A i \in 1..n : i - 1 \in Slots) /\ \A s \in Slots : s + 1 \in 1..n /\ (s + 1) - 1 = s
  BY ConstTypes DEF Slots
<1>2. \A s \in Slots : Untouched(s)
  BY RolloutsAre
<1>3. \A s \in Slots : Deals(Part(s), ToSet(Rollouts(s))) /\ Pieces(ToSet(Rollouts(s)))
                       /\ \A x, y \in ToSet(Rollouts(s)) : x.id = y.id => x = y
  BY <1>2, PartDeals
<1>4. \A s, t \in Slots : s # t => \A x \in ToSet(Rollouts(s)), y \in ToSet(Rollouts(t)) : x.id # y.id
  BY <1>2, RolloutsDiffer
<1> HIDE DEF n
<1>5. \A i \in 1..n : parts[i] = Part(i - 1) /\ sets[i] = ToSet(Rollouts(i - 1)) /\ q[i] = Rollouts(i - 1)
  OBVIOUS
<1>6. \A i, j \in 1..n : i # j => i - 1 # j - 1
  BY <1>1
<1>7. \A i \in 1..n : Deals(parts[i], sets[i])
  BY <1>1, <1>3, <1>5
<1>8. \A i, j \in 1..n : i # j => \A x \in sets[i], y \in sets[j] : x.id # y.id
  BY <1>1, <1>4, <1>5, <1>6
<1>9. Grid = [r \in 1..Workers |-> FlattenSeq([i \in 1..n |-> parts[i][r]])]
  BY Zenon DEF Grid, Part, n
<1> HIDE DEF parts, sets
<1>10. Deals(Grid, S)
  <2>1. \A i, j \in 1..n : i # j => sets[i] \cap sets[j] = {}
    BY <1>8
  <2>2. n \in Nat \ {0}
    BY <1>1, Zenon
  <2>3. Deals(Ranks(n, parts), AllOf(n, sets))
    BY <1>7, <2>1, <2>2, DealsFlatten, Zenon
  <2>4. S = AllOf(n, sets)
    BY Zenon DEF AllOf
  <2> HIDE DEF S
  <2>5. Grid = Ranks(n, parts)
    BY <1>9, Zenon DEF Ranks
  <2> QED BY <2>3, <2>4, <2>5, Zenon
<1>11. Pieces(S) /\ \A x, y \in S : x.id = y.id => x = y
  <2>1. \A i \in 1..n : Pieces(sets[i]) /\ \A x, y \in sets[i] : x.id = y.id => x = y
    BY <1>1, <1>3, <1>5
  <2>2. Pieces(S)
    BY <2>1 DEF Pieces
  <2>3. ASSUME NEW x \in S, NEW y \in S, x.id = y.id PROVE x = y
    <3>1. PICK i \in 1..n : x \in sets[i]
      OBVIOUS
    <3>2. PICK j \in 1..n : y \in sets[j]
      OBVIOUS
    <3> QED BY <1>8, <2>1, <2>3, <3>1, <3>2
  <2> QED BY <2>2, <2>3
<1>12. all = FlattenSeq(q)
  BY DEF n
<1>13. q \in Seq(Seq(SampleOf(Samples))) /\ Len(q) = n /\ q # <<>>
  <2>1. \A i \in 1..n : Rollouts(i - 1) \in Seq(SampleOf(Samples))
    BY <1>1, <1>2 DEF Untouched, Packable
  <2>2. q \in Seq(Seq(SampleOf(Samples))) /\ Len(q) = n
    BY <1>1, <2>1
  <2> HIDE DEF q
  <2> QED BY <1>1, <2>2
<1> HIDE DEF q
<1>14. all \in Seq(SampleOf(Samples)) /\ ToSet(all) = UNION {ToSet(q[i]) : i \in 1..n}
  BY <1>12, <1>13, FlattenContent
<1>15. ToSet(all) = S
  BY <1>5, <1>14
<1>16. \A x \in S : Truncate(x) = x
  <2>1. \A i \in 1..n : \A x \in sets[i] : Truncate(x) = x
    BY <1>1, <1>2, <1>5 DEF Untouched
  <2> QED BY <2>1
<1>17. S # {}
  <2>1. selected # <<>> /\ selected \in Seq(Slots \X Samples)
    BY DEF Fresh, Chosen, Basics, MasterTypes
  <2>2. selected[1] \in ToSet(selected) /\ selected[1] \in Slots \X Samples
    BY <2>1 DEF ToSet
  <2> DEFINE s == selected[1][1]
  <2>3. s \in Slots /\ \E x \in ToSet(selected) : x[1] = s
    BY <2>2
  <2> HIDE DEF s
  <2>4. Rollouts(s) # <<>> /\ Rollouts(s) \in Seq(SampleOf(Samples))
    BY <1>2, <2>3 DEF Untouched, Packable
  <2>5. Rollouts(s)[1] \in ToSet(Rollouts(s))
    BY <2>4 DEF ToSet
  <2>6. s + 1 \in 1..n /\ sets[s + 1] = ToSet(Rollouts(s))
    BY <1>1, <1>5, <2>3
  <2> QED BY <2>5, <2>6
<1> HIDE DEF S
<1>18. Len(all) \in Nat /\ Cut(all) = all
  <2>1. Len(all) \in Nat /\ DOMAIN all = 1..Len(all) /\ all = [i \in 1..Len(all) |-> all[i]]
    BY <1>14, Entries, Zenon
  <2>2. \A i \in 1..Len(all) : Truncate(all[i]) = all[i]
    BY <1>15, <1>16, <2>1 DEF ToSet
  <2>3. Cut(all) = [i \in 1..Len(all) |-> all[i]]
    BY <2>2 DEF Cut
  <2> QED BY <2>1, <2>3
<1> QED BY <1>10, <1>11, <1>15, <1>17, <1>18, DealsEven

\* Whatever runs come and go, whatever batches they write, and however the
\* round robin mixes them, the ranks get equally many micro batches, of one
\* modality at each index, and every selected sample is trained once.
THEOREM GridAlwaysEven == Spec => []GridEven
<1>1. ASSUME Basics, Fresh PROVE GridEven
  <2>1. SUFFICES ASSUME pc = "train"
                 PROVE  EvenGrid(FlattenSeq([i \in 1..MaxRuns |-> Rollouts(i - 1)]), Grid)
    BY Zenon DEF GridEven
  <2> QED BY <1>1, <2>1, FreshEven
<1>2. Basics /\ Fresh => GridEven
  BY <1>1
<1> QED BY <1>2, FreshAlways, PTL
===============================================================================
