-------------------------------- MODULE SeqTools --------------------------------
(***************************************************************************)
(* Operators on sequences that several modules need, written without the   *)
(* operator parameters of SelectSeq, folds and SortSeq, of which nothing   *)
(* could be proved.                                                        *)
(***************************************************************************)
EXTENDS Integers, SequencesExt

\* The elements of s that are in A, in the order of s.
Selected(s, A) ==
    LET upTo[i \in 0..Len(s)] ==
            IF i = 0 THEN <<>>
            ELSE IF s[i] \in A THEN Append(upTo[i - 1], s[i]) ELSE upTo[i - 1]
    IN  upTo[Len(s)]

\* The sum of a sequence of numbers.
SumSeq(s) ==
    LET upTo[i \in 0..Len(s)] == IF i = 0 THEN 0 ELSE upTo[i - 1] + s[i]
    IN  upTo[Len(s)]

\* The same sequence: TLC computes the elements of a concatenation once, those
\* of a function each time it is applied.
Computed(s) == <<>> \o s

\* The elements of a finite set in a strict total order, a set of pairs.
InOrder(S, before) ==
    LET at(k) == CHOOSE x \in S : Cardinality({y \in S : <<y, x>> \in before}) = k - 1
    IN  Computed([k \in 1..Cardinality(S) |-> at(k)])
===============================================================================
