------------------------------- MODULE Lists --------------------------------
(***************************************************************************)
(* Parts of sequences, as recursive functions.                              *)
(***************************************************************************)
EXTENDS Integers, FiniteSets, SequencesExt

\* A function on 1..n, as a sequence.
Listed(f) == SubSeq(f, 1, Cardinality(DOMAIN f))

\* What stands at the places K of s.
Picked(s, K) ==
    LET upTo[k \in 0..Len(s)] == IF k = 0 THEN <<>>
                                 ELSE IF k \in K THEN Append(upTo[k - 1], s[k]) ELSE upTo[k - 1]
    IN upTo[Len(s)]

\* The members of K, a set of numbers from 1 to n, in order.
Ordered(K, n) == Picked([k \in 1..n |-> k], K)
=============================================================================
