---------------------------- MODULE Collections ----------------------------
(***************************************************************************)
(* What the offline scripts do with dictionaries, sorted() and sums.       *)
(***************************************************************************)
EXTENDS Integers, FiniteSets, FiniteSetsExt

\* f[k] = v for a dictionary f.
Put(f, k, v) == [x \in DOMAIN f \cup {k} |-> IF x = k THEN v ELSE f[x]]

\* sorted().  (SetToSortSeq enumerates all sequences over the set.)
InOrder(S) ==
  [i \in 1 .. Cardinality(S) |-> CHOOSE x \in S : Cardinality({y \in S : y < x}) = i - 1]

\* The sum of f over S.
SumOver(f, S) == MapThenSumSet(LAMBDA x : f[x], S)
=============================================================================
