------------------------------ MODULE Ordered ------------------------------
(***************************************************************************)
(* What the code sorts and what it filters, as sequences that are defined   *)
(* by counting: the k-th element is the one that has k - 1 before it.  The  *)
(* operators of the standard library are recursive or choose a permutation; *)
(* of these ones it can be proved what they return (OrderedProofs).         *)
(***************************************************************************)
EXTENDS Naturals, FiniteSets, Sequences

\* The pairs R order the elements of S strictly, one after the other.
StrictlyOrders(R, S) ==
  /\ \A x \in S : <<x, x>> \notin R
  /\ \A x, y \in S : x # y => <<x, y>> \in R \/ <<y, x>> \in R
  /\ \A x, y, z \in S : <<x, y>> \in R /\ <<y, z>> \in R => <<x, z>> \in R

UpTo(x, S, R) == {y \in S : y = x \/ <<y, x>> \in R}

\* The elements of S in the order R.
Sorted(S, R) ==
  [k \in 1 .. Cardinality(S) |-> CHOOSE x \in S : Cardinality(UpTo(x, S, R)) = k]

\* The elements of the sequence s at the positions I, in its order.
Ascending(I) == Sorted(I, {p \in I \X I : p[1] < p[2]})
Picked(s, I) == LET at == Ascending(I) IN [k \in 1 .. Cardinality(I) |-> s[at[k]]]

\* The elements of the sequence s that are in S, in its order.
Those(s, S) ==
  LET upTo[n \in 0 .. Len(s)] ==
        IF n = 0 THEN <<>>
        ELSE IF s[n] \in S THEN Append(upTo[n - 1], s[n])
        ELSE upTo[n - 1]
  IN upTo[Len(s)]
=============================================================================
