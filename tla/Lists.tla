-------------------------------- MODULE Lists --------------------------------
(* Array.prototype.filter and its like: what stays of a list, in its order. *)
EXTENDS Naturals, FiniteSets, Sequences

\* The entries of seq at the places in K, a subset of its domain: the entry that becomes
\* the nth is the one at the place that n places of K reach up to.
Kept(seq, K) ==
  LET rank(i) == Cardinality({j \in K : j <= i})
  IN  [n \in 1 .. Cardinality(K) |-> seq[CHOOSE i \in K : rank(i) = n]]
=============================================================================
