----------------------------- MODULE Selection -----------------------------
(***************************************************************************)
(* Array.prototype.filter.  (The standard SelectSeq is the same, but       *)
(* recursive.)                                                             *)
(***************************************************************************)
EXTENDS Naturals, Sequences, FiniteSets

(* Those elements of a list that are in a set, in their order.             *)
Selected(list, set) ==
  LET kept == {i \in DOMAIN list : list[i] \in set}
      Rank(i) == Cardinality({j \in kept : j <= i})
  IN  [k \in 1..Cardinality(kept) |-> list[CHOOSE i \in kept : Rank(i) = k]]
=============================================================================
