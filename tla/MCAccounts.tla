----------------------------- MODULE MCAccounts -----------------------------
(* Accounts on small instances.  Launches are alike, and so are the people *)
(* with a token: nothing in Accounts tells them apart.                     *)
EXTENDS Accounts, TLC

\* Without is the filter it stands for.
ASSUME WithoutSelects ==
  \A list \in BoundedSeq([who : People, token : 0..1], 3), p \in People :
    Without(list, p) = SelectSeq(list, LAMBDA a : a.who # p)

Symmetry == Permutations(Launches) \cup Permutations(People \ Offline)
=============================================================================
