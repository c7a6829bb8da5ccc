------------------------ MODULE MCInstanceLifecycle ------------------------
(* InstanceLifecycle on small instances.                                   *)
EXTENDS InstanceLifecycle

\* Bounds: an instance with a modpack is not reloaded, and its stages that catch have nothing to do.
Bounded == modpack => reloads' = 0 /\ \A a \in Attempts, s \in Catching : stage'[a][s] \notin {"sent", "refused", "threw"}

BoundedSpec == Init /\ [][Next /\ Bounded]_vars /\ Fairness
=============================================================================
