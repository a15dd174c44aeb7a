--------------------------- MODULE MCSyncCommand ---------------------------
(* SyncCommand on small sets of model values.                               *)
EXTENDS SyncCommand, TLC

\* Items, ClientIds and request slots are interchangeable.
Symmetry == Permutations(Items) \cup Permutations(ClientIds) \cup Permutations(Reqs)
=============================================================================
