------------------------- MODULE MCDeviceSyncState -------------------------
(* DeviceSyncState on small sets of model values.                          *)
EXTENDS DeviceSyncState, TLC

\* Request slots and policy keys are interchangeable.
Symmetry == Permutations(Reqs) \cup Permutations(PolicyKeys)
=============================================================================
