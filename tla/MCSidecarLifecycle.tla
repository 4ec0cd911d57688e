------------------------- MODULE MCSidecarLifecycle -------------------------
(* SidecarLifecycle for TLC: children and users are interchangeable. *)
EXTENDS SidecarLifecycle, TLC

Symmetry == Permutations(Children) \cup Permutations(Users)
=============================================================================
