--------------------------- MODULE MCMeshcoreMqtt ---------------------------
(* MeshcoreMqtt for TLC: clients and topics are interchangeable.           *)
EXTENDS MeshcoreMqtt, TLC

Symmetry == Permutations(Clients) \cup Permutations(Topics)
=============================================================================
