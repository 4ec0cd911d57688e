--------------------------- MODULE MCBleScanLease ---------------------------
(* BleScanLease on two Noble sessions and two Reticulum clients.           *)
EXTENDS BleScanLease, TLC

Symmetry == Permutations(Clients) \cup Permutations(Sessions)
=============================================================================
