--------------------------- MODULE MCNobleConnect ---------------------------
(* NobleConnect on the two sessions of the program: three calls that ask   *)
(* for one peripheral, in any session, and two calls where the first is    *)
(* followed by one of the same session or the other for the same           *)
(* peripheral or another.                                                  *)
EXTENDS NobleConnect, TLC

CONSTANTS k1, k2, meshtastic, meshcore, d1, d2

AnyRequest == Calls \X Sessions \X Devices

TwoRequests == {<<k1, meshtastic, d2>>, <<k2, meshtastic, d1>>,
                <<k2, meshtastic, d2>>, <<k2, meshcore, d2>>}

Symmetry == Permutations(Calls) \cup Permutations(Sessions)
=============================================================================
