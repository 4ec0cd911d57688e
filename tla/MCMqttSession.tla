---------------------------- MODULE MCMqttSession ----------------------------
(* MqttSession for TLC: clients and prefixes are interchangeable.          *)
EXTENDS MqttSession, TLC

Symmetry == Permutations(Clients) \cup Permutations(Prefixes)
==============================================================================
