------------------------------- MODULE MCWsHub -------------------------------
(* Instances of WsHub for TLC. *)
EXTENDS WsHub, TLC

\* Connections are interchangeable, and so are heartbeats and processes.
Symmetry ==
    Permutations(Sockets) \cup Permutations(Calls) \cup Permutations(Workers)
==============================================================================
