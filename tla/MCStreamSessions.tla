-------------------------- MODULE MCStreamSessions --------------------------
(* A client and a server, each in a process of its own. *)
EXTENDS StreamSessions, TLC

CONSTANTS client, server, r1, n1

MCSessions == {client, server}
MCPeer     == [s \in MCSessions |-> IF s = client THEN server ELSE client]

(* Exchanging the two sessions maps behaviours to behaviours. *)
Swap == Permutations(MCSessions)
=============================================================================
