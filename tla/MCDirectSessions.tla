-------------------------- MODULE MCDirectSessions --------------------------
(* The two sessions of session_test.cc, with one request and one notification. *)
EXTENDS DirectSessions, TLC

CONSTANTS client, server, r1, n1

MCSessions == {client, server}
MCPeer     == [s \in MCSessions |-> IF s = client THEN server ELSE client]

(* Exchanging the two sessions maps behaviours to behaviours. *)
Swap == Permutations(MCSessions)
=============================================================================
