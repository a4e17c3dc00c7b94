--------------------------- MODULE MCServerClients ---------------------------
(* ServerClients with two slots and three addresses on two hosts.          *)
EXTENDS ServerClients, TLC

CONSTANTS a1, a2, a3, h1, h2

MCAddrs == {a1, a2, a3}
MCHosts == {h1, h2}
MCHostOf == [a \in Addrs |-> IF a = a3 THEN h2 ELSE h1]
=============================================================================
