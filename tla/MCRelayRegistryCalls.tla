------------------------ MODULE MCRelayRegistryCalls ------------------------
(***************************************************************************)
(* An instance of RelayRegistryCalls for TLC: two relays, two concurrent  *)
(* register callers, scores below, inside and above [0.0, 1.0], a clock   *)
(* of four seconds and a one-second TTL, so that prune_stale drops none,  *)
(* one or both entries and remove finds or misses its relay.              *)
(***************************************************************************)
EXTENDS RelayRegistryCalls

CONSTANTS r1, r2, c1, c2

MCPeers == {r1, r2}
MCCallers == {c1, c2}
(* -0.2, 0.5 and 1.5 *)
MCScores == {-2, 5, 15}
MCMaxAges == {1}
=============================================================================
