-------------------------- MODULE MCRelayRegistry --------------------------
(***************************************************************************)
(* A small instance of RelayRegistry for TLC: two relays, two concurrent  *)
(* register callers, scores below, inside and above [0.0, 1.0] (and NaN   *)
(* in the run about it), a clock of four seconds and a one-second TTL so  *)
(* that entries go stale within the bound.                                 *)
(***************************************************************************)
EXTENDS RelayRegistry

CONSTANTS r1, r2, c1, c2

MCPeers == {r1, r2}
MCCallers == {c1, c2}
(* -0.2, 0.5 and 1.5 *)
MCScores == {-2, 5, 15}
(* the same, and a NaN score *)
MCScoresNaN == {-2, 5, 15, NaN}
MCMaxAges == {1}
=============================================================================
