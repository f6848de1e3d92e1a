---------------------------- MODULE MCRelayList ----------------------------
(***************************************************************************)
(* An instance of RelayList for TLC: three relays, so that one entry can  *)
(* sit between two others in the iteration order, one register caller, a *)
(* clock of two seconds, and scores that clamp to 0.0, 0.6 and 1.0 (and  *)
(* NaN in the run about it).                                               *)
(***************************************************************************)
EXTENDS RelayList

CONSTANTS r1, r2, r3, c1

MCPeers == {r1, r2, r3}
MCCallers == {c1}
(* -0.2, 0.6 and 1.5 *)
MCScores == {-2, 6, 15}
(* the same, and a NaN score *)
MCScoresNaN == {-2, 6, 15, NaN}
MCMaxAges == {1}
=============================================================================
