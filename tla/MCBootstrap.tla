---------------------------- MODULE MCBootstrap ----------------------------
(***************************************************************************)
(* An instance of Bootstrap for TLC: addresses over two letters, every    *)
(* BOOTSTRAP_NODES value of up to four characters (blank, comma-only,     *)
(* padded and multi-field values among them), and packaged files that     *)
(* are empty, list one node, or list two.  The hardcoded tier carries the *)
(* same three addresses in both getters, as the two literals in the code *)
(* do.                                                                     *)
(***************************************************************************)
EXTENDS Bootstrap

CONSTANTS a, b

MCLetters == {a, b}
MCHardcodedAddrs == << <<a, a>>, <<b, b>>, <<a, b>> >>
MCHardcodedInfo ==
    << [alias |-> <<b, b>>, multiaddr |-> <<a, a>>],
       [alias |-> <<a, b>>, multiaddr |-> <<b, b>>],
       [alias |-> <<b, a>>, multiaddr |-> <<a, b>>] >>
MCJsonFiles ==
    { <<>>,
      << [alias |-> <<a>>, multiaddr |-> <<b, a>>] >>,
      << [alias |-> <<a>>, multiaddr |-> <<b, a>>], [alias |-> <<b>>, multiaddr |-> <<b>>] >> }
=============================================================================
