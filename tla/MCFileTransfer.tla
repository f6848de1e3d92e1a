--------------------------- MODULE MCFileTransfer ---------------------------
(***************************************************************************)
(* A small instance of FileTransfer for TLC: two file contents, three     *)
(* hashes (h3 is the hash of nothing stored, so its downloads exhaust the *)
(* attempt budget), one readable and one unreadable upload source, one    *)
(* output path, channels of capacity 2 and counters that saturate at 2.   *)
(***************************************************************************)
EXTENDS FileTransfer, TLC

CONSTANTS d1, d2, h1, h2, h3, s1, s2, p1

MCData == {d1, d2}
MCHashes == {h1, h2, h3}
MCDigest == (d1 :> h1) @@ (d2 :> h2)
MCSources == {s1, s2}
MCDisk == (s1 :> d1) @@ (s2 :> NoFile)
MCPaths == {p1}
(* A transport that hands in bytes under their true hash. *)
MCIngestHonest == {<<h2, d2>>}
(* A transport that may hand in bytes under any hash. *)
MCIngestAny == MCHashes \X MCData
MCDrainMax == {1, 2}
=============================================================================
