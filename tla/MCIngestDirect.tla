--------------------------- MODULE MCIngestDirect ---------------------------
(***************************************************************************)
(* The direct cluster of MCIngest is one whose edge keys tell all pairs of *)
(* services apart, as IngestProofs requires of DedupKeepsPairs.            *)
(***************************************************************************)
EXTENDS MCIngest

ASSUME DirectKeys == KeysTellPairsApart
=============================================================================
