---------------------------- MODULE MCSegmenter ----------------------------
(* Segmenter on every text of a few lines, for TLC. *)
EXTENDS Segmenter
TwoStatements == {"s1", "s2"}
=============================================================================
