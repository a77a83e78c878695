--------------------------- MODULE MCCompressTree ---------------------------
(* Instances of CompressTree for TLC. *)
EXTENDS CompressTree

CONSTANTS p1, p2

TwoProvers == <<p1, p2>>
=============================================================================
