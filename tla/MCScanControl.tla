--------------------------- MODULE MCScanControl ---------------------------
(* ScanControl for TLC: one mask, two session numbers.                       *)
EXTENDS ScanControl
===========================================================================
