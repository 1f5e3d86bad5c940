---------------------------- MODULE MCLogBuffer ----------------------------
(* LogBuffer for TLC: a buffer holds two lines, and is full with one and a margin. *)
EXTENDS LogBuffer
===========================================================================
