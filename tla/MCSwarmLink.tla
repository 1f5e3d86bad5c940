---------------------------- MODULE MCSwarmLink ----------------------------
(* SwarmLink for TLC: two handles, so that a link can open while the stack   *)
(* still holds the one before it.                                            *)
EXTENDS SwarmLink
===========================================================================
