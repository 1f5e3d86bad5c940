--------------------------- MODULE MCSwarmQueue ---------------------------
(***************************************************************************)
(* SwarmQueue for TLC.  The constants keep what matters of the code's      *)
(* values: the NVS block is a multiple of the ring (256 = 2 * 128), so it  *)
(* takes several blocks of sightings to reach every position of the ring.  *)
(***************************************************************************)
EXTENDS SwarmQueue
===========================================================================
