---------------------------- MODULE MCWardrive ----------------------------
(* Wardrive for TLC: two short channel lists of different lengths, so that  *)
(* the index passes a multiple of four in both, and ends on one in one.     *)
EXTENDS Wardrive

CONSTANTS a, b, f

MCAddr  == {a, b, f}
MCFlock == {f}
MCPlans == [US |-> <<11, 6, 1, 14, 13>>, EU |-> <<13, 7, 1, 12>>]
===========================================================================
