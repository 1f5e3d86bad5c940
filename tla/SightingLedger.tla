-------------------------- MODULE SightingLedger --------------------------
(***************************************************************************)
(* What the sighting queue of a Swarm node promises the phone, with no     *)
(* cursor, ring, link or timer in it: sightings are numbered 1, 2, 3, ...; *)
(* the node holds a window of at most CAP of them; the window moves only   *)
(* forward, past a sighting the phone has or past one that a newer         *)
(* sighting pushed out of a full window.                                   *)
(***************************************************************************)
EXTENDS Naturals

CONSTANT CAP  \* the sightings the window has room for; SwarmQueue assumes it positive

VARIABLES
  low,     \* the oldest sighting still held
  next,    \* the number the next sighting gets
  has,     \* the sightings the phone has received
  dropped  \* the sightings pushed out of a full window

lvars == <<low, next, has, dropped>>

LedgerInit == low = 1 /\ next = 1 /\ has = {} /\ dropped = {}

\* A sighting is captured while there is room.
Capture ==
  /\ next - low < CAP
  /\ next' = next + 1
  /\ UNCHANGED <<low, has, dropped>>

\* A sighting is captured and the oldest one is given up for it.
Overflow ==
  /\ next - low = CAP
  /\ next' = next + 1
  /\ low' = low + 1
  /\ dropped' = dropped \cup {low}
  /\ UNCHANGED has

\* The phone receives a sighting that was captured.
Receive ==
  /\ \E s \in 1 .. next - 1 : has' = has \cup {s}
  /\ UNCHANGED <<low, next, dropped>>

\* The node lets go of sightings, all of which the phone has or has lost.
Release ==
  /\ \E n \in low + 1 .. next :
       /\ low .. n - 1 \subseteq has \cup dropped
       /\ low' = n
  /\ UNCHANGED <<next, has, dropped>>

LedgerNext == Capture \/ Overflow \/ Receive \/ Release
LedgerSpec == LedgerInit /\ [][LedgerNext]_lvars
===========================================================================
