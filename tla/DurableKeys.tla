---------------------------- MODULE DurableKeys ----------------------------
(***************************************************************************)
(* What the settings promise the rest of the firmware, with no document,   *)
(* text or migration in it: each key is a register; what a program reads   *)
(* is what the next boot reads; a key changes alone; and values are taken  *)
(* away only on record: by a reset, by a file that does not open or by a   *)
(* power cut in the middle of a write.                                     *)
(***************************************************************************)
CONSTANTS Keys, Values, Default, Junk

VARIABLES
  value,  \* what loadSetting returns
  kept,   \* what a boot would read from flash
  spoilt  \* something has gone wrong, or the user asked for a reset

dvars == <<value, kept, spoilt>>

Registers == [Keys -> Values]

DurableInit == kept \in Registers /\ value = kept /\ spoilt = FALSE

\* One key is written, in both places.
Write ==
  \E k \in Keys, v \in Values :
    /\ value' = [value EXCEPT ![k] = v]
    /\ kept' = value' /\ UNCHANGED spoilt

\* A write that failed, as yet without effect.
Fail == spoilt' = TRUE /\ UNCHANGED <<value, kept>>

\* A reset, or a boot that could not open its file and overwrote it.
Reset == value' = Default /\ kept' = Default /\ spoilt' = TRUE

\* A boot that could open no file: the program reads defaults, the flash keeps
\* what it has.
Unread == value' = Default /\ spoilt' = TRUE /\ UNCHANGED kept

\* Power is back and what is read is what was kept.
Reload == value' = kept /\ UNCHANGED <<kept, spoilt>>

\* The power went in the middle of a write: each key is the one being written,
\* the default, or a name without a value; none is mixed with another.
Tear ==
  /\ kept' \in Registers
  /\ \E k \in Keys : \A j \in Keys \ {k} : kept'[j] \in {value[j], kept[j], Default[j], Junk}
  /\ value' = kept' /\ spoilt' = TRUE

DurableNext == Reload \/ Write \/ Fail \/ Reset \/ Unread \/ Tear
DurableSpec == DurableInit /\ [][DurableNext]_dvars
===========================================================================
