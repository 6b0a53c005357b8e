--------------------------- MODULE DurableReading ---------------------------
(***************************************************************************)
(* What the configuration store promises the rest of the meter.            *)
(*                                                                         *)
(* There is a live reading, and a kept one that the next start comes up    *)
(* with.  The store is an odometer with Room saves on a lap: every save    *)
(* keeps the live reading except the one that uses up the last room of the *)
(* lap, after which a start comes up with the default reading and a fresh  *)
(* lap.  Shelving, the save made while the flash is being used by a        *)
(* firmware update, always keeps the reading and begins a new lap.         *)
(***************************************************************************)
EXTENDS Naturals

CONSTANTS Reading, Zero, Room

VARIABLES live, kept, room, up

varsD == <<live, kept, room, up>>

InitD ==
  /\ live = Zero /\ kept = Zero
  /\ room = Room
  /\ up = FALSE

\* A reading that nobody saved yet.
Change(v) ==
  /\ up
  /\ live' = v
  /\ UNCHANGED <<kept, room, up>>

Keep(v) ==
  /\ up
  /\ live' = v
  /\ room' = IF room = 0 THEN Room ELSE room - 1
  /\ kept' = IF room' = 0 THEN Zero ELSE v
  /\ UNCHANGED up

Shelve(v) ==
  /\ up
  /\ live' = v /\ kept' = v
  /\ room' = Room
  /\ UNCHANGED up

Stop ==
  /\ up
  /\ up' = FALSE
  /\ UNCHANGED <<live, kept, room>>

\* A start, or a failed update: the kept reading becomes the live one.
Adopt ==
  /\ up' = TRUE
  /\ live' = kept
  /\ room' = IF room = 0 THEN Room ELSE room
  /\ UNCHANGED kept

NextD ==
  \/ \E v \in Reading : Change(v) \/ Keep(v) \/ Shelve(v)
  \/ Stop \/ Adopt

SpecD == InitD /\ [][NextD]_varsD
=============================================================================
