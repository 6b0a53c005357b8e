---------------------------- MODULE MCConfigStore ----------------------------
(***************************************************************************)
(* Small instances of ConfigStore for TLC: sectors of two pages, and       *)
(* readings that are model values.                                         *)
(***************************************************************************)
EXTENDS ConfigStore

TwoSectors == {0, 2}
=============================================================================
