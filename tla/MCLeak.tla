------------------------------- MODULE MCLeak -------------------------------
(* The instances of Leak for TLC. *)
EXTENDS Leak
=============================================================================
