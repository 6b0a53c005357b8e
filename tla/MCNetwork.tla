----------------------------- MODULE MCNetwork -----------------------------
(* The instance of Network for TLC. *)
EXTENDS Network
=============================================================================
