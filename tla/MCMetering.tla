----------------------------- MODULE MCMetering -----------------------------
(* The instance of Metering for TLC. *)
EXTENDS Metering
=============================================================================
