----------------------------- MODULE MCReadout -----------------------------
(* Small instances of Readout for TLC. *)
EXTENDS Readout
================================================================================
