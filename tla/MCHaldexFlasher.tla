--------------------------- MODULE MCHaldexFlasher ---------------------------
(***************************************************************************)
(* Small instances of HaldexFlasher for TLC.                               *)
(***************************************************************************)
EXTENDS HaldexFlasherInv

NoBound == -1
================================================================================
