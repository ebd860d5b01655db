----------------------------- MODULE MCMachine -----------------------------
(* Machine for TLC.                                                        *)
EXTENDS Machine
=============================================================================
