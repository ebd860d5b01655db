-------------------------- MODULE MCDiskController --------------------------
(* DiskController for TLC.                                                 *)
EXTENDS DiskController
=============================================================================
