----------------------------- MODULE TwoStacks -----------------------------
(***************************************************************************)
(* The programmer's model of the 68000's two stack pointers: USP and SSP   *)
(* are two registers, of which A7 is the one that the S bit selects.       *)
(* Whatever runs in user mode leaves SSP alone; whatever runs in           *)
(* supervisor mode leaves USP alone, or is MOVE USP, which leaves SSP      *)
(* alone unless it loads it from USP.                                      *)
(***************************************************************************)
EXTENDS Integers

CONSTANTS
  AddressSpace,   (* Addresses are 0 .. AddressSpace - 1.                  *)
  FrameSizes      (* Bytes an exception stacks.                            *)

VARIABLES usp, ssp, supervisor

UserStep  == ~supervisor /\ ~supervisor' /\ ssp' = ssp

\* An exception: the frame goes below SSP.  USP may have moved, by the
\* (A7)+ or -(A7) of the instruction that faulted.
Enter     == /\ ~supervisor /\ supervisor'
             /\ \E n \in FrameSizes : ssp' = (ssp - n) % AddressSpace

SystemStep == supervisor /\ supervisor' /\ (usp' = usp \/ ssp' = ssp)

\* RTE, STOP and the writes to SR that clear S.
Leave     == supervisor /\ ~supervisor' /\ usp' = usp

Next == UserStep \/ Enter \/ SystemStep \/ Leave
=============================================================================
