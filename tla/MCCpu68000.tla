---------------------------- MODULE MCCpu68000 ----------------------------
(* Values of Cpu68000's constants for TLC.                                 *)
EXTENDS Cpu68000

MCUserStack   == {0, 36, 40}
MCSystemStack == {26, 28, 34, 35, 36, 39, 40}
\* User programs run traced, supervisor programs do not.
MCSrWrites == {[s |-> sup, t |-> ~sup, mask |-> 0] : sup \in BOOLEAN}
\* Nothing answers the words at 6 and at 22.
MCUnmapped == {6, 7, 22, 23}
MCDisplacements == {-1, 4}
===========================================================================
