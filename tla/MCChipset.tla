----------------------------- MODULE MCChipset -----------------------------
(* Chipset for TLC: 5 lines of 5 clocks, of which WAIT sees 2 and 3 bits:  *)
(* the last line looks like the first, and no clock is 6.                  *)
EXTENDS Chipset

McPositions == {[v |-> 0, h |-> 2], [v |-> 3, h |-> 4], [v |-> 2, h |-> 6]}
McMasks == {[v |-> {0}, h |-> {1, 2}], [v |-> {}, h |-> {1, 2}], [v |-> {0}, h |-> {}]}
=============================================================================
