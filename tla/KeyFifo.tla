------------------------------- MODULE KeyFifo -------------------------------
(***************************************************************************)
(* What the keyboard promises its user: key transitions come out in the    *)
(* order they went in, each at most once, and only a full buffer drops     *)
(* any - the newest.                                                       *)
(***************************************************************************)
EXTENDS Naturals, Sequences

CONSTANTS
  Event,      (* Key transitions.                                          *)
  Capacity,   (* Transitions the buffer holds.                             *)
  PowerUp,    (* The stream a reset leaves in it.                          *)
  Idle        (* What a reset receiver holds.                              *)

VARIABLES
  fifo,       (* Transitions accepted and not yet sent, oldest first.      *)
  out         (* What the receiver holds: the transition sent last.        *)

Init == fifo = PowerUp /\ out = Idle

Accept(e) == Len(fifo) < Capacity /\ fifo' = Append(fifo, e) /\ UNCHANGED out
Drop      == Len(fifo) = Capacity /\ UNCHANGED <<fifo, out>>
Send      == fifo # <<>> /\ out' = Head(fifo) /\ fifo' = Tail(fifo)
Clear     == fifo' = PowerUp /\ out' = Idle
Forget    == out' = Idle /\ UNCHANGED fifo

Next == (\E e \in Event : Accept(e)) \/ Drop \/ Send \/ Clear \/ Forget

Spec == Init /\ [][Next]_<<fifo, out>>
==============================================================================
