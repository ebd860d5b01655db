----------------------------- MODULE MCKeyboard -----------------------------
(* Keyboard for TLC.  A slot that has been sent is never read again before *)
(* it is written (tail stops at head), so the view forgets its content.    *)
EXTENDS Keyboard

LiveSlots == {(tail + i) % QueueSize : i \in 0 .. Pending - 1}
View == <<[i \in Slots |-> IF i \in LiveSlots THEN queue[i] ELSE 0], head, tail, awaiting,
          timeout, capsLock, port, driver, history>>
=============================================================================
