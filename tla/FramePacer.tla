----------------------------- MODULE FramePacer -----------------------------
(***************************************************************************)
(* Frame pacing: FramePacer (timing.hpp) as main's loop uses it (main.cpp).  *)
(* The host's clock is monotonic (SDL_GetTicksNS); a frame, or a sleep past  *)
(* its end, may take any time.  The clock and the deadline, 64-bit numbers   *)
(* of nanoseconds, appear as their difference.                               *)
(***************************************************************************)
EXTENDS Integers

CONSTANTS
  FrameTime,   (* kFrameDurationNs.                                        *)
  MaxLag,      (* kMaxLagNs: five frames.                                  *)
  Delays       (* What host time a step may take.                          *)

ASSUME PacerAssumption == FrameTime \in Nat \ {0} /\ MaxLag \in Nat /\ Delays \subseteq Nat

VARIABLES
  behind,      (* The clock minus next_deadline_ns_.                       *)
  pacing,      (* The frame has been emitted, and main is about to sleep.  *)
  burst        (* History: by how much the frames since some moment, since  *)
               (* which the loop never was in warp, outrun the clock, for   *)
               (* the moment where that is the most; 0 at least.            *)

pacerVars == <<behind, pacing, burst>>

Later(amount, delay) == IF amount > delay THEN amount - delay ELSE 0

\* reset(now)
Synchronised == -FrameTime

\* A mutant: any lag is made up for.
NeverResyncs(late) == late - FrameTime

\* frame_done(now), the time that has passed since the deadline being late.
frame_done(late) ==
  IF late - FrameTime > MaxLag THEN Synchronised ELSE late - FrameTime

time_until_next_frame == IF behind >= 0 THEN 0 ELSE -behind

\* main: run_frame and presentation; in warp the pacer is reset and the next
\* frame follows.
EmitFrame(delay, warp) ==
  /\ ~pacing
  /\ pacing' = ~warp
  /\ behind' = IF warp THEN Synchronised ELSE behind + delay
  /\ burst' = IF warp THEN 0 ELSE Later(burst, delay)

\* SDL_DelayPrecise sleeps until the deadline at least.
SleepAndAdvance(delay) ==
  LET slept == time_until_next_frame + delay
  IN /\ pacing
     /\ pacing' = FALSE
     /\ behind' = frame_done(behind + slept)
     /\ burst' = Later(burst, slept) + FrameTime

PacerInit == behind = Synchronised /\ pacing = FALSE /\ burst = 0

PacerNext ==
  \E delay \in Delays :
    \/ \E warp \in BOOLEAN : EmitFrame(delay, warp)
    \/ SleepAndAdvance(delay)

PacerSpec == PacerInit /\ [][PacerNext]_pacerVars

-----------------------------------------------------------------------------
(* Property.                                                               *)

\* However the host stalls, the loop never sleeps longer than a frame, and in
\* no stretch of time does it run more frames than fit, but for those it may
\* catch up (MaxLag) and two more: lag is made up for in part or forgotten.
NoBurst == behind >= -FrameTime /\ burst <= MaxLag + 2 * FrameTime
=============================================================================
