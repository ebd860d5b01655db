----------------------------- MODULE MCCia8520 -----------------------------
(* Cia8520 for TLC, with bytes of two values.  The chip's two halves, the   *)
(* timers with the serial port and the clock with its alarm, meet in the    *)
(* interrupt register only: a behaviour uses one of them, the other rests.  *)
EXTENDS Cia8520

VARIABLE half

\* Two-byte latches 0..3 with all modes; a clock of 0..7.
MCWritten == [r \in ByteRegs |-> IF r \in {"TAHI", "TBHI", "SDR"} THEN {0} ELSE Byte]
MCCra ==
  [load : BOOLEAN,
   cr : [start : BOOLEAN, oneShot : BOOLEAN, cnt : {FALSE}, spMode : BOOLEAN]
        \cup [start : {TRUE}, oneShot : {FALSE}, cnt : {TRUE}, spMode : {TRUE}]]
TimerCrb ==
  [load : {TRUE},
   cr : [start : BOOLEAN, oneShot : BOOLEAN, alarm : {FALSE}, input : {"eclock", "underflow"}]
        \cup [start : {TRUE}, oneShot : {FALSE}, alarm : {FALSE}, input : {"cnt"}]]
TodCrb ==
  [load : {FALSE},
   cr : [start : {FALSE}, oneShot : {FALSE}, alarm : BOOLEAN, input : {"eclock"}]]
MCCrb == TimerCrb \cup TodCrb

\* A bound: alarms of one byte, low or high.
Alarms == {0, 1, 4}

ClockRests == UNCHANGED <<clock, icrMask>> /\ ~crb'.alarm /\ icrData' \subseteq {"TA", "TB", "SP"}
TimersRest == /\ UNCHANGED <<timerA, timerB, cra, serial, firedA>> /\ ~crb'.start
              /\ ~crb'.oneShot /\ crb'.input = "eclock" /\ icrData' \subseteq {"ALRM", "FLG"}
              /\ alarm' \in Alarms

MCInit == Init /\ half \in {"timers", "clock"}
MCNext ==
  /\ Next /\ UNCHANGED half
  /\ IF half = "timers" THEN ClockRests ELSE TimersRest
MCSpec == MCInit /\ [][MCNext]_<<vars, half>>
=============================================================================
