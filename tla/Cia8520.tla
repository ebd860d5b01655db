------------------------------- MODULE Cia8520 -------------------------------
(***************************************************************************)
(* One MOS 8520 (cia.cpp): two interval timers, the serial shift register, *)
(* the time-of-day counter with its alarm, and the interrupt control       *)
(* register.  The chip is driven by three independent parties whose steps  *)
(* interleave freely: the CPU's register accesses, the E clock (Tick), and *)
(* the pulses on its pins (TOD, /FLAG, and SP: a byte from the keyboard).  *)
(*                                                                         *)
(* A byte has ByteValues values: 256 on the chip, fewer in a model.  The   *)
(* timers are two bytes wide and the TOD counter three, as on the chip.    *)
(* The ports are modelled where they matter, in FloppyDrive.               *)
(***************************************************************************)
EXTENDS Integers, Sequences

CONSTANTS
  ByteValues,       (* Values of a byte.                                   *)
  ShiftUnderflows,  (* kShiftOutUnderflows: timer A underflows per byte.   *)
  Written,          (* Register name -> the bytes software writes to it.   *)
  ReadRegs,         (* Registers with a read side effect software reads.   *)
  CraValues,        (* Values software writes to CRA ...                   *)
  CrbValues,        (* ... and to CRB.                                     *)
  MaskFlags,        (* Interrupt sources software enables.                 *)
  Pins              (* The pins that move: a subset of PinNames.           *)

Byte      == 0 .. ByteValues - 1
TimerMax  == ByteValues * ByteValues - 1
TodValues == ByteValues * ByteValues * ByteValues
Flags     == {"TA", "TB", "ALRM", "SP", "FLG"}
PinNames  == {"TOD", "FLAG", "SP"}
ByteRegs  == {"TALO", "TAHI", "TBLO", "TBHI", "TODLO", "TODMID", "TODHI", "SDR"}

\* Stored control registers; a written value also has the LOAD strobe.
\* CRA's INMODE counts CNT pulses, which never come.  CRB's INMODE 10 and 11
\* both count timer A underflows, since CNT idles high.
Cra == [start : BOOLEAN, oneShot : BOOLEAN, cnt : BOOLEAN, spMode : BOOLEAN]
Crb == [start : BOOLEAN, oneShot : BOOLEAN, alarm : BOOLEAN,
        input : {"eclock", "cnt", "underflow"}]

ASSUME CiaAssumption ==
  /\ ByteValues \in Nat /\ ByteValues >= 2
  /\ ShiftUnderflows \in Nat \ {0}
  /\ Written \in [ByteRegs -> SUBSET Byte]
  /\ ReadRegs \subseteq {"TODHI", "TODMID", "TODLO", "ICR"}
  /\ CraValues \subseteq [load : BOOLEAN, cr : Cra]
  /\ CrbValues \subseteq [load : BOOLEAN, cr : Crb]
  /\ MaskFlags \subseteq Flags
  /\ Pins \subseteq PinNames

VARIABLES
  timerA, timerB,        (* [counter, latch]                               *)
  cra, crb,
  icrData, icrMask,      (* Sets of flags.                                 *)
  sdr,
  shiftOut,              (* Underflows left in the byte being sent.        *)
  sdrPending,            (* SDR written while a byte was being sent.       *)
  tod, todLatch, alarm, todLatched, todHalted

VARIABLES                (* History of what software did and saw:          *)
  firedA,                (* Timer A underflows since it was last armed.    *)
  todRead, todSnap,      (* TOD bytes read since TODHI; the TOD then.      *)
  todWrote               (* TOD bytes written since TODHI.                 *)

timers == <<timerA, timerB, cra, crb, firedA>>
serial == <<sdr, shiftOut, sdrPending>>
clock  == <<tod, todLatch, alarm, todLatched, todHalted, todRead, todSnap, todWrote>>
vars   == <<timers, serial, clock, icrData, icrMask>>

Timer == [counter : 0 .. TimerMax, latch : 0 .. TimerMax]
Irq   == icrData \cap icrMask # {}

\* Byte number i (0 is the low one) of a register, and the register with it replaced.
Weight(i)         == IF i = 0 THEN 1 ELSE IF i = 1 THEN ByteValues ELSE ByteValues * ByteValues
ByteAt(x, i)      == (x \div Weight(i)) % ByteValues
WithByte(x, i, b) == x - ByteAt(x, i) * Weight(i) + b * Weight(i)

ResetTimer == [counter |-> TimerMax, latch |-> TimerMax]
ResetCra   == [start |-> FALSE, oneShot |-> FALSE, cnt |-> FALSE, spMode |-> FALSE]
ResetCrb   == [start |-> FALSE, oneShot |-> FALSE, alarm |-> FALSE, input |-> "eclock"]

Init ==
  /\ timerA = ResetTimer /\ timerB = ResetTimer
  /\ cra = ResetCra /\ crb = ResetCrb
  /\ icrData = {} /\ icrMask = {}
  /\ sdr = 0 /\ shiftOut = 0 /\ sdrPending = FALSE
  /\ tod = 0 /\ todLatch = 0 /\ alarm = 0
  /\ todLatched = FALSE /\ todHalted = FALSE
  /\ firedA = 0 /\ todRead = <<>> /\ todSnap = 0 /\ todWrote = <<>>

-----------------------------------------------------------------------------
(* Register writes by the CPU.                                             *)

WriteLowUncleared(timer, b) == [timer EXCEPT !.latch = @ + b]  \* a mutant: the old byte stays
WriteLow(timer, b) == [timer EXCEPT !.latch = WithByte(@, 0, b)]

\* write_timer_high: one-shot mode loads and starts, a stopped timer loads.
HighLatch(timer, b) == WithByte(timer.latch, 1, b)
LoadsOnHigh(cr)     == cr.oneShot \/ ~cr.start
WriteHigh(timer, cr, b) ==
  [counter |-> IF LoadsOnHigh(cr) THEN HighLatch(timer, b) ELSE timer.counter,
   latch   |-> HighLatch(timer, b)]
StartOnHigh(cr) == [cr EXCEPT !.start = @ \/ cr.oneShot]

WriteTimerLow ==
  /\ \/ \E b \in Written["TALO"] : timerA' = WriteLow(timerA, b) /\ UNCHANGED timerB
     \/ \E b \in Written["TBLO"] : timerB' = WriteLow(timerB, b) /\ UNCHANGED timerA
  /\ UNCHANGED <<cra, crb, firedA, serial, clock, icrData, icrMask>>

WriteTimerAHigh ==
  \E b \in Written["TAHI"] :
    /\ timerA' = WriteHigh(timerA, cra, b)
    /\ cra' = StartOnHigh(cra)
    /\ firedA' = 0
    /\ UNCHANGED <<timerB, crb, serial, clock, icrData, icrMask>>

WriteTimerBHigh ==
  \E b \in Written["TBHI"] :
    /\ timerB' = WriteHigh(timerB, crb, b)
    /\ crb' = StartOnHigh(crb)
    /\ UNCHANGED <<timerA, cra, firedA, serial, clock, icrData, icrMask>>

Strobed(timer, load) == [timer EXCEPT !.counter = IF load THEN timer.latch ELSE @]

\* A direction change aborts a transfer.
TurnsOutputOnly(v) == v.cr.spMode /\ ~cra.spMode  \* a mutant: only towards output
Turns(v)           == cra.spMode # v.cr.spMode

WriteCra ==
  \E v \in CraValues :
    /\ shiftOut'   = IF Turns(v) THEN 0 ELSE shiftOut
    /\ sdrPending' = (sdrPending /\ ~Turns(v))
    /\ timerA' = Strobed(timerA, v.load)
    /\ cra' = v.cr
    /\ firedA' = 0
    /\ UNCHANGED <<timerB, crb, sdr, clock, icrData, icrMask>>

WriteCrb ==
  \E v \in CrbValues :
    /\ timerB' = Strobed(timerB, v.load)
    /\ crb' = v.cr
    /\ UNCHANGED <<timerA, cra, firedA, serial, clock, icrData, icrMask>>

WriteSdr ==
  \E b \in Written["SDR"] :
    /\ sdr' = b
    /\ IF ~cra.spMode
       THEN UNCHANGED <<shiftOut, sdrPending>>
       ELSE IF shiftOut = 0
            THEN shiftOut' = ShiftUnderflows /\ UNCHANGED sdrPending
            ELSE sdrPending' = TRUE /\ UNCHANGED shiftOut
    /\ UNCHANGED <<timers, clock, icrData, icrMask>>

WriteIcr ==
  /\ \E f \in MaskFlags : icrMask' = icrMask \cup {f} \/ icrMask' = icrMask \ {f}
  /\ UNCHANGED <<timers, serial, clock, icrData>>

TodReg == <<"TODLO", "TODMID", "TODHI">>

\* Whether the counter is halted after a write of its byte i: HI halts it, LO starts it.
HaltedByMid(i)  == i = 1 \/ (todHalted /\ i # 0)  \* a mutant: the wrong byte halts
HaltedAfter(i)  == i = 2 \/ (todHalted /\ i # 0)

\* write_tod: to the alarm when CRB says so, else to the counter.
WriteTod ==
  \E i \in 0 .. 2 : \E b \in Written[TodReg[i + 1]] :
    /\ IF crb.alarm
       THEN /\ alarm' = WithByte(alarm, i, b)
            /\ UNCHANGED <<tod, todHalted, todWrote>>
       ELSE /\ tod' = WithByte(tod, i, b)
            /\ todHalted' = HaltedAfter(i)
            /\ todWrote' = IF i = 2 THEN <<b>>
                           ELSE IF Len(todWrote) = 2 - i THEN Append(todWrote, b) ELSE <<>>
            /\ UNCHANGED alarm
    /\ UNCHANGED <<timers, serial, todLatch, todLatched, todRead, todSnap, icrData, icrMask>>

-----------------------------------------------------------------------------
(* Register reads that change the chip.                                    *)

ReadTodHi ==
  /\ "TODHI" \in ReadRegs
  /\ todLatch' = tod
  /\ todLatched' = TRUE
  /\ todSnap' = tod
  /\ todRead' = <<ByteAt(tod, 2)>>
  /\ UNCHANGED <<timers, serial, tod, alarm, todHalted, todWrote, icrData, icrMask>>

\* What a read of TOD MID or LO returns is taken from here.
TodLive   == tod  \* a mutant: the latch is not used
TodSource == IF todLatched THEN todLatch ELSE tod

\* Reading MID changes nothing on the chip: only the record of what was read.
ReadTodMid ==
  /\ "TODMID" \in ReadRegs
  /\ todRead' = IF Len(todRead) = 1 THEN Append(todRead, ByteAt(TodSource, 1)) ELSE <<>>
  /\ UNCHANGED <<timers, serial, tod, todLatch, alarm, todLatched, todHalted, todSnap,
                 todWrote, icrData, icrMask>>

ReadTodLo ==
  /\ "TODLO" \in ReadRegs
  /\ todLatched' = FALSE
  /\ todRead' = IF Len(todRead) = 2 THEN Append(todRead, ByteAt(TodSource, 0)) ELSE <<>>
  /\ UNCHANGED <<timers, serial, tod, todLatch, alarm, todHalted, todSnap, todWrote,
                 icrData, icrMask>>

ReadIcr ==
  /\ "ICR" \in ReadRegs
  /\ icrData' = {}
  /\ UNCHANGED <<timers, serial, clock, icrMask>>

-----------------------------------------------------------------------------
(* The E clock and the pins.                                               *)

\* Events accumulate in ICR until it is read.
RaisedAlone(flags) == flags  \* a mutant: an event replaces the pending ones
Raised(flags)      == icrData \cup flags

Underflows(timer, cr) == cr.start /\ timer.counter = 0

\* count(): N + 1 ticks per period; a one-shot timer stops at its underflow.
Counted(timer, cr) ==
  [timer EXCEPT !.counter = IF ~cr.start THEN @
                            ELSE IF @ # 0 THEN @ - 1 ELSE timer.latch]
KeepsRunning(timer, cr) == cr  \* a mutant: one-shot timers do not stop
AfterCount(timer, cr) ==
  [cr EXCEPT !.start = @ /\ ~(Underflows(timer, cr) /\ cr.oneShot)]

AUnderflow == ~cra.cnt /\ Underflows(timerA, cra)
BCountsAll == crb.input # "cnt"  \* a mutant: the cascade input counts E clocks
BCounts    == crb.input = "eclock" \/ (crb.input = "underflow" /\ AUnderflow)
Shifts     == AUnderflow /\ shiftOut # 0 /\ ~cra.oneShot
ByteSent   == Shifts /\ shiftOut = 1

Tick ==
  /\ timerA' = IF cra.cnt THEN timerA ELSE Counted(timerA, cra)
  /\ cra'    = IF cra.cnt THEN cra ELSE AfterCount(timerA, cra)
  /\ timerB' = IF BCounts THEN Counted(timerB, crb) ELSE timerB
  /\ crb'    = IF BCounts THEN AfterCount(timerB, crb) ELSE crb
  /\ shiftOut' = IF ByteSent /\ sdrPending THEN ShiftUnderflows
                 ELSE IF Shifts THEN shiftOut - 1 ELSE shiftOut
  /\ sdrPending' = (sdrPending /\ ~ByteSent)
  /\ icrData' = Raised((IF AUnderflow THEN {"TA"} ELSE {})
                       \cup (IF ByteSent THEN {"SP"} ELSE {})
                       \cup (IF BCounts /\ Underflows(timerB, crb) THEN {"TB"} ELSE {}))
  /\ firedA' = IF AUnderflow /\ firedA < 2 THEN firedA + 1 ELSE firedA
  /\ UNCHANGED <<sdr, clock, icrMask>>

TodPulse ==
  /\ "TOD" \in Pins
  /\ ~todHalted
  /\ tod' = (tod + 1) % TodValues
  /\ icrData' = Raised(IF tod' = alarm THEN {"ALRM"} ELSE {})
  /\ UNCHANGED <<timers, serial, todLatch, alarm, todLatched, todHalted, todRead, todSnap,
                 todWrote, icrMask>>

FlagPulse ==
  /\ "FLAG" \in Pins
  /\ icrData' = Raised({"FLG"})
  /\ UNCHANGED <<timers, serial, clock, icrMask>>

\* A byte from the keyboard; ignored while the port is an output.
SerialInput ==
  /\ "SP" \in Pins
  /\ ~cra.spMode
  /\ \E b \in Byte : sdr' = b
  /\ icrData' = Raised({"SP"})
  /\ UNCHANGED <<timers, shiftOut, sdrPending, clock, icrMask>>

\* /RES: the RESET instruction or a machine reset.
Reset ==
  /\ timerA' = ResetTimer /\ timerB' = ResetTimer
  /\ cra' = ResetCra /\ crb' = ResetCrb
  /\ icrData' = {} /\ icrMask' = {}
  /\ sdr' = 0 /\ shiftOut' = 0 /\ sdrPending' = FALSE
  /\ tod' = 0 /\ todLatch' = 0 /\ alarm' = 0
  /\ todLatched' = FALSE /\ todHalted' = FALSE
  /\ firedA' = 0 /\ todRead' = <<>> /\ todSnap' = 0 /\ todWrote' = <<>>

Next ==
  \/ WriteTimerLow \/ WriteTimerAHigh \/ WriteTimerBHigh
  \/ WriteCra \/ WriteCrb \/ WriteSdr \/ WriteIcr \/ WriteTod
  \/ ReadTodHi \/ ReadTodMid \/ ReadTodLo \/ ReadIcr
  \/ Tick \/ TodPulse \/ FlagPulse \/ SerialInput \/ Reset

Spec == Init /\ [][Next]_vars

-----------------------------------------------------------------------------
(* Properties.                                                             *)

\* Every register holds a value of its width.
TypeOK ==
  /\ timerA \in Timer /\ timerB \in Timer
  /\ cra \in Cra /\ crb \in Crb
  /\ icrData \subseteq Flags /\ icrMask \subseteq Flags
  /\ sdr \in Byte
  /\ shiftOut \in 0 .. ShiftUnderflows
  /\ sdrPending \in BOOLEAN
  /\ {tod, todLatch, alarm} \subseteq 0 .. TodValues - 1
  /\ todLatched \in BOOLEAN /\ todHalted \in BOOLEAN

\* A byte is shifted out only while the port is an output, and a second one waits
\* only behind it: whatever the order of CRA and SDR writes and timer underflows,
\* no SP interrupt is left to come for a transfer the direction change aborted.
ShiftOnlyInOutputMode ==
  /\ shiftOut # 0 => cra.spMode
  /\ sdrPending => shiftOut # 0

\* A one-shot timer underflows at most once each time it is armed (a write to CRA or
\* TAHI), however latch writes, loads and mode changes fall between its ticks.
OneShotFiresOnce == cra.oneShot => firedA <= 1

Cascaded ==
  /\ cra.start /\ ~cra.oneShot /\ ~cra.cnt /\ timerA.counter <= timerA.latch
  /\ crb.start /\ crb.input = "underflow"

CascadeOf(a, b) == b * (timerA.latch + 1) + a
Cascade         == CascadeOf(timerA.counter, timerB.counter)

\* Timer B counting timer A's underflows makes one wide counter of the two: every E
\* clock takes exactly one off it, from zero it reloads from both latches, and only
\* then does timer B raise its flag.
CascadeIsOneCounter ==
  [][ Tick /\ Cascaded =>
        /\ Cascade' = IF Cascade = 0 THEN CascadeOf(timerA.latch, timerB.latch) ELSE Cascade - 1
        /\ Cascade = 0 => "TB" \in icrData'
        /\ "TB" \in icrData' \ icrData => Cascade = 0 ]_vars

TodOf(bytes) == (bytes[1] * ByteValues + bytes[2]) * ByteValues + bytes[3]

\* Software that reads TOD HI, MID and LO gets the value the counter had when HI was
\* read, whatever pulses and writes come between the three reads.
TodReadAtomic == Len(todRead) = 3 => TodOf(todRead) = todSnap

\* Software that writes TOD HI, MID and LO sets the counter to exactly these bytes: no
\* pulse counts, and no carry moves, a half-written value.
TodWriteAtomic == [][ Len(todWrote) = 2 /\ Len(todWrote') = 3 => tod' = TodOf(todWrote') ]_vars

\* Once /IRQ is asserted only the CPU releases it, by reading ICR or masking the
\* source (or /RES): no event that arrives meanwhile hides an earlier one.
IrqHeldUntilServed == [][ Irq /\ ~Irq' => ReadIcr \/ WriteIcr \/ Reset ]_vars
==============================================================================
