---------------------------- MODULE Cia8520Proofs ----------------------------
(***************************************************************************)
(* Proofs about Cia8520 for every byte width, every shift length and every *)
(* choice of what software writes and which pins move.                     *)
(***************************************************************************)
EXTENDS Cia8520, TLAPS

-----------------------------------------------------------------------------
(* Arithmetic of registers made of bytes.  Each fact about \div, % and     *)
(* products stands alone, so that every step below is linear.              *)

LEMMA DivMod ==
  ASSUME NEW x \in Nat, NEW d \in Nat \ {0}
  PROVE  /\ x \div d \in Nat
         /\ x % d \in 0 .. d - 1
         /\ x = d * (x \div d) + (x % d)
  OBVIOUS

LEMMA ScaleLeq ==
  ASSUME NEW k \in Nat, NEW x \in Int, NEW y \in Int, x <= y
  PROVE  k * x <= k * y
  OBVIOUS

LEMMA ProductNat ==
  ASSUME NEW x \in Nat, NEW y \in Nat PROVE x * y \in Nat
  OBVIOUS

\* A register of bytes below a digit of weight w and above it r more values.
\* Replacing that digit keeps the register in range.
LEMMA DigitInRange ==
  ASSUME NEW w \in Nat \ {0}, NEW r \in Nat \ {0}, NEW b \in Byte,
         NEW x \in 0 .. w * (ByteValues * r) - 1
  PROVE  x - ((x \div w) % ByteValues) * w + b * w \in 0 .. w * (ByteValues * r) - 1
<1> DEFINE q == x \div w
           s == x % w
           p == q \div ByteValues
           d == q % ByteValues
           y == ByteValues * p + b
<1>0. ByteValues \in Nat \ {0}
  BY CiaAssumption
<1>1. /\ x \in Nat /\ q \in Nat /\ s \in 0 .. w - 1
      /\ x = w * q + s
  <2>1. w * (ByteValues * r) \in Nat
    BY <1>0, ProductNat
  <2>2. x \in Nat
    BY <2>1
  <2>3. QED
    BY <2>2, DivMod
<1>2. p \in Nat /\ d \in 0 .. ByteValues - 1 /\ q = ByteValues * p + d
  BY <1>0, <1>1, DivMod
<1> HIDE DEF q, s, p, d
<1>3. p <= r - 1
  <2>1. SUFFICES ASSUME p >= r PROVE FALSE
    BY <1>2
  <2>2. ByteValues * r <= ByteValues * p
    BY <2>1, <1>0, <1>2, ScaleLeq
  <2>3. ByteValues * r \in Nat /\ ByteValues * p \in Nat
    BY <1>0, <1>2, ProductNat
  <2>4. ByteValues * r <= q
    BY <2>2, <2>3, <1>2
  <2>5. w * (ByteValues * r) <= w * q
    BY <2>3, <2>4, <1>1, ScaleLeq
  <2>6. w * q \in Nat /\ w * (ByteValues * r) \in Nat
    BY <2>3, <1>1, ProductNat
  <2>7. QED
    BY <2>5, <2>6, <1>1
<1>4. /\ y \in Nat
      /\ y <= ByteValues * r - 1
      /\ ByteValues * r \in Nat
  <2>1. ByteValues * p <= ByteValues * (r - 1)
    BY <1>0, <1>2, <1>3, ScaleLeq
  <2>2. ByteValues * (r - 1) = ByteValues * r - ByteValues
    BY <1>0
  <2>3. ByteValues * p \in Nat /\ ByteValues * r \in Nat
    BY <1>0, <1>2, ProductNat
  <2>4. b \in 0 .. ByteValues - 1
    BY DEF Byte
  <2>5. QED
    BY <2>1, <2>2, <2>3, <2>4, <1>0
<1>5. x - d * w + b * w = w * y + s
  <2>1. b \in Nat
    BY <1>0 DEF Byte
  <2>2. x = w * (ByteValues * p + d) + s
    BY <1>1, <1>2
  <2>3. w * (ByteValues * p + d) = w * (ByteValues * p) + d * w
    BY <1>0, <1>2
  <2>4. w * y = w * (ByteValues * p) + b * w
    BY <1>0, <1>2, <2>1
  <2>5. /\ w * (ByteValues * p) \in Nat /\ d * w \in Nat /\ b * w \in Nat
        /\ w * y \in Nat
    BY <1>0, <1>2, <1>4, <2>1, ProductNat
  <2>6. QED
    BY <2>2, <2>3, <2>4, <2>5, <1>1
<1> HIDE DEF y
<1>6. w * y <= w * (ByteValues * r) - w
  <2>1. w * y <= w * (ByteValues * r - 1)
    BY <1>4, ScaleLeq
  <2>2. w * (ByteValues * r - 1) = w * (ByteValues * r) - w
    BY <1>4
  <2>3. QED
    BY <2>1, <2>2
<1>7. w * y \in Nat /\ w * (ByteValues * r) \in Nat
  BY <1>4, ProductNat
<1>8. x - d * w + b * w \in 0 .. w * (ByteValues * r) - 1
  BY <1>1, <1>5, <1>6, <1>7
<1>9. QED
  BY <1>8 DEF q, d

LEMMA Sizes ==
  /\ ByteValues * ByteValues \in Nat
  /\ TimerMax \in Nat /\ TodValues \in Nat \ {0}
  /\ TimerMax + 1 = 1 * (ByteValues * ByteValues)
  /\ TimerMax + 1 = ByteValues * (ByteValues * 1)
  /\ TodValues = 1 * (ByteValues * (ByteValues * ByteValues))
  /\ TodValues = ByteValues * (ByteValues * ByteValues)
  /\ TodValues = (ByteValues * ByteValues) * (ByteValues * 1)
  /\ ByteValues * ByteValues # 0
<1>1. ByteValues \in Nat /\ ByteValues >= 2
  BY CiaAssumption
<1>2. ByteValues * ByteValues \in Nat /\ ByteValues * ByteValues >= ByteValues * 2
  BY <1>1, ProductNat, ScaleLeq
<1>3. ByteValues * (ByteValues * ByteValues) >= ByteValues * (ByteValues * 2)
  BY <1>1, <1>2, ScaleLeq
<1>4. ByteValues * ByteValues * ByteValues = ByteValues * (ByteValues * ByteValues)
  BY <1>1
<1>5. ByteValues * (ByteValues * ByteValues) \in Nat
  BY <1>1, <1>2, ProductNat
<1>6. ByteValues * (ByteValues * 2) >= 1
  <2>1. ByteValues * (ByteValues * 2) >= ByteValues * 4
    BY <1>1, ScaleLeq
  <2>2. QED BY <2>1, <1>1
<1>7. QED
  BY <1>1, <1>2, <1>3, <1>4, <1>5, <1>6 DEF TimerMax, TodValues

\* write_timer_high and the TALO/TBLO writes keep a latch in two bytes.
LEMMA TimerByte ==
  ASSUME NEW x \in 0 .. TimerMax, NEW i \in {0, 1}, NEW b \in Byte
  PROVE  WithByte(x, i, b) \in 0 .. TimerMax
<1>0. ByteValues \in Nat \ {0} /\ TimerMax \in Nat /\ x \in 0 .. (TimerMax + 1) - 1
  BY CiaAssumption, Sizes
<1>1. CASE i = 0
  <2> DEFINE w == 1
             r == ByteValues
  <2>1. w \in Nat \ {0} /\ r \in Nat \ {0} /\ TimerMax + 1 = w * (ByteValues * r)
    BY <1>0, Sizes
  <2>2. WithByte(x, i, b) = x - ((x \div w) % ByteValues) * w + b * w
    BY <1>1 DEF WithByte, ByteAt, Weight
  <2> HIDE DEF w, r
  <2>3. x \in 0 .. w * (ByteValues * r) - 1
    BY <1>0, <2>1
  <2>4. x - ((x \div w) % ByteValues) * w + b * w \in 0 .. w * (ByteValues * r) - 1
    BY <2>1, <2>3, DigitInRange
  <2>5. QED
    BY <1>0, <2>1, <2>2, <2>4
<1>2. CASE i = 1
  <2> DEFINE w == ByteValues
             r == 1
  <2>1. w \in Nat \ {0} /\ r \in Nat \ {0} /\ TimerMax + 1 = w * (ByteValues * r)
    BY <1>0, Sizes
  <2>2. WithByte(x, i, b) = x - ((x \div w) % ByteValues) * w + b * w
    BY <1>2 DEF WithByte, ByteAt, Weight
  <2> HIDE DEF w, r
  <2>3. x \in 0 .. w * (ByteValues * r) - 1
    BY <1>0, <2>1
  <2>4. x - ((x \div w) % ByteValues) * w + b * w \in 0 .. w * (ByteValues * r) - 1
    BY <2>1, <2>3, DigitInRange
  <2>5. QED
    BY <1>0, <2>1, <2>2, <2>4
<1>3. QED
  BY <1>1, <1>2

\* write_tod keeps the counter and the alarm in three bytes.
LEMMA TodByte ==
  ASSUME NEW x \in 0 .. TodValues - 1, NEW i \in 0 .. 2, NEW b \in Byte
  PROVE  WithByte(x, i, b) \in 0 .. TodValues - 1
<1>0. ByteValues \in Nat \ {0} /\ ByteValues * ByteValues \in Nat \ {0}
  BY CiaAssumption, Sizes
<1>1. CASE i = 0
  <2> DEFINE w == 1
             r == ByteValues * ByteValues
  <2>1. w \in Nat \ {0} /\ r \in Nat \ {0} /\ TodValues = w * (ByteValues * r)
    BY <1>0, Sizes
  <2>2. WithByte(x, i, b) = x - ((x \div w) % ByteValues) * w + b * w
    BY <1>1 DEF WithByte, ByteAt, Weight
  <2> HIDE DEF w, r
  <2>3. QED
    BY <2>1, <2>2, DigitInRange
<1>2. CASE i = 1
  <2> DEFINE w == ByteValues
             r == ByteValues
  <2>1. w \in Nat \ {0} /\ r \in Nat \ {0} /\ TodValues = w * (ByteValues * r)
    BY <1>0, Sizes
  <2>2. WithByte(x, i, b) = x - ((x \div w) % ByteValues) * w + b * w
    BY <1>2 DEF WithByte, ByteAt, Weight
  <2> HIDE DEF w, r
  <2>3. QED
    BY <2>1, <2>2, DigitInRange
<1>3. CASE i = 2
  <2> DEFINE w == ByteValues * ByteValues
             r == 1
  <2>1. w \in Nat \ {0} /\ r \in Nat \ {0} /\ TodValues = w * (ByteValues * r)
    BY <1>0, Sizes
  <2>2. WithByte(x, i, b) = x - ((x \div w) % ByteValues) * w + b * w
    BY <1>3 DEF WithByte, ByteAt, Weight
  <2> HIDE DEF w, r
  <2>3. QED
    BY <2>1, <2>2, DigitInRange
<1>4. QED
  BY <1>1, <1>2, <1>3

-----------------------------------------------------------------------------
(* Type correctness.                                                       *)

LEMMA ResetTyped ==
  /\ ResetTimer \in Timer /\ ResetCra \in Cra /\ ResetCrb \in Crb
  /\ 0 \in Byte /\ 0 \in 0 .. TodValues - 1 /\ 0 \in 0 .. ShiftUnderflows
<1>1. ResetTimer \in Timer
  BY Sizes DEF ResetTimer, Timer
<1>2. ResetCra \in Cra /\ ResetCrb \in Crb
  BY DEF ResetCra, ResetCrb, Cra, Crb
<1>3. QED
  BY <1>1, <1>2, Sizes, CiaAssumption DEF Byte

LEMMA TypeInit == Init => TypeOK
  BY ResetTyped DEF Init, TypeOK

LEMMA TypeNext == TypeOK /\ [Next]_vars => TypeOK'
<1> SUFFICES ASSUME TypeOK, [Next]_vars PROVE TypeOK'
  OBVIOUS
<1> USE CiaAssumption DEF TypeOK, timers, serial, clock
<1>1. CASE WriteTimerLow
  <2>1. ASSUME NEW t \in Timer, NEW b \in Byte PROVE WriteLow(t, b) \in Timer
    BY TimerByte DEF WriteLow, Timer
  <2>2. \A b \in Written["TALO"] \cup Written["TBLO"] : b \in Byte
    BY DEF ByteRegs
  <2>3. QED
    BY <1>1, <2>1, <2>2 DEF WriteTimerLow
<1>2. ASSUME NEW t \in Timer, NEW cr, NEW b \in Byte PROVE WriteHigh(t, cr, b) \in Timer
  BY TimerByte DEF WriteHigh, HighLatch, Timer
<1>3. CASE WriteTimerAHigh
  <2>1. \A b \in Written["TAHI"] : b \in Byte
    BY DEF ByteRegs
  <2>2. StartOnHigh(cra) \in Cra
    BY DEF StartOnHigh, Cra
  <2>3. QED
    BY <1>2, <1>3, <2>1, <2>2 DEF WriteTimerAHigh
<1>4. CASE WriteTimerBHigh
  <2>1. \A b \in Written["TBHI"] : b \in Byte
    BY DEF ByteRegs
  <2>2. StartOnHigh(crb) \in Crb
    BY DEF StartOnHigh, Crb
  <2>3. QED
    BY <1>2, <1>4, <2>1, <2>2 DEF WriteTimerBHigh
<1>5. ASSUME NEW t \in Timer, NEW load PROVE Strobed(t, load) \in Timer
  BY DEF Strobed, Timer
<1>6. CASE WriteCra
  <2>1. PICK v \in CraValues :
          /\ shiftOut' = IF Turns(v) THEN 0 ELSE shiftOut
          /\ sdrPending' = (sdrPending /\ ~Turns(v))
          /\ timerA' = Strobed(timerA, v.load)
          /\ cra' = v.cr
    BY <1>6 DEF WriteCra
  <2>2. v.cr \in Cra
    OBVIOUS
  <2>3. timerA' \in Timer /\ cra' \in Cra
    BY <1>5, <2>1, <2>2
  <2>4. shiftOut' \in 0 .. ShiftUnderflows
    BY <2>1
  <2>5. sdrPending' \in BOOLEAN
    BY <2>1
  <2>6. QED
    BY <1>6, <2>3, <2>4, <2>5 DEF WriteCra
<1>7. CASE WriteCrb
  BY <1>5, <1>7 DEF WriteCrb
<1>8. CASE WriteSdr
  <2>1. PICK b \in Written["SDR"] : sdr' = b
    BY <1>8 DEF WriteSdr
  <2>2. sdr' \in Byte
    BY <2>1 DEF ByteRegs
  <2>3. shiftOut' = shiftOut \/ shiftOut' = ShiftUnderflows
    BY <1>8 DEF WriteSdr
  <2>4. sdrPending' = sdrPending \/ sdrPending' = TRUE
    BY <1>8, Zenon DEF WriteSdr
  <2>5. shiftOut' \in 0 .. ShiftUnderflows
    BY <2>3
  <2>6. sdrPending' \in BOOLEAN
    BY <2>4, Zenon
  <2>7. QED
    BY <1>8, <2>2, <2>5, <2>6 DEF WriteSdr
<1>9. CASE WriteIcr
  BY <1>9 DEF WriteIcr
<1>10. CASE WriteTod
  <2>1. PICK i \in 0 .. 2 : \E b \in Written[TodReg[i + 1]] :
          IF crb.alarm
          THEN alarm' = WithByte(alarm, i, b) /\ UNCHANGED <<tod, todHalted>>
          ELSE tod' = WithByte(tod, i, b) /\ todHalted' = HaltedAfter(i) /\ UNCHANGED alarm
    BY <1>10 DEF WriteTod
  <2>2. TodReg[i + 1] \in ByteRegs
    BY DEF TodReg, ByteRegs
  <2>3. {tod', alarm'} \subseteq 0 .. TodValues - 1
    BY <2>1, <2>2, TodByte
  <2>4. todHalted' \in BOOLEAN
    BY <2>1, <2>2 DEF HaltedAfter
  <2>5. QED
    BY <1>10, <2>3, <2>4 DEF WriteTod
<1>11. CASE ReadTodHi
  BY <1>11 DEF ReadTodHi
<1>12. CASE ReadTodMid
  BY <1>12 DEF ReadTodMid
<1>13. CASE ReadTodLo
  BY <1>13 DEF ReadTodLo
<1>14. CASE ReadIcr
  BY <1>14 DEF ReadIcr
<1>15. CASE Tick
  <2>1. ASSUME NEW t \in Timer, NEW cr PROVE Counted(t, cr) \in Timer
    BY Sizes DEF Counted, Timer
  <2>2. AfterCount(timerA, cra) \in Cra /\ AfterCount(timerB, crb) \in Crb
    BY DEF AfterCount, Cra, Crb
  <2>3. timerA' \in Timer /\ timerB' \in Timer
    BY <1>15, <2>1 DEF Tick
  <2>4. cra' \in Cra /\ crb' \in Crb
    BY <1>15, <2>2 DEF Tick
  <2>5. shiftOut' \in 0 .. ShiftUnderflows
    BY <1>15 DEF Tick, Shifts
  <2>6. sdrPending' \in BOOLEAN
    BY <1>15 DEF Tick
  <2>7. icrData' \subseteq Flags
    BY <1>15 DEF Tick, Raised, Flags
  <2>8. QED
    BY <1>15, <2>3, <2>4, <2>5, <2>6, <2>7 DEF Tick
<1>16. CASE TodPulse
  <2>1. tod' \in 0 .. TodValues - 1
    <3>1. tod + 1 \in Nat /\ TodValues \in Nat \ {0}
      BY Sizes
    <3>2. (tod + 1) % TodValues \in 0 .. TodValues - 1
      BY <3>1, DivMod
    <3>3. QED
      BY <1>16, <3>2 DEF TodPulse
  <2>2. QED
    BY <1>16, <2>1 DEF TodPulse, Raised, Flags
<1>17. CASE FlagPulse
  BY <1>17 DEF FlagPulse, Raised, Flags
<1>18. CASE SerialInput
  BY <1>18 DEF SerialInput, Raised, Flags
<1>19. CASE Reset
  BY <1>19, ResetTyped DEF Reset
<1>20. CASE UNCHANGED vars
  BY <1>20 DEF vars
<1>21. QED
  BY <1>1, <1>3, <1>4, <1>6, <1>7, <1>8, <1>9, <1>10, <1>11, <1>12, <1>13, <1>14, <1>15,
     <1>16, <1>17, <1>18, <1>19, <1>20 DEF Next

\* Every register keeps a value of its width: byte writes to latches, counter, clock
\* and alarm, counting and wrapping never leave the range (cia.cpp, all of Cia8520).
THEOREM TypeCorrect == Spec => []TypeOK
  BY TypeInit, TypeNext, PTL DEF Spec

-----------------------------------------------------------------------------
(* The serial port.                                                        *)

LEMMA SerialNext == TypeOK /\ ShiftOnlyInOutputMode /\ [Next]_vars => ShiftOnlyInOutputMode'
<1> SUFFICES ASSUME TypeOK, ShiftOnlyInOutputMode, [Next]_vars PROVE ShiftOnlyInOutputMode'
  OBVIOUS
<1> USE DEF ShiftOnlyInOutputMode, timers, serial, clock
\* A write to TAHI can only set START: SPMODE stays.
<1>1. ASSUME StartOnHigh(cra) = cra' PROVE cra'.spMode = cra.spMode
  BY <1>1 DEF StartOnHigh, TypeOK, Cra
<1>2. CASE WriteTimerAHigh
  BY <1>1, <1>2 DEF WriteTimerAHigh
\* A direction change empties the port, any other write to CRA keeps it.
<1>3. CASE WriteCra
  BY <1>3 DEF WriteCra, Turns, TypeOK, Cra
<1>4. CASE WriteSdr
  BY <1>4, CiaAssumption DEF WriteSdr
\* Counting never touches SPMODE; a finished byte gives way to the one waiting.
<1>5. CASE Tick
  <2>1. AfterCount(timerA, cra).spMode = cra.spMode
    BY DEF AfterCount, TypeOK, Cra
  <2>2. cra'.spMode = cra.spMode
    BY <1>5, <2>1 DEF Tick
  <2>3. shiftOut' # 0 => shiftOut # 0
    BY <1>5, CiaAssumption DEF Tick, ByteSent, Shifts, TypeOK
  <2>4. sdrPending' => sdrPending /\ ~ByteSent
    BY <1>5 DEF Tick
  <2>5. sdrPending' => shiftOut' # 0
    BY <1>5, <2>4 DEF Tick, ByteSent, Shifts, TypeOK
  <2>6. QED
    BY <2>2, <2>3, <2>5
<1>6. CASE Reset
  BY <1>6 DEF Reset
<1>7. CASE UNCHANGED <<cra, shiftOut, sdrPending>>
  BY <1>7
<1>8. QED
  BY <1>2, <1>3, <1>4, <1>5, <1>6, <1>7
  DEF Next, vars, WriteTimerLow, WriteTimerBHigh, WriteCrb, WriteIcr, WriteTod, ReadTodHi,
      ReadTodMid, ReadTodLo, ReadIcr, TodPulse, FlagPulse, SerialInput

\* A transfer is in progress, and a byte waits behind it, only while CRA SPMODE makes
\* the port an output (cia.cpp, kSdr and kCra writes against tick()).
THEOREM ShiftSafe == Spec => []ShiftOnlyInOutputMode
<1>1. Init => ShiftOnlyInOutputMode
  BY DEF Init, ShiftOnlyInOutputMode
<1>2. QED
  BY <1>1, SerialNext, TypeCorrect, PTL DEF Spec

-----------------------------------------------------------------------------
(* One-shot timers.                                                        *)

\* OneShotFiresOnce is not inductive: it needs that the underflow stopped the timer.
Armed == cra.oneShot => firedA = 0 \/ (firedA = 1 /\ ~cra.start)

LEMMA ArmedNext == TypeOK /\ Armed /\ [Next]_vars => Armed'
<1> SUFFICES ASSUME TypeOK, Armed, [Next]_vars PROVE Armed'
  OBVIOUS
<1> USE DEF Armed, timers, serial, clock
<1>1. CASE WriteTimerAHigh \/ WriteCra \/ Reset
  BY <1>1 DEF WriteTimerAHigh, WriteCra, Reset
<1>2. CASE Tick
  <2>1. cra'.oneShot = cra.oneShot
    BY <1>2 DEF Tick, AfterCount, TypeOK, Cra
  <2>2. CASE AUnderflow
    <3>1. cra.start
      BY <2>2 DEF AUnderflow, Underflows
    <3>2. cra.oneShot => firedA' = 1
      BY <1>2, <2>2, <3>1 DEF Tick
    <3>3. cra.oneShot => ~cra'.start
      BY <1>2, <2>2 DEF Tick, AUnderflow, AfterCount, TypeOK, Cra
    <3>4. QED
      BY <2>1, <3>2, <3>3
  <2>3. CASE ~AUnderflow
    <3>1. firedA' = firedA
      BY <1>2, <2>3 DEF Tick
    <3>2. cra'.start => cra.start
      BY <1>2 DEF Tick, AfterCount, TypeOK, Cra
    <3>3. QED
      BY <2>1, <3>1, <3>2
  <2>4. QED
    BY <2>2, <2>3
<1>3. CASE UNCHANGED <<cra, firedA>>
  BY <1>3
<1>4. QED
  BY <1>1, <1>2, <1>3
  DEF Next, vars, WriteTimerLow, WriteTimerBHigh, WriteCrb, WriteSdr, WriteIcr, WriteTod,
      ReadTodHi, ReadTodMid, ReadTodLo, ReadIcr, TodPulse, FlagPulse, SerialInput

\* A one-shot timer underflows at most once each time software arms it (cia.cpp,
\* count(), write_control and write_timer_high).
THEOREM OneShotSafe == Spec => []OneShotFiresOnce
<1>1. Init => Armed
  BY DEF Init, Armed
<1>2. Armed => OneShotFiresOnce
  BY DEF Armed, OneShotFiresOnce
<1>3. QED
  BY <1>1, <1>2, ArmedNext, TypeCorrect, PTL DEF Spec

-----------------------------------------------------------------------------
(* The interrupt line.                                                     *)

\* Only the CPU releases /IRQ (cia.cpp, every assignment to icr_data_ and icr_mask_).
THEOREM IrqSafe == Spec => IrqHeldUntilServed
<1>1. ASSUME [Next]_vars, Irq, ~Irq' PROVE ReadIcr \/ WriteIcr \/ Reset
  <2> USE <1>1 DEF Irq, timers, serial, clock
  <2>1. CASE Tick \/ TodPulse \/ FlagPulse \/ SerialInput
    <3>1. icrMask' = icrMask
      BY <2>1 DEF Tick, TodPulse, FlagPulse, SerialInput
    <3>2. icrData \subseteq icrData'
      BY <2>1 DEF Tick, TodPulse, FlagPulse, SerialInput, Raised
    <3>3. QED
      BY <3>1, <3>2
  <2>2. CASE UNCHANGED <<icrData, icrMask>>
    BY <2>2
  <2>3. QED
    BY <2>1, <2>2
    DEF Next, vars, WriteTimerLow, WriteTimerAHigh, WriteTimerBHigh, WriteCra, WriteCrb,
        WriteSdr, WriteTod, ReadTodHi, ReadTodMid, ReadTodLo
<1>2. [Next]_vars => [Irq /\ ~Irq' => ReadIcr \/ WriteIcr \/ Reset]_vars
  BY <1>1
<1>3. QED
  BY <1>2, PTL DEF Spec, IrqHeldUntilServed

-----------------------------------------------------------------------------
(* The cascade.                                                            *)

LEMMA CascadeStep ==
  ASSUME TypeOK, Tick, Cascaded
  PROVE  /\ Cascade' = IF Cascade = 0 THEN CascadeOf(timerA.latch, timerB.latch) ELSE Cascade - 1
         /\ Cascade = 0 => "TB" \in icrData'
         /\ "TB" \in icrData' \ icrData => Cascade = 0
<1> DEFINE a == timerA.counter
           b == timerB.counter
           m == timerA.latch + 1
<1>1. a \in Nat /\ b \in Nat /\ m \in Nat \ {0} /\ a < m
  BY Sizes DEF TypeOK, Timer, Cascaded
<1>2. Cascade = b * m + a
  BY DEF Cascade, CascadeOf
<1>3. /\ timerA'.latch = timerA.latch
      /\ timerA'.counter = IF a # 0 THEN a - 1 ELSE m - 1
  BY <1>1 DEF Tick, Counted, Cascaded, TypeOK, Timer
<1>4. AUnderflow <=> a = 0
  BY DEF AUnderflow, Underflows, Cascaded
<1>5. BCounts <=> a = 0
  BY <1>4 DEF BCounts, Cascaded
<1>6. timerB'.counter = IF a # 0 THEN b ELSE IF b # 0 THEN b - 1 ELSE timerB.latch
  BY <1>5 DEF Tick, Counted, Cascaded, TypeOK, Timer
<1>7. Cascade' = timerB'.counter * m + timerA'.counter
  BY <1>3 DEF Cascade, CascadeOf
<1> HIDE DEF a, b, m
<1>8. Cascade = 0 <=> a = 0 /\ b = 0
  <2>1. b # 0 => b * m >= 1
    <3>1. ASSUME b # 0 PROVE b * m >= 1
      <4>1. m * 1 <= m * b
        BY <1>1, <3>1, ScaleLeq
      <4>2. QED
        BY <4>1, <1>1
    <3>2. QED
      BY <3>1
  <2>2. b = 0 => b * m = 0
    BY <1>1
  <2>3. b * m \in Nat
    BY <1>1, ProductNat
  <2>4. QED
    BY <1>1, <1>2, <2>1, <2>2, <2>3
<1>9. Cascade' = IF Cascade = 0 THEN CascadeOf(timerA.latch, timerB.latch) ELSE Cascade - 1
  <2>1. CASE a # 0
    BY <1>1, <1>2, <1>3, <1>6, <1>7, <1>8, <2>1, ProductNat
  <2>2. CASE a = 0 /\ b # 0
    <3>1. (b - 1) * m = b * m - m
      BY <1>1
    <3>2. Cascade' = (b - 1) * m + (m - 1)
      BY <1>3, <1>6, <1>7, <2>2
    <3>3. b * m \in Nat
      BY <1>1, ProductNat
    <3>4. QED
      BY <1>1, <1>2, <1>8, <2>2, <3>1, <3>2, <3>3
  <2>3. CASE a = 0 /\ b = 0
    <3>1. Cascade' = timerB.latch * m + (m - 1)
      BY <1>3, <1>6, <1>7, <2>3
    <3>2. m - 1 = timerA.latch
      BY DEF m, TypeOK, Timer
    <3>3. QED
      BY <1>8, <2>3, <3>1, <3>2 DEF CascadeOf, m
  <2>4. QED
    BY <2>1, <2>2, <2>3
<1>10. (Cascade = 0 => "TB" \in icrData') /\ ("TB" \in icrData' \ icrData => Cascade = 0)
  <2>1. BCounts /\ Underflows(timerB, crb) <=> a = 0 /\ b = 0
    BY <1>5 DEF Underflows, Cascaded, b
  <2>2. QED
    BY <1>8, <2>1 DEF Tick, Raised
<1>11. QED
  BY <1>9, <1>10

\* Two timers in cascade count as one (cia.cpp, the order of tick()).
THEOREM CascadeSafe == Spec => CascadeIsOneCounter
<1>1. TypeOK /\ [Next]_vars =>
        [ Tick /\ Cascaded =>
            /\ Cascade' = IF Cascade = 0 THEN CascadeOf(timerA.latch, timerB.latch)
                          ELSE Cascade - 1
            /\ Cascade = 0 => "TB" \in icrData'
            /\ "TB" \in icrData' \ icrData => Cascade = 0 ]_vars
  BY CascadeStep
<1>2. QED
  BY <1>1, TypeCorrect, PTL DEF Spec, CascadeIsOneCounter
-----------------------------------------------------------------------------
(* The clock read in three bytes.                                          *)

\* A quotient is unique.
LEMMA DivUnique ==
  ASSUME NEW d \in Nat \ {0}, NEW q \in Nat, NEW r \in 0 .. d - 1
  PROVE  (d * q + r) \div d = q /\ (d * q + r) % d = r
<1> DEFINE x == d * q + r
           u == x \div d
           v == x % d
<1>1. x \in Nat
  BY ProductNat
<1>2. u \in Nat /\ v \in 0 .. d - 1 /\ x = d * u + v
  BY <1>1, DivMod
<1>3. d * q \in Nat /\ d * u \in Nat /\ x = d * q + r
  BY <1>2, ProductNat
<1> HIDE DEF x, u, v
<1>4. q <= u
  <2>1. SUFFICES ASSUME u + 1 <= q PROVE FALSE
    BY <1>2
  <2>2. d * (u + 1) <= d * q
    BY <1>2, <2>1, ScaleLeq
  <2>3. d * (u + 1) = d * u + d
    BY <1>2
  <2>4. QED
    BY <1>2, <1>3, <2>2, <2>3
<1>5. u <= q
  <2>1. SUFFICES ASSUME q + 1 <= u PROVE FALSE
    BY <1>2
  <2>2. d * (q + 1) <= d * u
    BY <1>2, <2>1, ScaleLeq
  <2>3. d * (q + 1) = d * q + d
    OBVIOUS
  <2>4. QED
    BY <1>2, <1>3, <2>2, <2>3
<1>6. u = q
  BY <1>2, <1>4, <1>5
<1>7. v = r
  BY <1>2, <1>3, <1>6
<1>8. QED
  BY <1>6, <1>7 DEF u, v, x

\* The three bytes of the counter are the counter.
LEMMA BytesCompose ==
  ASSUME NEW x \in 0 .. TodValues - 1
  PROVE  (ByteAt(x, 2) * ByteValues + ByteAt(x, 1)) * ByteValues + ByteAt(x, 0) = x
<1> DEFINE W == ByteValues * ByteValues
           q == x \div ByteValues
           r == x % ByteValues
           p == q \div ByteValues
           s == q % ByteValues
<1>1. ByteValues \in Nat \ {0} /\ W \in Nat \ {0} /\ x \in Nat /\ TodValues = ByteValues * W
  BY CiaAssumption, Sizes
<1>2. q \in Nat /\ r \in 0 .. ByteValues - 1 /\ x = ByteValues * q + r
  BY <1>1, DivMod
<1>3. p \in Nat /\ s \in 0 .. ByteValues - 1 /\ q = ByteValues * p + s
  BY <1>1, <1>2, DivMod
<1> HIDE DEF q, r, p, s
<1>4. ByteValues * s + r \in 0 .. W - 1
  <2>1. ByteValues * s <= ByteValues * (ByteValues - 1)
    BY <1>1, <1>3, ScaleLeq
  <2>2. ByteValues * (ByteValues - 1) = W - ByteValues
    BY <1>1
  <2>3. ByteValues * s \in Nat
    BY <1>1, <1>3, ProductNat
  <2>4. QED
    BY <1>1, <1>2, <2>1, <2>2, <2>3
<1>5. x = W * p + (ByteValues * s + r)
  <2>1. ByteValues * (ByteValues * p + s) = ByteValues * (ByteValues * p) + ByteValues * s
    BY <1>1, <1>3
  <2>2. ByteValues * (ByteValues * p) = W * p
    BY <1>1, <1>3
  <2>3. W * p \in Nat /\ ByteValues * s \in Nat
    BY <1>1, <1>3, ProductNat
  <2>4. QED
    BY <1>2, <1>3, <2>1, <2>2, <2>3
<1> HIDE DEF W
<1>6. x \div W = p
  BY <1>1, <1>3, <1>4, <1>5, DivUnique
<1>7. p \in 0 .. ByteValues - 1
  <2>1. SUFFICES ASSUME p >= ByteValues PROVE FALSE
    BY <1>1, <1>3
  <2>2. W * ByteValues <= W * p
    BY <1>1, <1>3, <2>1, ScaleLeq
  <2>3. W * ByteValues = ByteValues * W
    BY <1>1
  <2>4. W * p \in Nat /\ ByteValues * W \in Nat
    BY <1>1, <1>3, ProductNat
  <2>5. x <= ByteValues * W - 1
    BY <1>1, <2>4
  <2>6. QED
    BY <1>4, <1>5, <2>2, <2>3, <2>4, <2>5
<1>8. ByteAt(x, 0) = r /\ ByteAt(x, 1) = s
  BY <1>1 DEF ByteAt, Weight, r, s, q
<1>9. ByteAt(x, 2) = p
  <2>1. ByteAt(x, 2) = p % ByteValues
    BY <1>6 DEF ByteAt, Weight, W
  <2>2. QED
    BY <1>1, <1>7, <2>1
<1>10. QED
  <2>1. (p * ByteValues + s) * ByteValues + r = ByteValues * q + r
    BY <1>1, <1>2, <1>3
  <2>2. QED
    BY <1>2, <1>8, <1>9, <2>1

LEMMA ByteInt ==
  ASSUME NEW x \in Nat, NEW i \in 0 .. 2 PROVE ByteAt(x, i) \in Int
<1>1. ByteValues \in Nat \ {0} /\ ByteValues * ByteValues \in Nat \ {0}
  BY CiaAssumption, Sizes
<1>2. Weight(i) \in Nat \ {0}
  BY <1>1 DEF Weight
<1>3. x \div Weight(i) \in Nat
  BY <1>2, DivMod
<1>4. QED
  BY <1>1, <1>3, DivMod DEF ByteAt

LEMMA OneMore ==
  ASSUME NEW s \in Seq(Int), NEW e \in Int
  PROVE  /\ Append(s, e) \in Seq(Int) /\ Len(Append(s, e)) = Len(s) + 1
         /\ \A i \in 1 .. Len(s) : Append(s, e)[i] = s[i]
         /\ Append(s, e)[Len(s) + 1] = e
  OBVIOUS

\* The bytes read so far are the snapshot's, and while more are to come the latch
\* holds it.
ReadsSnapshot ==
  /\ todSnap \in 0 .. TodValues - 1
  /\ todRead \in Seq(Int) /\ Len(todRead) <= 3
  /\ \A i \in 1 .. Len(todRead) : todRead[i] = ByteAt(todSnap, 3 - i)
  /\ Len(todRead) \in {1, 2} => todLatched /\ todLatch = todSnap

LEMMA ReadsNext == TypeOK /\ ReadsSnapshot /\ [Next]_vars => ReadsSnapshot'
<1> SUFFICES ASSUME TypeOK, ReadsSnapshot, [Next]_vars PROVE ReadsSnapshot'
  OBVIOUS
<1> USE DEF ReadsSnapshot, timers, serial, clock
<1>0. /\ todSnap \in Nat /\ tod \in Nat
      /\ \A i \in 0 .. 2 : ByteAt(todSnap, i) \in Int /\ ByteAt(tod, i) \in Int
  <2>1. todSnap \in Nat /\ tod \in Nat
    BY Sizes DEF TypeOK
  <2>2. QED
    BY <2>1, ByteInt
<1>1. CASE ReadTodHi
  BY <1>0, <1>1 DEF ReadTodHi, TypeOK
<1>2. CASE ReadTodMid
  <2>1. todSnap' = todSnap /\ todLatched' = todLatched /\ todLatch' = todLatch
    BY <1>2 DEF ReadTodMid
  <2>2. CASE Len(todRead) = 1
    <3>1. todRead' = Append(todRead, ByteAt(todSnap, 1))
      BY <1>2, <2>2 DEF ReadTodMid, TodSource
    <3>2. /\ todRead' \in Seq(Int) /\ Len(todRead') = 2
          /\ \A i \in 1 .. 1 : todRead'[i] = todRead[i]
          /\ todRead'[2] = ByteAt(todSnap, 1)
      <4> DEFINE e == ByteAt(todSnap, 1)
      <4>1. e \in Int /\ todRead \in Seq(Int) /\ todRead' = Append(todRead, e)
        BY <1>0, <3>1
      <4> HIDE DEF e
      <4>2. /\ todRead' \in Seq(Int) /\ Len(todRead') = Len(todRead) + 1
            /\ \A i \in 1 .. Len(todRead) : todRead'[i] = todRead[i]
            /\ todRead'[Len(todRead) + 1] = e
        BY <4>1, OneMore
      <4>3. QED
        BY <2>2, <4>2 DEF e
    <3>3. \A i \in 1 .. Len(todRead') : todRead'[i] = ByteAt(todSnap, 3 - i)
      BY <2>2, <3>2
    <3>4. QED
      BY <2>1, <2>2, <3>2, <3>3
  <2>3. CASE Len(todRead) # 1
    BY <1>2, <2>1, <2>3 DEF ReadTodMid
  <2>4. QED
    BY <2>2, <2>3
<1>3. CASE ReadTodLo
  <2>1. todSnap' = todSnap
    BY <1>3 DEF ReadTodLo
  <2>2. CASE Len(todRead) = 2
    <3>1. todRead' = Append(todRead, ByteAt(todSnap, 0))
      BY <1>3, <2>2 DEF ReadTodLo, TodSource
    <3>2. /\ todRead' \in Seq(Int) /\ Len(todRead') = 3
          /\ \A i \in 1 .. 2 : todRead'[i] = todRead[i]
          /\ todRead'[3] = ByteAt(todSnap, 0)
      <4> DEFINE e == ByteAt(todSnap, 0)
      <4>1. e \in Int /\ todRead \in Seq(Int) /\ todRead' = Append(todRead, e)
        BY <1>0, <3>1
      <4> HIDE DEF e
      <4>2. /\ todRead' \in Seq(Int) /\ Len(todRead') = Len(todRead) + 1
            /\ \A i \in 1 .. Len(todRead) : todRead'[i] = todRead[i]
            /\ todRead'[Len(todRead) + 1] = e
        BY <4>1, OneMore
      <4>3. QED
        BY <2>2, <4>2 DEF e
    <3>3. \A i \in 1 .. Len(todRead') : todRead'[i] = ByteAt(todSnap, 3 - i)
      BY <2>2, <3>2
    <3>4. QED
      BY <2>1, <2>2, <3>2, <3>3
  <2>3. CASE Len(todRead) # 2
    BY <1>3, <2>1, <2>3 DEF ReadTodLo
  <2>4. QED
    BY <2>2, <2>3
<1>4. CASE Reset
  BY <1>4, ResetTyped DEF Reset
<1>5. CASE UNCHANGED <<todRead, todSnap, todLatched, todLatch>>
  BY <1>5
<1>6. QED
  BY <1>1, <1>2, <1>3, <1>4, <1>5
  DEF Next, vars, WriteTimerLow, WriteTimerAHigh, WriteTimerBHigh, WriteCra, WriteCrb,
      WriteSdr, WriteIcr, WriteTod, ReadIcr, Tick, TodPulse, FlagPulse, SerialInput

\* Three bytes read, HI first and LO last, are one value of the running clock (cia.cpp,
\* the reads of kTodHi, kTodMid and kTodLo).
THEOREM TodReadSafe == Spec => []TodReadAtomic
<1>1. Init => ReadsSnapshot
  BY ResetTyped DEF Init, ReadsSnapshot
<1>2. ReadsSnapshot => TodReadAtomic
  <2>1. SUFFICES ASSUME ReadsSnapshot, Len(todRead) = 3 PROVE TodOf(todRead) = todSnap
    BY DEF TodReadAtomic
  <2>2. /\ todRead[1] = ByteAt(todSnap, 2) /\ todRead[2] = ByteAt(todSnap, 1)
        /\ todRead[3] = ByteAt(todSnap, 0) /\ todSnap \in 0 .. TodValues - 1
    BY <2>1 DEF ReadsSnapshot
  <2>3. QED
    BY <2>2, BytesCompose DEF TodOf
<1>3. QED
  BY <1>1, <1>2, ReadsNext, TypeCorrect, PTL DEF Spec

-----------------------------------------------------------------------------
(* The clock written in three bytes.                                       *)

Composed(h, m, l) == (h * ByteValues + m) * ByteValues + l

\* A value put together from three bytes has these bytes.
LEMMA Digits ==
  ASSUME NEW h \in Byte, NEW m \in Byte, NEW l \in Byte
  PROVE  /\ Composed(h, m, l) \in Nat
         /\ ByteAt(Composed(h, m, l), 0) = l
         /\ ByteAt(Composed(h, m, l), 1) = m
         /\ ByteAt(Composed(h, m, l), 2) = h
<1> DEFINE W == ByteValues * ByteValues
           q == ByteValues * h + m
           x == ByteValues * q + l
           r == ByteValues * m + l
<1>1. ByteValues \in Nat \ {0} /\ W \in Nat \ {0} /\ h \in Nat /\ m \in Nat /\ l \in Nat
  BY CiaAssumption, Sizes DEF Byte
<1>2. q \in Nat /\ r \in Nat /\ x \in Nat
  BY <1>1, ProductNat
<1>3. x = Composed(h, m, l)
  BY <1>1 DEF Composed
<1>4. q \div ByteValues = h /\ q % ByteValues = m
  BY <1>1, DivUnique DEF Byte
<1>5. x \div ByteValues = q /\ x % ByteValues = l
  <2> HIDE DEF q
  <2> QED
    BY <1>1, <1>2, DivUnique DEF Byte
<1>6. r \in 0 .. W - 1
  <2>1. ByteValues * m <= ByteValues * (ByteValues - 1)
    BY <1>1, ScaleLeq DEF Byte
  <2>2. ByteValues * (ByteValues - 1) = W - ByteValues
    BY <1>1
  <2>3. QED
    BY <1>1, <1>2, <2>1, <2>2 DEF Byte
<1>7. x = W * h + r
  <2>1. ByteValues * (ByteValues * h + m) = ByteValues * (ByteValues * h) + ByteValues * m
    BY <1>1
  <2>2. ByteValues * (ByteValues * h) = W * h
    BY <1>1
  <2>3. W * h \in Nat /\ ByteValues * m \in Nat
    BY <1>1, ProductNat
  <2>4. QED
    BY <1>1, <2>1, <2>2, <2>3
<1> HIDE DEF q, x, r
<1>8. x \div W = h
  <2> HIDE DEF W
  <2> QED
    BY <1>1, <1>6, <1>7, DivUnique
<1>9. h % ByteValues = h
  BY <1>1 DEF Byte
<1>10. ByteAt(x, 0) = l /\ ByteAt(x, 1) = m /\ ByteAt(x, 2) = h
  <2>1. ByteAt(x, 0) = x % ByteValues
    BY <1>1, <1>2 DEF ByteAt, Weight
  <2>2. ByteAt(x, 1) = (x \div ByteValues) % ByteValues
    BY DEF ByteAt, Weight
  <2>3. ByteAt(x, 2) = (x \div W) % ByteValues
    BY DEF ByteAt, Weight
  <2>4. QED
    BY <1>4, <1>5, <1>8, <1>9, <2>1, <2>2, <2>3
<1>11. QED
  BY <1>2, <1>3, <1>10

LEMMA ByteOf ==
  ASSUME NEW x \in 0 .. TodValues - 1
  PROVE  /\ ByteAt(x, 0) \in Byte /\ ByteAt(x, 1) \in Byte /\ ByteAt(x, 2) \in Byte
         /\ x = Composed(ByteAt(x, 2), ByteAt(x, 1), ByteAt(x, 0))
<1>1. ByteValues \in Nat \ {0} /\ ByteValues * ByteValues \in Nat \ {0} /\ x \in Nat
  BY CiaAssumption, Sizes
<1>2. x \div 1 \in Nat /\ x \div ByteValues \in Nat /\ x \div (ByteValues * ByteValues) \in Nat
  <2>1. \A d \in Nat \ {0} : x \div d \in Nat
    BY <1>1, DivMod
  <2>2. QED
    BY <1>1, <2>1
<1>3. \A y \in Nat : y % ByteValues \in Byte
  BY <1>1, DivMod DEF Byte
<1>4. ByteAt(x, 0) \in Byte /\ ByteAt(x, 1) \in Byte /\ ByteAt(x, 2) \in Byte
  BY <1>2, <1>3 DEF ByteAt, Weight
<1>5. QED
  BY <1>4, BytesCompose DEF Composed

\* Writing one byte of the clock writes that byte and no other.
LEMMA WriteComposes ==
  ASSUME NEW x \in 0 .. TodValues - 1, NEW b \in Byte
  PROVE  /\ WithByte(x, 2, b) = Composed(b, ByteAt(x, 1), ByteAt(x, 0))
         /\ WithByte(x, 1, b) = Composed(ByteAt(x, 2), b, ByteAt(x, 0))
         /\ WithByte(x, 0, b) = Composed(ByteAt(x, 2), ByteAt(x, 1), b)
<1> DEFINE h == ByteAt(x, 2)
           m == ByteAt(x, 1)
           l == ByteAt(x, 0)
           B == ByteValues
<1>1. /\ h \in Int /\ m \in Int /\ l \in Int /\ b \in Int /\ B \in Int /\ x \in Int
      /\ x = Composed(h, m, l)
  BY ByteOf, CiaAssumption, Sizes DEF Byte
<1>2. /\ WithByte(x, 2, b) = x - h * (B * B) + b * (B * B)
      /\ WithByte(x, 1, b) = x - m * B + b * B
      /\ WithByte(x, 0, b) = x - l * 1 + b * 1
  BY DEF WithByte, Weight
<1> HIDE DEF h, m, l, B
<1>3. \A u, v, w \in Int : Composed(u, v, w) = u * (B * B) + v * B + w
  BY <1>1 DEF Composed, B
<1>4. \A u, v \in Int : u * (B * B) \in Int /\ v * B \in Int
  BY <1>1
<1>5. QED
  <2>1. x = h * (B * B) + m * B + l
    BY <1>1, <1>3
  <2>2. WithByte(x, 2, b) = Composed(b, m, l)
    BY <1>1, <1>2, <1>3, <1>4, <2>1
  <2>3. WithByte(x, 1, b) = Composed(h, b, l)
    BY <1>1, <1>2, <1>3, <1>4, <2>1
  <2>4. WithByte(x, 0, b) = Composed(h, m, b)
    BY <1>1, <1>2, <1>3, <1>4, <2>1
  <2>5. QED
    BY <2>2, <2>3, <2>4 DEF h, m, l

\* While a value is half written the counter stands still and holds what was written.
WritesHalt ==
  /\ todWrote \in Seq(Int) /\ Len(todWrote) <= 3
  /\ Len(todWrote) \in {1, 2} => todHalted /\ todWrote[1] = ByteAt(tod, 2)
  /\ Len(todWrote) = 2 => todWrote[2] = ByteAt(tod, 1)

\* A write of a byte to the counter: what it leaves of the bytes, and of the record.
LEMMA CounterWrite ==
  ASSUME TypeOK, WritesHalt, NEW i \in 0 .. 2, NEW b \in Written[TodReg[i + 1]],
         tod' = WithByte(tod, i, b), todHalted' = HaltedAfter(i),
         todWrote' = IF i = 2 THEN <<b>>
                     ELSE IF Len(todWrote) = 2 - i THEN Append(todWrote, b) ELSE <<>>
  PROVE  /\ WritesHalt'
         /\ Len(todWrote) = 2 /\ Len(todWrote') = 3 => tod' = TodOf(todWrote')
<1>1. tod \in 0 .. TodValues - 1 /\ b \in Byte /\ b \in Int
  BY CiaAssumption DEF TypeOK, TodReg, ByteRegs, Byte
<1> DEFINE h == ByteAt(tod, 2)
           m == ByteAt(tod, 1)
           l == ByteAt(tod, 0)
<1>2. h \in Byte /\ m \in Byte /\ l \in Byte
  BY <1>1, ByteOf
<1>3. /\ i = 2 => tod' = Composed(b, m, l)
      /\ i = 1 => tod' = Composed(h, b, l)
      /\ i = 0 => tod' = Composed(h, m, b)
  BY <1>1, WriteComposes
<1> HIDE DEF h, m, l
<1>4. /\ i = 2 => ByteAt(tod', 2) = b
      /\ i = 1 => ByteAt(tod', 2) = h /\ ByteAt(tod', 1) = b
  <2>1. ByteAt(Composed(b, m, l), 2) = b
    BY <1>1, <1>2, Digits
  <2>2. ByteAt(Composed(h, b, l), 2) = h /\ ByteAt(Composed(h, b, l), 1) = b
    BY <1>1, <1>2, Digits
  <2>3. QED
    BY <1>3, <2>1, <2>2
<1>5. CASE i = 2
  <2>1. todWrote' = <<b>> /\ todHalted'
    BY <1>5 DEF HaltedAfter
  <2>2. <<b>> \in Seq(Int) /\ Len(<<b>>) = 1 /\ <<b>>[1] = b
    BY <1>1
  <2>3. QED
    BY <1>4, <1>5, <2>1, <2>2 DEF WritesHalt
<1>6. CASE i # 2 /\ Len(todWrote) # 2 - i
  <2>1. todWrote' \in Seq(Int) /\ Len(todWrote') = 0
    BY <1>6
  <2>2. QED
    BY <2>1 DEF WritesHalt
<1>7. CASE i # 2 /\ Len(todWrote) = 2 - i
  <2>1. /\ todWrote' \in Seq(Int) /\ Len(todWrote') = Len(todWrote) + 1
        /\ \A j \in 1 .. Len(todWrote) : todWrote'[j] = todWrote[j]
        /\ todWrote'[Len(todWrote) + 1] = b
    BY <1>1, <1>7, OneMore DEF WritesHalt
  <2>2. CASE i = 1
    <3>1. /\ todHalted' /\ Len(todWrote') = 2
          /\ todWrote'[1] = h /\ todWrote'[2] = b
      <4>1. Len(todWrote) = 1 /\ todHalted /\ todWrote[1] = h
        BY <1>7, <2>2 DEF WritesHalt, h
      <4>2. todHalted'
        BY <2>2, <4>1 DEF HaltedAfter
      <4>3. QED
        BY <2>1, <4>1, <4>2
    <3>2. QED
      BY <1>4, <2>1, <2>2, <3>1 DEF WritesHalt
  <2>3. CASE i = 0
    <3>1. Len(todWrote') = 3 /\ todWrote'[1] = h /\ todWrote'[2] = m /\ todWrote'[3] = b
      BY <1>7, <2>1, <2>3 DEF WritesHalt, h, m
    <3>2. tod' = TodOf(todWrote')
      BY <1>3, <2>3, <3>1 DEF TodOf, Composed
    <3>3. QED
      BY <2>1, <3>1, <3>2 DEF WritesHalt
  <2>4. QED
    BY <1>7, <2>2, <2>3
<1>8. QED
  BY <1>5, <1>6, <1>7

LEMMA WritesNext ==
  TypeOK /\ WritesHalt /\ [Next]_vars
  => /\ WritesHalt'
     /\ Len(todWrote) = 2 /\ Len(todWrote') = 3 => tod' = TodOf(todWrote')
<1> SUFFICES ASSUME TypeOK, WritesHalt, [Next]_vars
             PROVE  /\ WritesHalt'
                    /\ Len(todWrote) = 2 /\ Len(todWrote') = 3 => tod' = TodOf(todWrote')
  OBVIOUS
<1>1. CASE UNCHANGED <<tod, todHalted, todWrote>>
  <2>1. tod' = tod /\ todHalted' = todHalted /\ todWrote' = todWrote
    BY <1>1
  <2>2. WritesHalt'
    BY <2>1, Zenon DEF WritesHalt
  <2>3. Len(todWrote') = Len(todWrote)
    BY <2>1
  <2>4. QED
    BY <2>2, <2>3
<1>2. CASE WriteTod
  BY <1>1, <1>2, CounterWrite DEF WriteTod
<1>3. CASE TodPulse
  BY <1>3 DEF TodPulse, WritesHalt
<1>4. CASE Reset
  BY <1>4 DEF Reset, WritesHalt
<1>5. QED
  BY <1>1, <1>2, <1>3, <1>4
  DEF Next, vars, timers, serial, clock, WriteTimerLow, WriteTimerAHigh, WriteTimerBHigh,
      WriteCra, WriteCrb, WriteSdr, WriteIcr, ReadTodHi, ReadTodMid, ReadTodLo, ReadIcr,
      Tick, FlagPulse, SerialInput

\* Three bytes written, HI first and LO last, become the counter's value, and no pulse
\* on the TOD pin counts in between (cia.cpp, write_tod and tod_pulse).
THEOREM TodWriteSafe == Spec => TodWriteAtomic
<1>1. Init => WritesHalt
  BY DEF Init, WritesHalt
<1>2. QED
  BY <1>1, WritesNext, TypeCorrect, PTL DEF Spec, TodWriteAtomic
==============================================================================
