--------------------------- MODULE MachineProofs ---------------------------
(***************************************************************************)
(* Machine: the two clocks stay within an instruction of each other, and   *)
(* the interrupt path neither loses a request nor takes one twice, for     *)
(* every cost of the instructions and every length of the frame.           *)
(* MemoryBus: every access reaches what the documented map says, for every *)
(* set of accesses, whatever is attached and when.                         *)
(***************************************************************************)
EXTENDS Machine, MemoryBus, TLAPS

\* The sampled level covers every request that was up when it was sampled.
SampleCovers ==
  \A s \in Active(intreq, intena) \ recent : sampled >= Level(s)

\* The sample is the level of a fresh request, or the mask holds it back; and the
\* mask holds back every request that was taken and is still up.
SampleIsDue ==
  ~sloppy => /\ sampled > mask => \E s \in due : Level(s) = sampled
             /\ \A s \in intreq \ fresh : Level(s) <= mask

IInv == TypeOK /\ NoDrift /\ SampleCovers /\ SampleIsDue

\* The level Paula drives is that of an active request, and no lower than any.
LEMMA HighestLevel ==
  ASSUME TypeOK
  PROVE  /\ InterruptLevel \in {0, 2, 3}
         /\ \A s \in Active(intreq, intena) : InterruptLevel >= Level(s)
         /\ InterruptLevel # 0 =>
              \E s \in Active(intreq, intena) : Level(s) = InterruptLevel
  BY DEF TypeOK, InterruptLevel, Pending, Level, Active, Sources

LEMMA InitInv == Init => IInv
  <1> SUFFICES ASSUME Init PROVE IInv  OBVIOUS
  <1> USE MachineAssumption
  <1>1. TypeOK
    <2>1. clock \in 0 .. FrameClocks - 1 /\ divider \in 0 .. EClock - 1  BY DEF Init
    <2>2. mask \in 0 .. 7 /\ lead \in Int  BY DEF Init
    <2> QED  BY <2>1, <2>2, Zenon DEF Init, TypeOK
  <1>2. NoDrift  BY SMT DEF Init, NoDrift, IdleCycles
  <1>3. SampleCovers  BY DEF Init, SampleCovers, Active
  <1>4. SampleIsDue  BY SMT DEF Init, SampleIsDue
  <1> QED  BY <1>1, <1>2, <1>3, <1>4 DEF IInv

\* What a step of the CPU does to the clocks, whichever step it is.
LEMMA StepClocks ==
  ASSUME TypeOK, Step
  PROVE  /\ UNCHANGED <<turn, clock, divider>> /\ ~halted /\ lead <= 0
         /\ \/ halted' = halted /\ \E c \in Costs \cup IdleCycles : lead' = lead + c
            \/ halted' = TRUE /\ lead' = lead
  <1>1. ~halted /\ lead <= 0  BY DEF Step, CpuTurn
  <1>2. CASE TakeInterrupt  BY <1>1, <1>2, Zenon DEF TakeInterrupt, Spend, Freeze
  <1>3. CASE Idle  BY <1>1, <1>3, Zenon DEF Idle, Spend
  <1>4. CASE Instruction  BY <1>1, <1>4, Zenon DEF Instruction, Spend
  <1>5. CASE Panic  BY <1>1, <1>5, Zenon DEF Panic, Freeze
  <1> QED  BY <1>2, <1>3, <1>4, <1>5 DEF Step

\* What a step of the CPU does to the interrupt path.
LEMMA StepPath ==
  ASSUME TypeOK, Step
  PROVE  /\ sampled' = InterruptLevel /\ due' = Active(intreq, intena) \cap fresh'
         /\ \/ /\ sampled > mask /\ mask' = sampled /\ taken' = sampled
               /\ stopped' \in BOOLEAN
               /\ fresh' = fresh \ {s \in Sources \ recent : Level(s) = sampled}
               /\ recent' = {} /\ UNCHANGED <<paula, irqLine, sloppy>>
            \/ /\ sampled <= mask /\ taken' = 0 /\ stopped' \in BOOLEAN
               /\ recent' = {} /\ UNCHANGED <<mask, paula, irqLine, fresh, sloppy>>
            \/ /\ sampled <= mask /\ taken' = 0
               /\ recent' = Activated(intreq', intena')
               /\ \/ \E s \in Sources, set \in BOOLEAN : WriteRequest(s, set)
                  \/ \E s \in Sources, set \in BOOLEAN : WriteEnable(s, set)
                  \/ \E m \in Masks, stop \in BOOLEAN : LoadSr(m, stop)
                  \/ \E line \in BOOLEAN : Cia(line)
                  \/ OtherInstruction
  <1>1. sampled' = InterruptLevel /\ due' = Active(intreq, intena) \cap fresh'
    BY DEF Step
  <1>2. CASE TakeInterrupt
    BY <1>1, <1>2, Zenon DEF TakeInterrupt, CpuLevel, Freeze
  <1>3. CASE Idle  BY <1>1, <1>3, Zenon DEF Idle, CpuLevel, cpu, TypeOK
  <1>4. CASE Instruction  BY <1>1, <1>4, Zenon DEF Instruction, CpuLevel
  <1>5. CASE Panic  BY <1>1, <1>5, Zenon DEF Panic, CpuLevel
  <1> QED  BY <1>2, <1>3, <1>4, <1>5 DEF Step

LEMMA StepType ==
  ASSUME TypeOK, Step
  PROVE  TypeOK'
  <1> USE MachineAssumption
  <1>1. turn' \in {"run", "host"} /\ clock' \in 0 .. FrameClocks - 1
        /\ divider' \in 0 .. EClock - 1
    BY StepClocks DEF TypeOK
  <1>2. halted' \in BOOLEAN  BY StepClocks, Zenon DEF TypeOK
  <1>3. lead' \in Int
    <2>1. lead \in Int /\ Costs \cup IdleCycles \subseteq Int
      BY DEF TypeOK, IdleCycles
    <2>2. \/ lead' = lead \/ \E c \in Costs \cup IdleCycles : lead' = lead + c
      BY StepClocks, Zenon
    <2> QED  BY <2>1, <2>2
  <1>4. sampled' \in {0, 2, 3}  BY StepPath, HighestLevel
  <1>5. taken' \in {0, 2, 3}  BY StepPath, Zenon DEF TypeOK
  <1>6. /\ intreq' \subseteq Sources /\ intena' \subseteq Sources
        /\ fresh' \subseteq Sources /\ mask' \in 0 .. 7
        /\ irqLine' \in BOOLEAN /\ stopped' \in BOOLEAN /\ sloppy' \in BOOLEAN
    <2> DEFINE Typed == /\ intreq' \subseteq Sources /\ intena' \subseteq Sources
                        /\ fresh' \subseteq Sources /\ mask' \in 0 .. 7
                        /\ irqLine' \in BOOLEAN /\ stopped' \in BOOLEAN
                        /\ sloppy' \in BOOLEAN
    <2> SUFFICES Typed  OBVIOUS
    <2>1. CASE sampled > mask /\ mask' = sampled /\ stopped' \in BOOLEAN
               /\ fresh' = fresh \ {s \in Sources \ recent : Level(s) = sampled}
               /\ UNCHANGED <<paula, irqLine, sloppy>>
      BY <2>1 DEF TypeOK, paula
    <2>2. CASE stopped' \in BOOLEAN /\ UNCHANGED <<mask, paula, irqLine, fresh, sloppy>>
      BY <2>2 DEF TypeOK, paula
    <2>3. ASSUME NEW s \in Sources, NEW set \in BOOLEAN, WriteRequest(s, set)
          PROVE  Typed
      BY <2>3 DEF TypeOK, WriteRequest, cpu
    <2>4. ASSUME NEW s \in Sources, NEW set \in BOOLEAN, WriteEnable(s, set)
          PROVE  Typed
      BY <2>4 DEF TypeOK, WriteEnable, cpu
    <2>5. ASSUME NEW m \in Masks, NEW stop \in BOOLEAN, LoadSr(m, stop)
          PROVE  Typed
      <3>1. mask' \in 0 .. 7  BY <2>5 DEF LoadSr
      <3> QED  BY <2>5, <3>1, Zenon DEF TypeOK, LoadSr, paula
    <2>6. ASSUME NEW line \in BOOLEAN, Cia(line)  PROVE Typed
      BY <2>6, Zenon DEF TypeOK, Cia, paula, cpu
    <2>7. CASE OtherInstruction
      BY <2>7, Zenon DEF TypeOK, OtherInstruction, paula, cpu
    <2> HIDE DEF Typed
    <2> QED  BY StepPath, <2>1, <2>2, <2>3, <2>4, <2>5, <2>6, <2>7, Zenon
  <1>7. recent' \subseteq Sources /\ due' \subseteq Sources
    BY <1>6, StepPath, Zenon DEF Activated, Active
  <1> QED  BY <1>1, <1>2, <1>3, <1>4, <1>5, <1>6, <1>7, Zenon DEF TypeOK

LEMMA StepDrift ==
  ASSUME TypeOK, NoDrift, Step
  PROVE  NoDrift'
  <1> USE MachineAssumption
  <1>1. /\ lead \in Int /\ clock \in Nat /\ ClockCycles \in Nat \ {0}
        /\ clock' = clock /\ ~halted /\ lead <= 0 /\ lead > -ClockCycles
    <2>1. clock' = clock /\ ~halted /\ lead <= 0  BY StepClocks, Zenon
    <2>2. lead > -ClockCycles  BY <2>1, Zenon DEF NoDrift
    <2> QED  BY <2>1, <2>2 DEF TypeOK
  <1>2. ASSUME NEW c \in Costs \cup IdleCycles, halted' = halted, lead' = lead + c
        PROVE  NoDrift'
    <2>1. c \in Int /\ c > 0  BY <1>2 DEF IdleCycles
    <2>2. lead' <= c /\ lead' > -ClockCycles  BY <1>1, <1>2, <2>1
    <2>3. \E cycles \in Costs \cup IdleCycles : lead' <= cycles  BY <2>2
    <2> QED  BY <1>1, <1>2, <2>2, <2>3, Zenon DEF NoDrift, IdleCycles
  <1>3. CASE halted' = TRUE /\ lead' = lead
    <2>1. lead' <= 4 /\ lead' > -ClockCycles  BY <1>1, <1>3
    <2>2. \E cycles \in Costs \cup IdleCycles : lead' <= cycles
      BY <2>1 DEF IdleCycles
    <2>3. (clock' + 1) * ClockCycles >= ClockCycles  BY <1>1
    <2>4. lead' > -((clock' + 1) * ClockCycles)  BY <1>1, <1>3, <2>1, <2>3
    <2> QED  BY <1>3, <2>2, <2>4 DEF NoDrift, IdleCycles
  <1> QED  BY StepClocks, <1>2, <1>3, Zenon

LEMMA StepCovers ==
  ASSUME TypeOK, Step
  PROVE  SampleCovers'
  <1> SUFFICES ASSUME NEW s \in Active(intreq', intena') \ recent'
               PROVE  sampled' >= Level(s)
    BY DEF SampleCovers
  <1>1. \/ intreq' = intreq /\ intena' = intena
        \/ recent' = Activated(intreq', intena')
    BY StepPath, Zenon DEF paula
  <1>2. s \in Active(intreq, intena)  BY <1>1 DEF Activated
  <1> QED  BY <1>2, StepPath, HighestLevel

\* An active request above the mask was not taken before.
LEMMA StepDue ==
  ASSUME IInv, Step
  PROVE  SampleIsDue'
  <1>1. SUFFICES ASSUME ~sloppy'
                 PROVE  /\ \A s \in intreq' \ fresh' : Level(s) <= mask'
                        /\ \A s \in Active(intreq, intena) : Level(s) > mask' => s \in fresh'
    <2>1. ASSUME sampled' > mask',
                 \A s \in Active(intreq, intena) : Level(s) > mask' => s \in fresh'
          PROVE  \E s \in due' : Level(s) = sampled'
      <3>1. sampled' = InterruptLevel /\ mask' \in 0 .. 7
        BY StepPath, StepType DEF IInv, TypeOK
      <3>2. PICK s \in Active(intreq, intena) : Level(s) = sampled'
        BY <2>1, <3>1, HighestLevel DEF IInv
      <3> QED  BY <2>1, <3>2, StepPath DEF IInv
    <2> QED  BY <1>1, <2>1 DEF SampleIsDue
  <1>2. TypeOK /\ \A s \in Sources : Level(s) \in {2, 3}
    BY DEF IInv, Level
  <1>3. /\ ~sloppy => \A s \in intreq \ fresh : Level(s) <= mask
        /\ Active(intreq, intena) \subseteq intreq /\ intreq \subseteq Sources
        /\ mask \in 0 .. 7 /\ sampled \in {0, 2, 3}
    BY DEF IInv, SampleIsDue, Active, TypeOK
  <1>4. CASE /\ sampled > mask /\ mask' = sampled
             /\ fresh' = fresh \ {s \in Sources \ recent : Level(s) = sampled}
             /\ UNCHANGED <<paula, irqLine, sloppy>>
    <2>1. intreq' = intreq /\ sloppy' = sloppy  BY <1>4 DEF paula
    <2>2. \A s \in intreq \ fresh : Level(s) <= mask  BY <1>1, <1>3, <2>1
    <2>3. ASSUME NEW s \in intreq \ fresh'  PROVE Level(s) <= sampled
      BY <1>2, <1>3, <1>4, <2>2
    <2> QED  BY <1>2, <1>3, <1>4, <2>1, <2>3
  <1>5. CASE UNCHANGED <<mask, paula, irqLine, fresh, sloppy>>
    BY <1>1, <1>2, <1>3, <1>5 DEF paula
  <1>6. ASSUME NEW s \in Sources, NEW set \in BOOLEAN, WriteRequest(s, set)
        PROVE  /\ \A r \in intreq' \ fresh' : Level(r) <= mask'
               /\ \A r \in Active(intreq, intena) : Level(r) > mask' => r \in fresh'
    BY <1>1, <1>2, <1>3, <1>6 DEF WriteRequest, cpu
  <1>7. ASSUME NEW s \in Sources, NEW set \in BOOLEAN, WriteEnable(s, set)
        PROVE  UNCHANGED <<intreq, mask, fresh, sloppy>>
    BY <1>7, Zenon DEF WriteEnable, cpu
  <1>8. ASSUME NEW m \in Masks, NEW stop \in BOOLEAN, LoadSr(m, stop)
        PROVE  /\ \A r \in intreq' \ fresh' : Level(r) <= mask'
               /\ \A r \in Active(intreq, intena) : Level(r) > mask' => r \in fresh'
    <2>1. /\ intreq' = intreq /\ fresh' = fresh /\ mask' = m /\ ~sloppy
          /\ \A r \in intreq \ fresh : m >= mask \/ m >= Level(r)
      <3>1. ~sloppy /\ ~\E r \in intreq \ fresh : m < mask /\ m < Level(r)
        BY <1>1, <1>8, Zenon DEF LoadSr
      <3>2. m \in Int  BY MachineAssumption
      <3> QED  BY <1>2, <1>3, <1>8, <3>1, <3>2 DEF LoadSr, paula
    <2>2. m \in Int  BY MachineAssumption
    <2> QED  BY <1>2, <1>3, <2>1, <2>2
  <1>9. ASSUME NEW line \in BOOLEAN, Cia(line)
        PROVE  UNCHANGED <<intreq, mask, fresh, sloppy>>
    BY <1>9, Zenon DEF Cia, paula, cpu
  <1>10. CASE OtherInstruction
    BY <1>1, <1>2, <1>3, <1>10 DEF OtherInstruction, paula, cpu
  <1>11. CASE UNCHANGED <<intreq, mask, fresh, sloppy>>
    BY <1>1, <1>2, <1>3, <1>11
  <1> QED
    BY <1>2, StepPath, <1>4, <1>5, <1>6, <1>7, <1>8, <1>9, <1>10, <1>11, Zenon

LEMMA ColorClockInv ==
  ASSUME IInv, ColorClock
  PROVE  IInv'
  <1> USE MachineAssumption
  <1>1. TypeOK  BY DEF IInv
  <1>2. Requested \subseteq Sources  BY DEF Requested, Sources
  <1>3. TypeOK'
    <2>1. clock' \in 0 .. FrameClocks - 1 /\ divider' \in 0 .. EClock - 1
      BY <1>1 DEF TypeOK, ColorClock, FrameDone, DividerAfter
    <2>2. lead' \in Int  BY <1>1 DEF TypeOK, ColorClock, LeadAfter
    <2>3. /\ intreq' \subseteq Sources /\ fresh' \subseteq Sources
          /\ recent' \subseteq Sources /\ turn' \in {"run", "host"}
      BY <1>1, <1>2, Zenon DEF TypeOK, ColorClock, Activated, Active
    <2> QED  BY <1>1, <2>1, <2>2, <2>3, Zenon DEF TypeOK, ColorClock, cpu
  <1>4. NoDrift'
    <2>1. /\ lead \in Int /\ clock \in Nat /\ ClockCycles \in Nat \ {0}
          /\ halted' = halted
      BY <1>1 DEF TypeOK, ColorClock
    <2>2. CASE FrameDone /\ halted
      <3>1. lead' = 0 /\ clock' = 0  BY <2>2 DEF ColorClock, LeadAfter
      <3>2. 0 > -((clock' + 1) * ClockCycles) /\ lead' <= 4  BY <2>1, <3>1
      <3> QED  BY <2>1, <2>2, <3>1, <3>2 DEF NoDrift, IdleCycles
    <2>3. CASE ~(FrameDone /\ halted)
      <3>1. lead' = lead - ClockCycles  BY <2>3, Zenon DEF ColorClock, LeadAfter
      <3>2. \E cycles \in Costs \cup IdleCycles : lead' <= cycles
        <4>1. PICK c \in Costs \cup IdleCycles : lead <= c  BY DEF IInv, NoDrift
        <4>2. c \in Int  BY DEF IdleCycles
        <4> QED  BY <2>1, <3>1, <4>1, <4>2
      <3>3. CASE ~halted
        <4>1. lead > 0  BY <3>3 DEF ColorClock
        <4>2. lead' > -ClockCycles  BY <2>1, <3>1, <4>1
        <4> QED  BY <2>1, <3>2, <3>3, <4>2, Zenon DEF NoDrift, IdleCycles
      <3>4. CASE halted
        <4>1. clock' = clock + 1  BY <2>3, <3>4, Zenon DEF ColorClock
        <4>2. lead > -((clock + 1) * ClockCycles)  BY <3>4, Zenon DEF IInv, NoDrift
        <4>3. (clock' + 1) * ClockCycles = (clock + 1) * ClockCycles + ClockCycles
          BY <2>1, <4>1
        <4>4. lead' > -((clock' + 1) * ClockCycles)
          <5> DEFINE before == (clock + 1) * ClockCycles
                     after  == (clock' + 1) * ClockCycles
          <5>1. before \in Int /\ after = before + ClockCycles  BY <2>1, <4>3
          <5>2. lead > -before  BY <4>2
          <5> HIDE DEF before, after
          <5>3. lead' > -after  BY <2>1, <3>1, <5>1, <5>2
          <5> QED  BY <5>3 DEF after
        <4> QED  BY <2>1, <3>2, <3>4, <4>4, Zenon DEF NoDrift, IdleCycles
      <3> QED  BY <3>3, <3>4
    <2> QED  BY <2>2, <2>3
  <1>5. SampleCovers'
    BY <1>1, Zenon DEF IInv, SampleCovers, ColorClock, Activated
  <1>6. SampleIsDue'
    BY <1>1, Zenon DEF IInv, SampleIsDue, ColorClock, cpu
  <1> QED  BY <1>3, <1>4, <1>5, <1>6 DEF IInv

LEMMA ResetInv ==
  ASSUME IInv, Reset
  PROVE  IInv'
  <1> USE MachineAssumption
  <1>1. TypeOK'
    <2>1. lead' \in Int /\ mask' \in 0 .. 7 /\ sampled' \in {0, 2, 3} /\ taken' \in {0, 2, 3}
      BY DEF Reset
    <2> QED  BY <2>1, Zenon DEF IInv, TypeOK, Reset, Active, paula
  <1>2. NoDrift'  BY DEF NoDrift, Reset, IdleCycles
  <1>3. SampleCovers'  BY Zenon DEF SampleCovers, Reset, Active, paula
  <1>4. SampleIsDue'
    <2>1. sampled' = 0 /\ mask' = 7 /\ intreq' \ fresh' = {}
      BY Zenon DEF Reset, paula
    <2> QED  BY <2>1 DEF SampleIsDue
  <1> QED  BY <1>1, <1>2, <1>3, <1>4 DEF IInv

LEMMA NextInv == IInv /\ [Next]_vars => IInv'
  <1> SUFFICES ASSUME IInv, [Next]_vars PROVE IInv'  OBVIOUS
  <1>1. CASE Step
    BY <1>1, StepType, StepDrift, StepCovers, StepDue DEF IInv
  <1>2. CASE ColorClock  BY <1>2, ColorClockInv
  <1>3. CASE CiaInterrupt
    BY <1>3, Zenon DEF CiaInterrupt, IInv, TypeOK, NoDrift, SampleCovers, SampleIsDue,
       Active, time, paula, cpu, history, IdleCycles
  <1>4. CASE RunFrame
    BY <1>4, Zenon DEF RunFrame, IInv, TypeOK, NoDrift, SampleCovers, SampleIsDue,
       Active, paula, cpu, history, IdleCycles
  <1>5. CASE Reset  BY <1>5, ResetInv
  <1>6. CASE UNCHANGED vars
    BY <1>6, Zenon DEF vars, IInv, TypeOK, NoDrift, SampleCovers, SampleIsDue,
       Active, time, paula, cpu, history, IdleCycles
  <1> QED  BY <1>1, <1>2, <1>3, <1>4, <1>5, <1>6 DEF Next

LEMMA Invariance == Spec => []IInv
  BY InitInv, NextInv, PTL DEF Spec

\* Every variable of the run loop keeps its type.
THEOREM TypeCorrect == Spec => []TypeOK
  <1>1. IInv => TypeOK  BY DEF IInv
  <1> QED  BY Invariance, <1>1, PTL

\* The CPU's time and the chips' never drift apart by more than an instruction
\* or, while the CPU is halted, by the rest of the frame (machine.hpp:28).
THEOREM NoDriftSafe == Spec => []NoDrift
  <1>1. IInv => NoDrift  BY DEF IInv
  <1> QED  BY Invariance, <1>1, PTL

\* A request that was up before the previous step began, above the mask, is
\* answered by an interrupt of its level or a higher one.
THEOREM NotPassedOverSafe == Spec => NotPassedOver
  <1>1. ASSUME IInv, Step, NEW s \in Active(intreq, intena) \ recent, Level(s) > mask
        PROVE  taken' >= Level(s)
    <2>1. sampled >= Level(s)  BY <1>1 DEF IInv, SampleCovers
    <2>2. sampled \in Int /\ mask \in Int /\ Level(s) \in Int
      BY <1>1 DEF IInv, TypeOK, Level
    <2>3. ~(sampled <= mask)  BY <1>1, <2>1, <2>2
    <2>4. taken' = sampled  BY <1>1, <2>3, StepPath, Zenon DEF IInv
    <2> QED  BY <2>1, <2>4
  <1>2. IInv /\ [Next]_vars =>
          [Step => \A s \in Active(intreq, intena) \ recent :
             Level(s) > mask => taken' >= Level(s)]_vars
    BY <1>1
  <1> QED  BY Invariance, <1>2, PTL DEF Spec, NotPassedOver

\* No interrupt is taken twice for one request by a program that clears the
\* request before it lowers its mask.
THEOREM OncePerRequestSafe == Spec => OncePerRequest
  <1>1. ASSUME IInv, Step, taken' # 0, ~sloppy
        PROVE  \E s \in due : Level(s) = taken'
    <2>1. sampled > mask /\ taken' = sampled  BY <1>1, StepPath, Zenon DEF IInv
    <2> QED  BY <1>1, <2>1, Zenon DEF IInv, SampleIsDue
  <1>2. IInv /\ [Next]_vars =>
          [taken' # 0 /\ Step /\ ~sloppy => \E s \in due : Level(s) = taken']_vars
    BY <1>1
  <1> QED  BY Invariance, <1>2, PTL DEF Spec, OncePerRequest

-----------------------------------------------------------------------------
(* The memory bus: the entries of its table of banks.                      *)

\* The state of the bus: what is attached to it and the two bits of CIA-A that drive the overlay's pin.
ConfigType == [overlay : BOOLEAN, slow : BOOLEAN, rom : BOOLEAN, custom : BOOLEAN, cia : BOOLEAN]
PortType   == [pra : 0 .. 1, ddra : 0 .. 1]

\* The entries of the table.
Ram(base, size) == [Unmapped EXCEPT !.base = base, !.size = size, !.writable = TRUE]
Rom == [Unmapped EXCEPT !.base = "rom", !.size = RomBanks, !.writable = FALSE]
Io(name) == [Unmapped EXCEPT ![name] = TRUE]

Entry == [base : {"none", "chip", "slow", "rom"}, size : Nat, writable : BOOLEAN,
          custom : BOOLEAN, cia : BOOLEAN, open_bus : BOOLEAN]

\* The fields of an entry that map() writes, and of those that flag() marks (MemoryBus::BankEntry).
LEMMA RamFields ==
  ASSUME NEW base, NEW size, NEW t, t = Ram(base, size)
  PROVE  t.base = base /\ t.size = size /\ t.writable = TRUE /\ t.custom = FALSE /\ t.cia = FALSE /\ t.open_bus = FALSE
  BY Zenon DEF Unmapped, Ram

\* The entries of the ROM, which no write reaches.
LEMMA RomFields ==
  ASSUME NEW t, t = Rom
  PROVE  t.base = "rom" /\ t.size = 4 /\ t.writable = FALSE /\ t.custom = FALSE /\ t.cia = FALSE /\ t.open_bus = FALSE
  BY Zenon DEF Unmapped, Rom, RomBanks

LEMMA Flagged ==
  ASSUME NEW s \in Entry, NEW t
  PROVE  /\ t = [s EXCEPT !["custom"] = TRUE] =>
              t.base = s.base /\ t.writable = s.writable /\ t.custom = TRUE /\ t.cia = s.cia /\ t.open_bus = s.open_bus
         /\ t = [s EXCEPT !["cia"] = TRUE] =>
              t.base = s.base /\ t.writable = s.writable /\ t.custom = s.custom /\ t.cia = TRUE /\ t.open_bus = s.open_bus
         /\ t = [s EXCEPT !["open_bus"] = TRUE] =>
              t.base = s.base /\ t.writable = s.writable /\ t.custom = s.custom /\ t.cia = s.cia /\ t.open_bus = TRUE
  BY SMT DEF Entry

\* The entries flag() makes of an unmapped bank, and the unmapped bank itself: no memory behind them.
LEMMA IoFields ==
  ASSUME NEW t
  PROVE  /\ t = Io("custom") =>
              t.base = "none" /\ t.writable = FALSE /\ t.custom = TRUE /\ t.cia = FALSE /\ t.open_bus = FALSE
         /\ t = Io("cia") =>
              t.base = "none" /\ t.writable = FALSE /\ t.custom = FALSE /\ t.cia = TRUE /\ t.open_bus = FALSE
         /\ t = Io("open_bus") =>
              t.base = "none" /\ t.writable = FALSE /\ t.custom = FALSE /\ t.cia = FALSE /\ t.open_bus = TRUE
  <1>1. Unmapped \in Entry
    BY DEF Unmapped, Entry
  <1>2. /\ Unmapped.base = "none" /\ Unmapped.writable = FALSE
        /\ Unmapped.custom = FALSE /\ Unmapped.cia = FALSE /\ Unmapped.open_bus = FALSE
    BY Zenon DEF Unmapped
  <1> QED BY <1>1, <1>2, Flagged DEF Io

LEMMA NoFields ==
  /\ Unmapped.base = "none" /\ Unmapped.writable = FALSE
  /\ Unmapped.custom = FALSE /\ Unmapped.cia = FALSE /\ Unmapped.open_bus = FALSE
  BY Zenon DEF Unmapped

\* What flag() does to one bank, and to one that nothing is mapped at (MemoryBus::rebuild_banks).
LEMMA FlagEntry ==
  ASSUME NEW table, NEW first, NEW beyond, NEW name, NEW b \in Banks
  PROVE  /\ flag(table, first, beyond, name)[b]
            = IF b \in first .. beyond - 1 THEN [table[b] EXCEPT ![name] = TRUE] ELSE table[b]
  BY SMT DEF flag

LEMMA FlagUnmapped ==
  ASSUME NEW table, NEW first \in Int, NEW beyond \in Int, NEW name, NEW b \in Banks, b \in first .. beyond - 1 => table[b] = Unmapped
  PROVE  flag(table, first, beyond, name)[b] = IF b \in first .. beyond - 1 THEN Io(name) ELSE table[b]
  <1>1. CASE b \in first .. beyond - 1
    <2>1. table[b] = Unmapped BY <1>1
    <2>2. [table[b] EXCEPT ![name] = TRUE] = Io(name)
      BY <2>1, Zenon DEF Io
    <2> QED BY <1>1, <2>2, FlagEntry
  <1>2. CASE b \notin first .. beyond - 1
    BY <1>2, SMT DEF flag
  <1> QED BY <1>1, <1>2

\* The whole table, bank by bank, for every configuration: the order of the steps of rebuild_banks, later over earlier,
\* leaves each bank this entry.
LEMMA Table ==
  ASSUME NEW c \in ConfigType, NEW b \in Banks, NEW t, t = rebuild_banks(c)[b]
  PROVE  /\ b \in 0 .. 7 => t = IF c.rom /\ c.overlay THEN Rom ELSE Ram("chip", 8)
         /\ b \in 8 .. 31 => t = Ram("chip", 8)
         /\ b \in 32 .. 190 \cup 224 .. 231 => t = Unmapped
         /\ b = 191 => t = IF c.cia THEN Io("cia") ELSE Unmapped
         /\ b \in 192 .. 199 =>
              t = IF c.slow THEN Ram("slow", 8) ELSE IF c.custom THEN Io("custom") ELSE Unmapped
         /\ b \in 200 .. 223 => t = IF c.custom THEN Io("custom") ELSE Unmapped
         /\ b \in 232 .. 247 => t = Io("open_bus")
         /\ b \in 248 .. 255 => t = IF c.rom THEN Rom ELSE Unmapped
  <1> DEFINE none   == [x \in Banks |-> Unmapped]
             ram    == map(none, 0, 32, "chip", ChipBanks, TRUE)
             slow   == IF c.slow THEN map(ram, 192, 200, "slow", 8, TRUE) ELSE ram
             from   == IF c.slow THEN 200 ELSE 192
             custom == IF c.custom THEN flag(slow, from, 224, "custom") ELSE slow
             cia    == IF c.cia THEN flag(custom, 191, 192, "cia") ELSE custom
             open   == flag(cia, 232, 248, "open_bus")
             rom    == IF c.rom THEN map(open, 248, 256, "rom", RomBanks, FALSE) ELSE open
             all    == IF c.rom /\ c.overlay THEN map(rom, 0, 8, "rom", RomBanks, FALSE) ELSE rom
  <1>1. t = all[b]
    BY DEF rebuild_banks
  <1>2. b \in 0 .. 255 /\ none[b] = Unmapped
    BY DEF Banks
  <1> HIDE DEF none
  <1>3. ram[b] = IF b \in 0 .. 31 THEN Ram("chip", 8) ELSE Unmapped
    <2>1. ram[b] = IF b \in 0 .. 32 - 1 THEN Ram("chip", 8) ELSE none[b]
      BY DEF map, Ram, ChipBanks
    <2> HIDE DEF ram
    <2> QED BY <1>2, <2>1
  <1> HIDE DEF ram
  <1>4. slow[b] = IF b \in 0 .. 31 THEN Ram("chip", 8)
                  ELSE IF c.slow /\ b \in 192 .. 199 THEN Ram("slow", 8) ELSE Unmapped
    <2>1. slow[b] = IF c.slow /\ b \in 192 .. 199 THEN Ram("slow", 8) ELSE ram[b]
      BY DEF map, Ram
    <2> HIDE DEF slow
    <2> QED BY <1>2, <1>3, <2>1
  <1> HIDE DEF slow
  <1>5. custom[b] = IF b \in 0 .. 31 THEN Ram("chip", 8)
                    ELSE IF c.slow /\ b \in 192 .. 199 THEN Ram("slow", 8)
                    ELSE IF c.custom /\ b \in 192 .. 223 THEN Io("custom") ELSE Unmapped
    <2>1. from \in Int /\ (b \in from .. 224 - 1 => slow[b] = Unmapped)
      BY <1>2, <1>4
    <2>2. flag(slow, from, 224, "custom")[b] = IF b \in from .. 224 - 1 THEN Io("custom") ELSE slow[b]
      BY <2>1, FlagUnmapped
    <2> QED BY <1>2, <1>4, <2>2
  <1> HIDE DEF custom, from
  <1>6. cia[b] = IF b \in 0 .. 31 THEN Ram("chip", 8)
                 ELSE IF c.slow /\ b \in 192 .. 199 THEN Ram("slow", 8)
                 ELSE IF c.custom /\ b \in 192 .. 223 THEN Io("custom")
                 ELSE IF c.cia /\ b = 191 THEN Io("cia") ELSE Unmapped
    <2>1. b \in 191 .. 192 - 1 => custom[b] = Unmapped
      BY <1>2, <1>5
    <2>2. flag(custom, 191, 192, "cia")[b] = IF b \in 191 .. 192 - 1 THEN Io("cia") ELSE custom[b]
      BY <2>1, FlagUnmapped
    <2> QED BY <1>2, <1>5, <2>2
  <1> HIDE DEF cia
  <1>7. open[b] = IF b \in 0 .. 31 THEN Ram("chip", 8)
                  ELSE IF c.slow /\ b \in 192 .. 199 THEN Ram("slow", 8)
                  ELSE IF c.custom /\ b \in 192 .. 223 THEN Io("custom")
                  ELSE IF c.cia /\ b = 191 THEN Io("cia")
                  ELSE IF b \in 232 .. 247 THEN Io("open_bus") ELSE Unmapped
    <2>1. b \in 232 .. 248 - 1 => cia[b] = Unmapped
      BY <1>2, <1>6
    <2>2. flag(cia, 232, 248, "open_bus")[b] = IF b \in 232 .. 248 - 1 THEN Io("open_bus") ELSE cia[b]
      BY <2>1, SMTT(60), FlagUnmapped
    <2> QED BY <1>2, <1>6, <2>2
  <1> HIDE DEF open
  <1>8. rom[b] = IF c.rom /\ b \in 248 .. 255 THEN Rom ELSE open[b]
    BY <1>2 DEF map, Rom, RomBanks
  <1> HIDE DEF rom
  <1>9. all[b] = IF c.rom /\ c.overlay /\ b \in 0 .. 7 THEN Rom ELSE rom[b]
    BY <1>2 DEF map, Rom, RomBanks
  <1> HIDE DEF all
  <1>10. QED
    BY <1>1, <1>2, <1>7, <1>8, <1>9

-----------------------------------------------------------------------------
(* Its invariant, and what an address decodes to.                          *)

\* The table is the one the configuration makes; the overlay is at the level of its pin; and while no CIA drives the
\* pin it is pulled up.
BusInv ==
  /\ config \in ConfigType /\ ovl \in PortType /\ access \in Accesses \cup {NoAccess}
  /\ banks = rebuild_banks(config)
  /\ config.overlay = OvlPin(ovl)
  /\ config.cia \/ OvlPin(ovl)

Reach == 0 .. 256 * BankBytes + 2

\* The 24 lines of the address: an access may run past the last address by two bytes, and comes back at the first.
LEMMA Wrap ==
  ASSUME NEW a \in Reach, NEW w, w = Wrapped24(a)
  PROVE  /\ w \in Addresses /\ w \div BankBytes \in Banks
         /\ a = w \/ a = w + 4096
         /\ a % 2 = w % 2 /\ (a \div 2) % 2 = (w \div 2) % 2 /\ (a \div 4) % 2 = (w \div 4) % 2 /\ (a \div 8) % 2 = (w \div 8) % 2
         /\ a % 8 = w % 8 /\ a % 64 = w % 64 /\ a % 128 = w % 128
         /\ a % 2 = 0 => Wrapped24(a + 1) = w + 1 /\ (w + 1) \div BankBytes = w \div BankBytes
  <1>1. w = a % 4096 /\ a \in 0 .. 4098
    BY DEF Wrapped24, Reach, BankBytes
  <1>2. CASE a \in 0 .. 4095
    <2>1. w = a /\ w \in 0 .. 4095
      BY <1>1, <1>2
    <2>2. w \div 16 \in 0 .. 255
      BY <2>1, SMTT(60)
    <2>3. ASSUME w % 2 = 0
          PROVE  w + 1 \in 0 .. 4095 /\ (w + 1) \div 16 = w \div 16
      <3>1. PICK q \in 0 .. 255, r \in 0 .. 15 : w = (16 * q) + r
        <4>1. w \div 16 \in 0 .. 255 /\ w % 16 \in 0 .. 15 /\ w = (16 * (w \div 16)) + (w % 16)
          BY <2>1
        <4> QED BY <4>1
      <3>2. r % 2 = 0
        BY <2>3, <3>1
      <3> DEFINE s == r + 1
      <3>3. s \in 0 .. 15 /\ w + 1 = (16 * q) + s
        BY <3>1, <3>2
      <3> HIDE DEF s
      <3>4. ((16 * q) + s) \div 16 = q /\ (16 * q) + s \in 0 .. 4095
        BY <3>1, <3>3
      <3>5. ((16 * q) + r) \div 16 = q
        BY <3>1
      <3> QED BY <3>1, <3>3, <3>4, <3>5
    <2>4. ASSUME a % 2 = 0
          PROVE  Wrapped24(a + 1) = w + 1
      BY <2>1, <2>3, <2>4 DEF Wrapped24, BankBytes
    <2> QED BY <2>1, <2>2, <2>3, <2>4 DEF Addresses, Banks, BankBytes
  <1>3. CASE a \in 4096 .. 4098
    <2>1. CASE a = 4096
      BY <1>1, <2>1 DEF Wrapped24, Addresses, Banks, BankBytes
    <2>2. CASE a = 4097
      BY <1>1, <2>2 DEF Wrapped24, Addresses, Banks, BankBytes
    <2>3. CASE a = 4098
      BY <1>1, <2>3 DEF Wrapped24, Addresses, Banks, BankBytes
    <2> QED BY <1>3, <2>1, <2>2, <2>3
  <1> QED BY <1>1, <1>2, <1>3

\* The cases of the documented map, on an entry of the table.
Decoded(t, w) ==
  \/ /\ t.base # "none" /\ ~t.custom /\ ~t.cia /\ ~t.open_bus
     /\ \/ t.base = "rom" /\ t.size = 4 /\ t.writable = FALSE /\ MapOf(w) = <<"rom", w % 64>>
        \/ t.base \in {"chip", "slow"} /\ t.size = 8 /\ t.writable = TRUE /\ MapOf(w) = <<t.base, w % 128>>
  \/ /\ t.base = "none" /\ ~t.custom /\ ~t.cia /\ t.open_bus
     /\ MapOf(w) = <<"open", 0>>
  \/ /\ t.base = "none" /\ ~t.custom /\ t.cia /\ ~t.open_bus
     /\ config.cia /\ MapOf(w) = CiaByte(w)
  \/ /\ t.base = "none" /\ t.custom /\ ~t.cia /\ ~t.open_bus
     /\ MapOf(w) = <<"custom", w % kCustomSize>>
  \/ /\ t.base = "none" /\ ~t.custom /\ ~t.cia /\ ~t.open_bus
     /\ MapOf(w) = <<"undriven", 0>>

\* The table of banks, cached since the last change, and the level of the pin now decode an address the same way.
LEMMA Decodes ==
  ASSUME BusInv, NEW a \in Reach, NEW w, w = Wrapped24(a), NEW t, t = Bank(a)
  PROVE  Decoded(t, w)
  <1> DEFINE b == w \div BankBytes
  <1>1. w \in 0 .. 4095 /\ b \in 0 .. 255 /\ b \in Banks /\ b = w \div 16
    <2>1. w \in Addresses /\ b \in Banks
      BY Wrap
    <2> QED BY <2>1 DEF Addresses, Banks, BankBytes
  <1>2. t = rebuild_banks(config)[b]
    BY DEF BusInv, Bank, Wrapped24
  <1>3. /\ b \in 0 .. 7 => t = IF config.rom /\ config.overlay THEN Rom ELSE Ram("chip", 8)
        /\ b \in 8 .. 31 => t = Ram("chip", 8)
        /\ b \in 32 .. 190 \cup 224 .. 231 => t = Unmapped
        /\ b = 191 => t = IF config.cia THEN Io("cia") ELSE Unmapped
        /\ b \in 192 .. 199 =>
             t = IF config.slow THEN Ram("slow", 8) ELSE IF config.custom THEN Io("custom") ELSE Unmapped
        /\ b \in 200 .. 223 => t = IF config.custom THEN Io("custom") ELSE Unmapped
        /\ b \in 232 .. 247 => t = Io("open_bus")
        /\ b \in 248 .. 255 => t = IF config.rom THEN Rom ELSE Unmapped
    <2>1. config \in ConfigType
      BY DEF BusInv
    <2>2. b \in Banks
      BY <1>1
    <2> HIDE DEF b
    <2> QED BY <1>2, <2>1, <2>2, Table, SMTT(60)
  <1>4. config.rom \in BOOLEAN /\ config.cia \in BOOLEAN /\ config.slow \in BOOLEAN /\ config.custom \in BOOLEAN /\ config.overlay \in BOOLEAN
    BY DEF BusInv, ConfigType
  <1>5. config.overlay <=> (config.cia => OvlPin(ovl))
    BY <1>4 DEF BusInv, OvlPin
  <1> DEFINE pin == OvlPin(ovl)
             m == MapOf(w)
             inRom == <<"rom", w % 64>>
             inChip == <<"chip", w % 128>>
             inCia == CiaByte(w)
             inSlow == <<"slow", w % 128>>
             inCustom == <<"custom", w % kCustomSize>>
             open == <<"open", 0>>
             undriven == <<"undriven", 0>>
             rest == /\ b \in 32 .. 231 \cup 248 .. 255
                     /\ ~(b = 191 /\ config.cia)
                     /\ ~(b \in 192 .. 199 /\ config.slow)
                     /\ ~(config.custom /\ (b \in 200 .. 223 \/ (b \in 192 .. 199 /\ ~config.slow)))
                     /\ ~(b \in 248 .. 255 /\ config.rom)
  <1>6. /\ b \in 0 .. 7 /\ config.rom /\ config.overlay => m = inRom
        /\ b \in 0 .. 7 /\ ~(config.rom /\ config.overlay) => m = inChip
        /\ b \in 8 .. 31 => m = inChip
        /\ b = 191 /\ config.cia => m = inCia
        /\ b \in 192 .. 199 /\ config.slow => m = inSlow
        /\ config.custom /\ (b \in 200 .. 223 \/ (b \in 192 .. 199 /\ ~config.slow)) => m = inCustom
        /\ b \in 232 .. 247 => m = open
        /\ b \in 248 .. 255 /\ config.rom => m = inRom
        /\ rest => m = undriven
    <2>1. m = CASE b < 8 /\ config.rom /\ config.cia /\ pin -> inRom
                [] b < 8 /\ config.rom /\ ~config.cia -> inRom
                [] b < 8 /\ ~(config.rom /\ (config.cia => pin)) -> inChip
                [] b \in 8 .. 31 -> inChip
                [] b = 191 /\ config.cia -> inCia
                [] b \in 192 .. 199 /\ config.slow -> inSlow
                [] b \in 192 .. 199 /\ ~config.slow /\ config.custom -> inCustom
                [] b \in 200 .. 223 /\ config.custom -> inCustom
                [] b \in 232 .. 247 -> open
                [] b \in 248 .. 255 /\ config.rom -> inRom
                [] OTHER -> undriven
      BY DEF MapOf, BankBytes, RomBanks, ChipBanks
    <2>2. b \in 0 .. 255 /\ (config.overlay <=> (config.cia => pin))
      BY <1>1, <1>5
    <2> HIDE DEF b, pin, m, inRom, inChip, inCia, inSlow, inCustom, open, undriven
    <2>3. /\ b \in 0 .. 7 /\ config.rom /\ config.overlay => m = inRom
          /\ b \in 0 .. 7 /\ ~(config.rom /\ config.overlay) => m = inChip
      BY <1>4, <2>1, <2>2, SMTT(60)
    <2>4. b \in 8 .. 31 => m = inChip
      BY <2>1, SMTT(60)
    <2>5. b = 191 /\ config.cia => m = inCia
      BY <2>1, SMTT(60)
    <2>6. b \in 192 .. 199 /\ config.slow => m = inSlow
      BY <1>4, <2>1, SMTT(60)
    <2>7. config.custom /\ (b \in 200 .. 223 \/ (b \in 192 .. 199 /\ ~config.slow)) => m = inCustom
      BY <1>4, <2>1, SMTT(60)
    <2>8. b \in 232 .. 247 => m = open
      BY <2>1, SMTT(60)
    <2>9. b \in 248 .. 255 /\ config.rom => m = inRom
      BY <1>4, <2>1, SMTT(60)
    <2>10. ASSUME rest PROVE m = undriven
      <3>1. ~(b < 8) /\ b \notin 8 .. 31 /\ b \notin 232 .. 247
        BY <2>2, <2>10
      <3>2. /\ ~(b \in 192 .. 199 /\ ~config.slow /\ config.custom)
            /\ ~(b \in 200 .. 223 /\ config.custom)
        BY <2>10, Zenon
      <3> QED BY <2>1, <2>10, <3>1, <3>2, SMTT(60)
    <2> HIDE DEF rest
    <2>11. rest => m = undriven
      BY <2>10
    <2> QED BY <2>3, <2>4, <2>5, <2>6, <2>7, <2>8, <2>9, <2>11, Zenon
  <1> HIDE DEF b, pin, m, inRom, inChip, inCia, inSlow, inCustom, open, undriven
  <1>7. CASE b \in 0 .. 7 /\ config.rom /\ config.overlay
    <2>1. t = Rom BY <1>3, <1>7
    <2>2. MapOf(w) = <<"rom", w % 64>> BY <1>6, <1>7, Zenon DEF m, inRom
    <2>3. t.base = "rom" /\ t.size = 4 /\ t.writable = FALSE /\ t.custom = FALSE /\ t.cia = FALSE /\ t.open_bus = FALSE
      BY <2>1, RomFields, Zenon
    <2> QED BY <2>2, <2>3, SMTT(60) DEF Decoded
  <1>8. CASE b \in 0 .. 7 /\ ~(config.rom /\ config.overlay)
    <2>1. t = Ram("chip", 8) BY <1>3, <1>8
    <2>2. MapOf(w) = <<"chip", w % 128>> BY <1>6, <1>8, Zenon DEF m, inChip
    <2>3. t.base = "chip" /\ t.size = 8 /\ t.writable = TRUE /\ t.custom = FALSE /\ t.cia = FALSE /\ t.open_bus = FALSE
      BY <2>1, Zenon DEF Ram, Unmapped
    <2> QED BY <2>2, <2>3 DEF Decoded
  <1>9. CASE b \in 8 .. 31
    <2>1. t = Ram("chip", 8) BY <1>3, <1>9
    <2>2. MapOf(w) = <<"chip", w % 128>> BY <1>6, <1>9, Zenon DEF m, inChip
    <2>3. t.base = "chip" /\ t.size = 8 /\ t.writable = TRUE /\ t.custom = FALSE /\ t.cia = FALSE /\ t.open_bus = FALSE
      BY <2>1, Zenon DEF Ram, Unmapped
    <2> QED BY <2>2, <2>3 DEF Decoded
  <1>10. CASE b = 191 /\ config.cia
    <2>1. t = Io("cia") BY <1>3, <1>10
    <2>2. MapOf(w) = CiaByte(w) BY <1>6, <1>10, Zenon DEF m, inCia
    <2> QED BY <2>1, <2>2, <1>10, IoFields DEF Decoded
  <1>11. CASE b \in 192 .. 199 /\ config.slow
    <2>1. t = Ram("slow", 8) BY <1>3, <1>11
    <2>2. MapOf(w) = <<"slow", w % 128>> BY <1>6, <1>11, Zenon DEF m, inSlow
    <2>3. t.base = "slow" /\ t.size = 8 /\ t.writable = TRUE /\ t.custom = FALSE /\ t.cia = FALSE /\ t.open_bus = FALSE
      BY <2>1, Zenon DEF Ram, Unmapped
    <2> QED BY <2>2, <2>3 DEF Decoded
  <1>12. CASE config.custom /\ (b \in 200 .. 223 \/ (b \in 192 .. 199 /\ ~config.slow))
    <2>1. t = Io("custom") BY <1>3, <1>12
    <2>2. MapOf(w) = <<"custom", w % kCustomSize>> BY <1>6, <1>12, Zenon DEF m, inCustom
    <2> QED BY <2>1, <2>2, IoFields DEF Decoded
  <1>13. CASE b \in 232 .. 247
    <2>1. t = Io("open_bus") BY <1>3, <1>13
    <2>2. MapOf(w) = <<"open", 0>> BY <1>6, <1>13, Zenon DEF m, open
    <2> QED BY <2>1, <2>2, IoFields DEF Decoded
  <1>14. CASE b \in 248 .. 255 /\ config.rom
    <2>1. t = Rom BY <1>3, <1>14
    <2>2. MapOf(w) = <<"rom", w % 64>> BY <1>6, <1>14, Zenon DEF m, inRom
    <2>3. t.base = "rom" /\ t.size = 4 /\ t.writable = FALSE /\ t.custom = FALSE /\ t.cia = FALSE /\ t.open_bus = FALSE
      BY <2>1, RomFields, Zenon
    <2> QED BY <2>2, <2>3, SMTT(60) DEF Decoded
  <1>15. CASE /\ b \in 32 .. 231 \cup 248 .. 255
              /\ ~(b = 191 /\ config.cia)
              /\ ~(b \in 192 .. 199 /\ config.slow)
              /\ ~(config.custom /\ (b \in 200 .. 223 \/ (b \in 192 .. 199 /\ ~config.slow)))
              /\ ~(b \in 248 .. 255 /\ config.rom)
    <2>1. t = Unmapped
      BY <1>1, <1>3, <1>4, <1>15
    <2>2. MapOf(w) = <<"undriven", 0>> BY <1>6, <1>15, Zenon DEF m, undriven, rest
    <2> QED BY <2>1, <2>2, NoFields DEF Decoded
  <1>16. \/ b \in 0 .. 7 /\ config.rom /\ config.overlay
         \/ b \in 0 .. 7 /\ ~(config.rom /\ config.overlay)
         \/ b \in 8 .. 31
         \/ b = 191 /\ config.cia
         \/ b \in 192 .. 199 /\ config.slow
         \/ config.custom /\ (b \in 200 .. 223 \/ (b \in 192 .. 199 /\ ~config.slow))
         \/ b \in 232 .. 247
         \/ b \in 248 .. 255 /\ config.rom
         \/ /\ b \in 32 .. 231 \cup 248 .. 255
            /\ ~(b = 191 /\ config.cia)
            /\ ~(b \in 192 .. 199 /\ config.slow)
            /\ ~(config.custom /\ (b \in 200 .. 223 \/ (b \in 192 .. 199 /\ ~config.slow)))
            /\ ~(b \in 248 .. 255 /\ config.rom)
    BY <1>1, <1>4
  <1>17. QED
    BY <1>7, <1>8, <1>9, <1>10, <1>11, <1>12, <1>13, <1>14, <1>15, <1>16

-----------------------------------------------------------------------------
(* What an access did, and accesses in a row.                              *)

\* The vocabulary of an access: what may answer a byte, and what an access did.
Kinds == {"chip", "slow", "rom", "ignored", "open", "custom", "ciaA", "ciaB", "undriven"}
Outcome == [did : Seq(Kinds \X Nat), panic : BOOLEAN]
\* A cycle nobody answers panics; the cycles done are those before the first such. An outcome is right when it says so.
Dead(as, write) == \A byte \in Cycle(as, write) : ~Selected(byte)
Done(cs, write) == {i \in DOMAIN cs : \A j \in 1 .. i : ~Dead(cs[j], write)}
Right(o, cs, write) ==
  /\ o.panic = (Done(cs, write) # DOMAIN cs)
  /\ ToSet(o.did) = UNION {Cycle(cs[i], write) : i \in Done(cs, write)}

\* The bytes of two sequences in a row.
LEMMA ToSetOfTwo ==
  ASSUME NEW S, NEW s \in Seq(S), NEW t \in Seq(S)
  PROVE  s \o t \in Seq(S) /\ ToSet(s \o t) = ToSet(s) \cup ToSet(t)
  <1>1. /\ s \o t \in Seq(S) /\ Len(s) \in Nat /\ Len(t) \in Nat /\ Len(s \o t) = Len(s) + Len(t)
        /\ DOMAIN s = 1 .. Len(s) /\ DOMAIN t = 1 .. Len(t) /\ DOMAIN (s \o t) = 1 .. Len(s) + Len(t)
    OBVIOUS
  <1>2. \A i \in 1 .. Len(s) + Len(t) : (s \o t)[i] = IF i <= Len(s) THEN s[i] ELSE t[i - Len(s)]
    BY <1>1
  <1>3. \A i \in 1 .. Len(s) : i \in DOMAIN (s \o t) /\ (s \o t)[i] = s[i]
    BY <1>1, <1>2
  <1>4. \A i \in 1 .. Len(t) : i + Len(s) \in DOMAIN (s \o t) /\ (s \o t)[i + Len(s)] = t[i]
    BY <1>1, <1>2
  <1>5. ToSet(s \o t) \subseteq ToSet(s) \cup ToSet(t)
    BY <1>1, <1>2 DEF ToSet
  <1>6. ToSet(s) \subseteq ToSet(s \o t)
    BY <1>1, <1>3 DEF ToSet
  <1>7. ToSet(t) \subseteq ToSet(s \o t)
    BY <1>1, <1>4 DEF ToSet
  <1> QED BY <1>1, <1>5, <1>6, <1>7

\* What was done before a panic stays done, and the panic ends the access.
LEMMA ThenFields ==
  ASSUME NEW x \in Outcome, NEW y \in Outcome, NEW o, o = Then(x, y)
  PROVE  /\ o \in Outcome
         /\ o.panic <=> x.panic \/ y.panic
         /\ ToSet(o.did) = IF x.panic THEN ToSet(x.did) ELSE ToSet(x.did) \cup ToSet(y.did)
  <1>1. CASE x.panic
    BY <1>1 DEF Then, Outcome
  <1>2. CASE ~x.panic
    <2>1. o = [y EXCEPT !.did = x.did \o y.did]
      BY <1>2 DEF Then
    <2>2. x.did \in Seq(Kinds \X Nat) /\ y.did \in Seq(Kinds \X Nat)
      BY DEF Outcome
    <2>3. /\ x.did \o y.did \in Seq(Kinds \X Nat)
          /\ ToSet(x.did \o y.did) = ToSet(x.did) \cup ToSet(y.did)
      BY <2>2, ToSetOfTwo
    <2> QED BY <1>2, <2>1, <2>3 DEF Outcome
  <1> QED BY <1>1, <1>2 DEF Outcome

\* An access of one cycle.
LEMMA Lone ==
  ASSUME NEW o \in Outcome, NEW as, NEW write \in BOOLEAN, o.panic <=> Dead(as, write),
         ToSet(o.did) = IF Dead(as, write) THEN {} ELSE Cycle(as, write)
  PROVE  Right(o, << as >>, write)
  <1> DEFINE cs == << as >>
  <1>1. DOMAIN cs = {1} /\ cs[1] = as
    OBVIOUS
  <1> HIDE DEF cs
  <1>2. Done(cs, write) = IF Dead(as, write) THEN {} ELSE {1}
    <2>1. \A i \in DOMAIN cs : \A j \in 1 .. i : j = 1
      BY <1>1
    <2>2. \A i \in DOMAIN cs : 1 \in 1 .. i
      BY <1>1
    <2> QED BY <1>1, <2>1, <2>2 DEF Done
  <1>3. o.panic \in BOOLEAN
    BY DEF Outcome
  <1>4. o.panic <=> Done(cs, write) # DOMAIN cs
    BY <1>1, <1>2, <1>3
  <1>5. UNION {Cycle(cs[i], write) : i \in Done(cs, write)} = IF Dead(as, write) THEN {} ELSE Cycle(as, write)
    BY <1>1, <1>2
  <1>6. Right(o, cs, write)
    BY <1>3, <1>4, <1>5, Zenon DEF Right
  <1> QED BY <1>6 DEF cs

\* Right accesses in a row are a right access: the second is not begun after the first one panicked (Then, for
\* the halves of a word at an odd address and of a long word).
LEMMA Chained ==
  ASSUME NEW S, NEW x \in Outcome, NEW y \in Outcome, NEW cs \in Seq(S), NEW ds \in Seq(S), NEW write \in BOOLEAN,
         Right(x, cs, write), Right(y, ds, write)
  PROVE  Then(x, y) \in Outcome /\ Right(Then(x, y), cs \o ds, write)
  <1> DEFINE es == cs \o ds
             o == Then(x, y)
             n == Len(cs)
             m == Len(ds)
             of(fs) == UNION {Cycle(fs[i], write) : i \in Done(fs, write)}
  <1>1. /\ n \in Nat /\ m \in Nat /\ DOMAIN cs = 1 .. n /\ DOMAIN ds = 1 .. m /\ DOMAIN es = 1 .. n + m
    OBVIOUS
  <1>2. \A i \in 1 .. n : es[i] = cs[i]
    OBVIOUS
  <1>3. \A i \in 1 .. m : es[i + n] = ds[i]
    OBVIOUS
  <1>0. o = Then(x, y)
    OBVIOUS
  <1> HIDE DEF o
  <1>4. /\ x.panic \in BOOLEAN /\ y.panic \in BOOLEAN /\ o.panic \in BOOLEAN
        /\ o \in Outcome /\ (o.panic <=> x.panic \/ y.panic)
        /\ ToSet(o.did) = IF x.panic THEN ToSet(x.did) ELSE ToSet(x.did) \cup ToSet(y.did)
    <2>1. /\ o \in Outcome /\ (o.panic <=> x.panic \/ y.panic)
          /\ ToSet(o.did) = IF x.panic THEN ToSet(x.did) ELSE ToSet(x.did) \cup ToSet(y.did)
      BY <1>0, ThenFields
    <2> QED BY <2>1 DEF Outcome
  <1>5. /\ x.panic <=> \E i \in 1 .. n : Dead(cs[i], write)
        /\ y.panic <=> \E i \in 1 .. m : Dead(ds[i], write)
    <2>1. (x.panic <=> Done(cs, write) # 1 .. n) /\ (y.panic <=> Done(ds, write) # 1 .. m)
      BY <1>1, <1>4, Zenon DEF Right
    <2>2. Done(cs, write) # 1 .. n <=> \E i \in 1 .. n : Dead(cs[i], write)
      BY <1>1 DEF Done
    <2>3. Done(ds, write) # 1 .. m <=> \E i \in 1 .. m : Dead(ds[i], write)
      BY <1>1 DEF Done
    <2> QED BY <2>1, <2>2, <2>3
  <1>6. ToSet(x.did) = of(cs) /\ ToSet(y.did) = of(ds)
    BY DEF Right
  <1> HIDE DEF es, n, m
  <1>7. o \in Outcome /\ (o.panic <=> x.panic \/ y.panic)
        /\ ToSet(o.did) = IF x.panic THEN of(cs) ELSE of(cs) \cup of(ds)
    BY <1>4, <1>6
  <1>8. Done(es, write) # DOMAIN es <=> x.panic \/ y.panic
    <2>1. Done(es, write) # 1 .. n + m <=> \E i \in 1 .. n + m : Dead(es[i], write)
      <3> DEFINE k == n + m
      <3>1. k \in Nat /\ DOMAIN es = 1 .. k
        BY <1>1
      <3> HIDE DEF k
      <3>2. Done(es, write) # 1 .. k <=> \E i \in 1 .. k : Dead(es[i], write)
        <4>1. ASSUME NEW d \in 1 .. k, Dead(es[d], write)
              PROVE  d \notin Done(es, write)
          BY <3>1, <4>1 DEF Done
        <4>2. ASSUME \A d \in 1 .. k : ~Dead(es[d], write)
              PROVE  Done(es, write) = 1 .. k
          <5>1. \A i \in 1 .. k : \A j \in 1 .. i : j \in 1 .. k
            BY <3>1
          <5> QED BY <3>1, <4>2, <5>1 DEF Done
        <4> QED BY <4>1, <4>2
      <3> QED BY <3>2 DEF k
    <2>2. ASSUME NEW i \in 1 .. n + m, Dead(es[i], write)
          PROVE  x.panic \/ y.panic
      <3>1. CASE i \in 1 .. n
        BY <2>2, <3>1, <1>2, <1>5
      <3>2. CASE i \notin 1 .. n
        <4>1. i - n \in 1 .. m /\ es[(i - n) + n] = es[i]
          BY <3>2, <1>1
        <4>2. Dead(ds[i - n], write)
          BY <4>1, <2>2, <1>3
        <4> QED BY <4>1, <4>2, <1>5
      <3> QED BY <3>1, <3>2
    <2>3. ASSUME x.panic
          PROVE  \E i \in 1 .. n + m : Dead(es[i], write)
      BY <2>3, <1>1, <1>2, <1>5
    <2>4. ASSUME y.panic
          PROVE  \E i \in 1 .. n + m : Dead(es[i], write)
      <3>1. PICK i \in 1 .. m : Dead(ds[i], write)
        BY <2>4, <1>5
      <3>2. i + n \in 1 .. n + m /\ Dead(es[i + n], write)
        BY <3>1, <1>1, <1>3
      <3> QED BY <3>2
    <2> QED BY <1>1, <2>1, <2>2, <2>3, <2>4
  <1>9. Done(cs, write) = Done(es, write) \cap (1 .. n)
    BY <1>1, <1>2 DEF Done
  <1>10. ToSet(o.did) = of(es)
    <2>1. CASE x.panic
      <3>1. PICK d \in 1 .. n : Dead(cs[d], write)
        BY <2>1, <1>5
      <3>2. Done(es, write) \subseteq 1 .. n
        BY <3>1, <1>1, <1>2 DEF Done
      <3>3. Done(es, write) = Done(cs, write) /\ \A i \in Done(es, write) : es[i] = cs[i]
        BY <3>2, <1>2, <1>9
      <3>4. of(es) = of(cs)
        BY <3>3
      <3> QED BY <2>1, <3>4, <1>7
    <2>2. CASE ~x.panic
      <3>1. \A i \in 1 .. n : ~Dead(cs[i], write)
        BY <2>2, <1>5
      <3>2. \A i \in 1 .. m : i \in Done(ds, write) <=> i + n \in Done(es, write)
        <4>1. ASSUME NEW i \in 1 .. m, i \in Done(ds, write)
              PROVE  i + n \in Done(es, write)
          <5>1. i + n \in DOMAIN es
            BY <1>1
          <5>2. ASSUME NEW j \in 1 .. i + n
                PROVE  ~Dead(es[j], write)
            <6>1. CASE j \in 1 .. n
              BY <6>1, <3>1, <1>2
            <6>2. CASE j \notin 1 .. n
              <7>1. j - n \in 1 .. i /\ j - n \in 1 .. m /\ (j - n) + n = j
                BY <6>2, <1>1
              <7>2. ~Dead(ds[j - n], write)
                BY <4>1, <7>1 DEF Done
              <7>3. es[j] = ds[j - n]
                BY <7>1, <1>3
              <7> QED BY <7>2, <7>3
            <6> QED BY <6>1, <6>2
          <5> QED BY <5>1, <5>2 DEF Done
        <4>2. ASSUME NEW i \in 1 .. m, i + n \in Done(es, write)
              PROVE  i \in Done(ds, write)
          <5>1. ASSUME NEW j \in 1 .. i
                PROVE  ~Dead(ds[j], write)
            <6>1. j + n \in 1 .. i + n /\ j \in 1 .. m
              BY <1>1
            <6> QED BY <4>2, <6>1, <1>3 DEF Done
          <5> QED BY <5>1, <1>1 DEF Done
        <4> QED BY <4>1, <4>2
      <3>3. of(es) \subseteq of(cs) \cup of(ds)
        <4>1. ASSUME NEW i \in Done(es, write), NEW v \in Cycle(es[i], write)
              PROVE  v \in of(cs) \cup of(ds)
          <5>1. i \in 1 .. n + m
            BY <1>1 DEF Done
          <5>2. CASE i \in 1 .. n
            BY <5>2, <1>2, <1>9
          <5>3. CASE i \notin 1 .. n
            <6>1. i - n \in 1 .. m /\ (i - n) + n = i
              BY <5>1, <5>3, <1>1
            <6>2. i - n \in Done(ds, write) /\ es[i] = ds[i - n]
              BY <6>1, <3>2, <1>3
            <6> QED BY <6>2
          <5> QED BY <5>2, <5>3
        <4> QED BY <4>1
      <3>4. of(cs) \subseteq of(es)
        <4>1. ASSUME NEW i \in Done(cs, write)
              PROVE  i \in Done(es, write) /\ es[i] = cs[i]
          BY <1>1, <1>2, <1>9
        <4> QED BY <4>1
      <3>5. of(ds) \subseteq of(es)
        <4>1. ASSUME NEW i \in Done(ds, write)
              PROVE  i + n \in Done(es, write) /\ es[i + n] = ds[i]
          <5>1. i \in 1 .. m
            BY <1>1 DEF Done
          <5> QED BY <5>1, <3>2, <1>3
        <4> QED BY <4>1
      <3> QED BY <2>2, <3>3, <3>4, <3>5, <1>7
    <2> QED BY <2>1, <2>2, <1>4
  <1>11. o.panic = (Done(es, write) # DOMAIN es)
    BY <1>4, <1>7, <1>8
  <1>12. Right(o, es, write)
    BY <1>10, <1>11, Zenon DEF Right
  <1> QED BY <1>0, <1>7, <1>12 DEF es

-----------------------------------------------------------------------------
(* What one cycle does.                                                    *)

\* The two ways a cycle ends.
LEMMA ReachesFields ==
  ASSUME NEW did \in Seq(Kinds \X Nat), NEW o, o = Reaches(did)
  PROVE  o \in Outcome /\ o.did = did /\ o.panic = FALSE
  BY DEF Reaches, Outcome

LEMMA NoAnswerFields ==
  NoAnswer \in Outcome /\ NoAnswer.did = <<>> /\ NoAnswer.panic = TRUE /\ ToSet(NoAnswer.did) = {}
  BY DEF NoAnswer, Outcome, ToSet

\* Equality of sequences, and the short ones a cycle is made of.
LEMMA SameSequence ==
  ASSUME NEW S, NEW s \in Seq(S), NEW t \in Seq(S), Len(s) = Len(t), \A i \in 1 .. Len(s) : s[i] = t[i]
  PROVE  s = t
  OBVIOUS

LEMMA Singles ==
  ASSUME NEW p \in Kinds \X Nat, NEW q \in Kinds \X Nat
  PROVE  /\ <<p>> \in Seq(Kinds \X Nat) /\ ToSet(<<p>>) = {p}
         /\ <<p, q>> \in Seq(Kinds \X Nat) /\ ToSet(<<p, q>>) = {p, q}
         /\ SubSeq(<<p, q>>, 1, 1) = <<p>> /\ SubSeq(<<p, q>>, 1, 2) = <<p, q>>
  <1>1. ToSet(<<p>>) = {p}
    BY DEF ToSet
  <1>2. ToSet(<<p, q>>) = {p, q}
    BY DEF ToSet
  <1>3. SubSeq(<<p, q>>, 1, 1) = <<p>>
    <2>1. Len(SubSeq(<<p, q>>, 1, 1)) = 1 /\ SubSeq(<<p, q>>, 1, 1)[1] = p
      OBVIOUS
    <2>2. SubSeq(<<p, q>>, 1, 1) \in Seq(Kinds \X Nat)
      OBVIOUS
    <2>3. /\ <<p>> \in Seq(Kinds \X Nat) /\ Len(<<p>>) = 1 /\ <<p>>[1] = p
          /\ \A i \in 1 .. 1 : i = 1
      OBVIOUS
    <2> QED BY <2>1, <2>2, <2>3, SameSequence
  <1>4. SubSeq(<<p, q>>, 1, 2) = <<p, q>>
    <2>1. Len(SubSeq(<<p, q>>, 1, 2)) = 2 /\ SubSeq(<<p, q>>, 1, 2)[1] = p /\ SubSeq(<<p, q>>, 1, 2)[2] = q
      OBVIOUS
    <2>2. SubSeq(<<p, q>>, 1, 2) \in Seq(Kinds \X Nat)
      OBVIOUS
    <2>3. /\ <<p, q>> \in Seq(Kinds \X Nat) /\ Len(<<p, q>>) = 2 /\ <<p, q>>[1] = p /\ <<p, q>>[2] = q
          /\ \A i \in 1 .. 2 : i = 1 \/ i = 2
      OBVIOUS
    <2> DEFINE s == SubSeq(<<p, q>>, 1, 2)
               t == <<p, q>>
    <2>4. s \in Seq(Kinds \X Nat) /\ t \in Seq(Kinds \X Nat) /\ Len(s) = 2 /\ Len(t) = 2
          /\ s[1] = t[1] /\ s[2] = t[2]
      BY <2>1, <2>2, <2>3
    <2>5. \A i \in 1 .. 2 : i = 1 \/ i = 2
      BY <2>3
    <2> HIDE DEF s, t
    <2>6. s = t
      BY <2>4, <2>5, SameSequence
    <2> QED BY <2>6 DEF s, t
  <1> QED BY <1>1, <1>2, <1>3, <1>4

\* One cycle of an access reached these bytes, and was answered by somebody.
LEMMA Answered ==
  ASSUME NEW did \in Seq(Kinds \X Nat), NEW as, NEW write \in BOOLEAN, ToSet(did) = Cycle(as, write),
         \E byte \in Cycle(as, write) : Selected(byte)
  PROVE  Reaches(did) \in Outcome /\ Right(Reaches(did), << as >>, write)
  <1> DEFINE o == Reaches(did)
  <1>1. o \in Outcome /\ o.did = did /\ o.panic = FALSE
    BY ReachesFields
  <1> HIDE DEF o
  <1>2. ~Dead(as, write)
    BY DEF Dead
  <1>3. Right(o, << as >>, write)
    BY <1>1, <1>2, Lone
  <1> QED BY <1>1, <1>3 DEF o

\* Nobody answered it.
LEMMA Unanswered ==
  ASSUME NEW as, NEW write \in BOOLEAN, \A byte \in Cycle(as, write) : ~Selected(byte)
  PROVE  NoAnswer \in Outcome /\ Right(NoAnswer, << as >>, write)
  <1> DEFINE o == NoAnswer
  <1>1. o \in Outcome /\ o.panic = TRUE /\ ToSet(o.did) = {}
    BY NoAnswerFields
  <1> HIDE DEF o
  <1>2. Dead(as, write)
    BY DEF Dead
  <1>3. Right(o, << as >>, write)
    BY <1>1, <1>2, Lone
  <1> QED BY <1>1, <1>3 DEF o

\* What the bytes of one cycle are where no custom register is among them, and where they all are.
LEMMA PlainCycle ==
  ASSUME NEW as, NEW write \in BOOLEAN, \A a \in as : MapOf(a)[1] # "custom"
  PROVE  Cycle(as, write) = {IF write /\ MapOf(a)[1] = "rom" THEN <<"ignored", 0>> ELSE MapOf(a) : a \in as}
  <1> DEFINE none == {x \in as : MapOf(x)[1] = "custom"}
  <1>1. none = {}
    OBVIOUS
  <1>2. Cycle(as, write) = {IF write /\ MapOf(a)[1] = "rom" THEN <<"ignored", 0>> ELSE MapOf(a) : a \in as}
                           \cup {<<"custom", MapOf(a)[2] - (a % 2) + k>> : a \in none, k \in 0 .. 1}
    BY DEF Cycle
  <1> HIDE DEF none
  <1> QED BY <1>1, <1>2

\* The custom chips are wired to a whole word, of which a byte cycle drives one half (custom_word).
LEMMA CustomCycle ==
  ASSUME NEW w \in Addresses, NEW at, at = (w % 8) - (w % 2), NEW write \in BOOLEAN, NEW as,
         \/ as = {w}
         \/ as = {w, w + 1} /\ w % 2 = 0 /\ MapOf(w + 1) = <<"custom", (w + 1) % 8>>,
         MapOf(w) = <<"custom", w % 8>>
  PROVE  Cycle(as, write) = {<<"custom", at>>, <<"custom", at + 1>>}
  <1>1. w \in 0 .. 4095
    BY DEF Addresses, BankBytes
  <1>2. /\ w % 2 = 0 => w % 8 = at /\ (w + 1) % 8 = at + 1 /\ (w + 1) % 2 = 1
        /\ w % 2 = 1 => w % 8 = at + 1
        /\ w % 2 \in 0 .. 1 /\ w % 8 \in 0 .. 7
    <2>1. PICK q \in 0 .. 511, r \in 0 .. 7 : w = (8 * q) + r
      <3>1. w \div 8 \in 0 .. 511 /\ w % 8 \in 0 .. 7 /\ w = (8 * (w \div 8)) + (w % 8)
        BY <1>1
      <3> QED BY <3>1
    <2>2. w % 8 = r
      BY <2>1
    <2>3. w % 2 = r % 2
      BY <2>1
    <2>4. ASSUME r < 7
          PROVE  (w + 1) % 8 = r + 1
      BY <2>1, <2>4
    <2>5. (w + 1) % 2 = 1 - (r % 2)
      BY <2>1
    <2> QED BY <2>2, <2>3, <2>4, <2>5
  <1> DEFINE odd == w % 2
             low == w % 8
             mine(a) == IF write /\ MapOf(a)[1] = "rom" THEN <<"ignored", 0>> ELSE MapOf(a)
             both(a, k) == <<"custom", MapOf(a)[2] - (a % 2) + k>>
  <1>3. mine(w) = <<"custom", low>> /\ both(w, 0) = <<"custom", at>> /\ both(w, 1) = <<"custom", at + 1>>
    BY <1>1, <1>2
  <1>4. Cycle(as, write) = {mine(a) : a \in as} \cup {both(a, k) : a \in {x \in as : MapOf(x)[1] = "custom"}, k \in 0 .. 1}
    BY DEF Cycle
  <1>5. MapOf(w)[1] = "custom"
    OBVIOUS
  <1>6. CASE as = {w}
    <2>1. {x \in as : MapOf(x)[1] = "custom"} = {w}
      BY <1>5, <1>6
    <2>2. Cycle(as, write) = {mine(w)} \cup {both(w, 0), both(w, 1)}
      <3> HIDE DEF mine, both
      <3> QED BY <1>4, <1>6, <2>1
    <2> QED BY <2>2, <1>2, <1>3
  <1>7. CASE as = {w, w + 1} /\ w % 2 = 0 /\ MapOf(w + 1) = <<"custom", (w + 1) % 8>>
    <2>1. {x \in as : MapOf(x)[1] = "custom"} = {w, w + 1}
      BY <1>5, <1>7
    <2>2. Cycle(as, write) = {mine(w), mine(w + 1)} \cup {both(w, 0), both(w, 1), both(w + 1, 0), both(w + 1, 1)}
      <3> HIDE DEF mine, both
      <3> QED BY <1>4, <1>7, <2>1
    <2>3. mine(w + 1) = <<"custom", at + 1>> /\ both(w + 1, 0) = <<"custom", at>> /\ both(w + 1, 1) = <<"custom", at + 1>>
      BY <1>1, <1>2, <1>7
    <2>4. mine(w) = <<"custom", at>>
      BY <1>2, <1>3, <1>7
    <2> QED BY <2>2, <2>3, <2>4, <1>3
  <1> QED BY <1>6, <1>7

\* The two shapes of such a cycle.
LEMMA CustomByte ==
  ASSUME NEW w \in Addresses, NEW write \in BOOLEAN, MapOf(w) = <<"custom", w % 8>>
  PROVE  Cycle({w}, write) = {<<"custom", (w % 8) - (w % 2)>>, <<"custom", (w % 8) - (w % 2) + 1>>}
  BY CustomCycle

LEMMA CustomWord ==
  ASSUME NEW w \in Addresses, NEW write \in BOOLEAN, w % 2 = 0,
         MapOf(w) = <<"custom", w % 8>>, MapOf(w + 1) = <<"custom", (w + 1) % 8>>
  PROVE  Cycle({w, w + 1}, write) = {<<"custom", (w % 8) - (w % 2)>>, <<"custom", (w % 8) - (w % 2) + 1>>}
  BY CustomCycle

-----------------------------------------------------------------------------
(* Bytes.                                                                  *)

\* The lines of the address that the decoders look at.
LEMMA Mods ==
  ASSUME NEW w \in 0 .. 4095
  PROVE  /\ w % 2 \in 0 .. 1 /\ w % 8 \in 0 .. 7 /\ w % 64 \in Nat /\ w % 128 \in Nat
         /\ (w % 8) - (w % 2) \in Nat
  <1>1. w % 2 \in 0 .. 1 /\ w % 8 \in 0 .. 7 /\ w % 64 \in Nat /\ w % 128 \in Nat
    OBVIOUS
  <1>2. w % 2 <= w % 8
    <2>1. PICK q \in 0 .. 511, r \in 0 .. 7 : w = (8 * q) + r
      <3>1. w \div 8 \in 0 .. 511 /\ w % 8 \in 0 .. 7 /\ w = (8 * (w \div 8)) + (w % 8)
        OBVIOUS
      <3> QED BY <3>1
    <2>2. w % 8 = r /\ w % 2 = r % 2
      BY <2>1
    <2> QED BY <2>1, <2>2
  <1> QED BY <1>1, <1>2

\* An address and the one that 24 lines carry differ in nothing that the decoding looks at.
Wraps(a, w) ==
  /\ a \in 0 .. 4098 /\ w \in 0 .. 4095 /\ w \in Addresses
  /\ a % 2 = w % 2 /\ a % 8 = w % 8 /\ a % 64 = w % 64 /\ a % 128 = w % 128
  /\ CiaByte(a) = CiaByte(w) /\ CiaByte(a + 1) = CiaByte(w + 1)

\* The two CIAs are selected by two lines of the address, active low.
LEMMA CiaBytes ==
  ASSUME NEW x \in Int
  PROVE  CiaByte(x) \in Kinds \X Nat /\ CiaByte(x)[1] \in {"undriven", "ciaA", "ciaB"}
  <1>1. (x \div 2) % 2 \in Nat
    OBVIOUS
  <1> DEFINE n == (x \div 2) % 2
  <1>2. CiaByte(x) \in {<<"ciaA", n>>, <<"ciaB", n>>, <<"undriven", 0>>}
    BY DEF CiaByte
  <1> HIDE DEF n
  <1>3. n \in Nat
    BY <1>1 DEF n
  <1> QED BY <1>2, <1>3 DEF Kinds

\* Wrapping keeps those lines.
LEMMA Wrapped ==
  ASSUME NEW a \in Reach
  PROVE  Wraps(a, Wrapped24(a))
  <1>1. a \in 0 .. 4098
    BY DEF Reach, BankBytes
  <1>2. CASE a \in 0 .. 4095
    <2>1. Wrapped24(a) = a
      BY <1>2 DEF Wrapped24, BankBytes
    <2>2. a \in Addresses
      BY <1>2 DEF Addresses, BankBytes
    <2> QED BY <1>1, <1>2, <2>1, <2>2 DEF Wraps
  <1>3. CASE a = 4096
    <2>1. Wrapped24(a) = 0 /\ 0 \in Addresses
      BY <1>3 DEF Wrapped24, BankBytes, Addresses
    <2> QED BY <1>3, <2>1 DEF Wraps, CiaByte
  <1>4. CASE a = 4097
    <2>1. Wrapped24(a) = 1 /\ 1 \in Addresses
      BY <1>4 DEF Wrapped24, BankBytes, Addresses
    <2> QED BY <1>4, <2>1 DEF Wraps, CiaByte
  <1>5. CASE a = 4098
    <2>1. Wrapped24(a) = 2 /\ 2 \in Addresses
      BY <1>5 DEF Wrapped24, BankBytes, Addresses
    <2> QED BY <1>5, <2>1 DEF Wraps, CiaByte
  <1> QED BY <1>1, <1>2, <1>3, <1>4, <1>5

\* A byte cycle reaches what the map says (MemoryBus::read8 and write8).
LEMMA ByteAt ==
  ASSUME NEW a, NEW w, Wraps(a, w), NEW write \in BOOLEAN, Decoded(Bank(a), w)
  PROVE  Access8(a, write) \in Outcome /\ Right(Access8(a, write), << {w} >>, write)
  <1> DEFINE t == Bank(a)
             as == {w}
             o == Access8(a, write)
  <1>1. Decoded(t, w)
    OBVIOUS
  <1>2. /\ a \in Nat /\ w \in 0 .. 4095 /\ w \in Addresses
        /\ a % 2 = w % 2 /\ a % 8 = w % 8 /\ a % 64 = w % 64 /\ a % 128 = w % 128
        /\ w % 2 \in 0 .. 1 /\ w % 8 \in 0 .. 7 /\ w % 64 \in Nat /\ w % 128 \in Nat
        /\ (w % 8) - (w % 2) \in Nat
        /\ (a + 1) % 64 \in Nat /\ (a + 1) % 128 \in Nat
    <2>1. w \in 0 .. 4095 /\ a \in 0 .. 4098
      BY DEF Wraps
    <2>2. (a + 1) % 64 \in Nat /\ (a + 1) % 128 \in Nat /\ a \in Nat
      BY <2>1
    <2>3. /\ w \in Addresses
          /\ a % 2 = w % 2 /\ a % 8 = w % 8 /\ a % 64 = w % 64 /\ a % 128 = w % 128
      BY DEF Wraps
    <2>4. /\ w % 2 \in 0 .. 1 /\ w % 8 \in 0 .. 7 /\ w % 64 \in Nat /\ w % 128 \in Nat
          /\ (w % 8) - (w % 2) \in Nat
      BY <2>1, Mods
    <2> QED BY <2>1, <2>2, <2>3, <2>4
  <1>3. MapOf(w)[1] # "custom" =>
          Cycle(as, write) = {IF write /\ MapOf(w)[1] = "rom" THEN <<"ignored", 0>> ELSE MapOf(w)}
    <2>1. SUFFICES ASSUME MapOf(w)[1] # "custom"
                   PROVE  Cycle(as, write) = {IF write /\ MapOf(w)[1] = "rom" THEN <<"ignored", 0>> ELSE MapOf(w)}
      OBVIOUS
    <2>2. Cycle(as, write) = {IF write /\ MapOf(x)[1] = "rom" THEN <<"ignored", 0>> ELSE MapOf(x) : x \in as}
      BY <2>1, PlainCycle
    <2> QED BY <2>2
  <1> SUFFICES o \in Outcome /\ Right(o, << as >>, write)
    OBVIOUS
  <1>4. ASSUME NEW p \in Kinds \X Nat, Cycle(as, write) = {p}, Selected(p), o = Reaches(<<p>>)
        PROVE  o \in Outcome /\ Right(o, << as >>, write)
    <2>1. <<p>> \in Seq(Kinds \X Nat) /\ ToSet(<<p>>) = Cycle(as, write)
      BY <1>4, Singles
    <2> HIDE DEF o, as
    <2> QED BY <1>4, <2>1, Answered
  <1>5. ASSUME NEW p \in Kinds \X Nat, Cycle(as, write) = {p}, ~Selected(p), o = NoAnswer
        PROVE  o \in Outcome /\ Right(o, << as >>, write)
    <2> HIDE DEF o, as
    <2> QED BY <1>5, Unanswered
  <1>6. o = IF resolve_panics(a) THEN NoAnswer ELSE IF t.base = "none" THEN Io8(a) ELSE Memory(a, 1, write)
    BY DEF Access8
  <1>7. resolve_panics(a) <=> t.base = "none" /\ ~t.custom /\ ~t.cia /\ ~t.open_bus
    BY DEF resolve_panics
  <1>8. Memory(a, 1, write) = Reaches(IF write /\ ~t.writable THEN << <<"ignored", 0>> >>
                                      ELSE SubSeq(<< <<t.base, (a + 0) % (t.size * 16)>>, <<t.base, (a + 1) % (t.size * 16)>> >>, 1, 1))
    BY DEF Memory, BankBytes
  <1>9. Io8(a) = CASE t.open_bus -> Reaches(<< <<"open", 0>> >>)
                   [] ~t.open_bus /\ t.cia -> IF Selected(CiaByte(a)) THEN Reaches(<<CiaByte(a)>>) ELSE NoAnswer
                   [] OTHER -> custom_word(a)
    BY DEF Io8
  <1> HIDE DEF t, o
  <1>10. ASSUME NEW p \in Kinds \X Nat, NEW q \in Kinds \X Nat, Cycle(as, write) = {p}, Selected(p),
                o = Reaches(SubSeq(<<p, q>>, 1, 1))
         PROVE  o \in Outcome /\ Right(o, << as >>, write)
    BY <1>4, <1>10, Singles
  <1>11. CASE /\ t.base # "none" /\ ~t.custom /\ ~t.cia /\ ~t.open_bus
              /\ t.base = "rom" /\ t.size = 4 /\ t.writable = FALSE /\ MapOf(w) = <<"rom", w % 64>>
    <2>1. o = Memory(a, 1, write)
      BY <1>6, <1>7, <1>11
    <2>2. CASE write
      <3> DEFINE p == <<"ignored", 0>>
      <3>1. o = Reaches(<<p>>)
        BY <1>8, <1>11, <2>1, <2>2
      <3>2. MapOf(w)[1] = "rom"
        BY <1>11
      <3>3. Cycle(as, write) = {p} /\ Selected(p) /\ p \in Kinds \X Nat
        <4>1. Selected(p) /\ p \in Kinds \X Nat
          BY DEF Selected, Kinds
        <4> HIDE DEF as, p
        <4>2. MapOf(w)[1] # "custom"
          BY <3>2
        <4>3. Cycle(as, write) = {IF write /\ MapOf(w)[1] = "rom" THEN <<"ignored", 0>> ELSE MapOf(w)}
          BY <1>3, <4>2
        <4>4. Cycle(as, write) = {<<"ignored", 0>>}
          BY <4>3, <3>2, <2>2
        <4> QED BY <4>1, <4>4 DEF p
      <3> HIDE DEF p
      <3> QED BY <1>4, <3>1, <3>3
    <2>3. CASE ~write
      <3> DEFINE m == w % 64
                 n == (a + 1) % 64
                 p == <<"rom", m>>
                 q == <<"rom", n>>
      <3>1. m \in Nat /\ n \in Nat
        BY <1>2
      <3>2. a + 0 = a /\ t.size * 16 = 64 /\ a % 64 = m
        BY <1>2, <1>11
      <3>3. Memory(a, 1, write) = Reaches(SubSeq(<<p, q>>, 1, 1))
        BY <1>8, <1>11, <2>3, <3>2
      <3>4. MapOf(w) = p
        BY <1>11
      <3> HIDE DEF m, n
      <3>5. p \in Kinds \X Nat /\ q \in Kinds \X Nat /\ Selected(p)
        BY <3>1 DEF Selected, Kinds
      <3>6. MapOf(w)[1] = "rom"
        BY <3>4
      <3> HIDE DEF p, q
      <3>7. Cycle(as, write) = {p}
        BY <1>3, <2>3, <3>4, <3>6
      <3> QED BY <1>10, <2>1, <3>3, <3>5, <3>7
    <2> QED BY <2>2, <2>3
  <1>12. CASE /\ t.base # "none" /\ ~t.custom /\ ~t.cia /\ ~t.open_bus
              /\ t.base \in {"chip", "slow"} /\ t.size = 8 /\ t.writable = TRUE /\ MapOf(w) = <<t.base, w % 128>>
    <2> DEFINE m == w % 128
               n == (a + 1) % 128
               p == <<t.base, m>>
               q == <<t.base, n>>
    <2>1. m \in Nat /\ n \in Nat
      BY <1>2
    <2>2. a + 0 = a /\ t.size * 16 = 128 /\ a % 128 = m
      BY <1>2, <1>12
    <2>3. Memory(a, 1, write) = Reaches(SubSeq(<<p, q>>, 1, 1))
      BY <1>8, <1>12, <2>2
    <2>4. MapOf(w) = p
      BY <1>12
    <2>5. o = Memory(a, 1, write)
      BY <1>6, <1>7, <1>12
    <2> HIDE DEF m, n
    <2>6. p \in Kinds \X Nat /\ q \in Kinds \X Nat /\ Selected(p) /\ p[1] # "custom" /\ p[1] # "rom"
      BY <2>1, <1>12 DEF Selected, Kinds
    <2> HIDE DEF p, q
    <2>7. Cycle(as, write) = {p}
      BY <1>3, <2>4, <2>6
    <2> QED BY <1>10, <2>3, <2>5, <2>6, <2>7
  <1>13. CASE /\ t.base = "none" /\ ~t.custom /\ ~t.cia /\ t.open_bus
              /\ MapOf(w) = <<"open", 0>>
    <2> DEFINE p == <<"open", 0>>
    <2>1. p \in Kinds \X Nat /\ Selected(p) /\ p[1] # "custom" /\ p[1] # "rom"
      BY DEF Selected, Kinds
    <2>2. o = Reaches(<<p>>)
      BY <1>6, <1>7, <1>9, <1>13
    <2>3. MapOf(w) = p
      BY <1>13
    <2> HIDE DEF p
    <2>4. Cycle(as, write) = {p}
      BY <1>3, <2>1, <2>3
    <2> QED BY <1>4, <2>1, <2>2, <2>4
  <1>14. CASE /\ t.base = "none" /\ ~t.custom /\ t.cia /\ ~t.open_bus
              /\ config.cia /\ MapOf(w) = CiaByte(w)
    <2> DEFINE p == CiaByte(a)
    <2>1. p \in Kinds \X Nat /\ p[1] # "custom" /\ p[1] # "rom"
      <3>1. p[1] \in {"undriven", "ciaA", "ciaB"} /\ p \in Kinds \X Nat
        BY <1>2, CiaBytes
      <3> HIDE DEF p
      <3> QED BY <3>1
    <2>2. o = IF Selected(p) THEN Reaches(<<p>>) ELSE NoAnswer
      BY <1>6, <1>7, <1>9, <1>14
    <2>3. MapOf(w) = p
      BY <1>14 DEF Wraps
    <2> HIDE DEF p
    <2>4. Cycle(as, write) = {p}
      BY <1>3, <2>1, <2>3
    <2> QED BY <1>4, <1>5, <2>1, <2>2, <2>4
  <1>15. CASE /\ t.base = "none" /\ t.custom /\ ~t.cia /\ ~t.open_bus
              /\ MapOf(w) = <<"custom", w % kCustomSize>>
    <2> DEFINE at == (w % 8) - (w % 2)
               p == <<"custom", at>>
               q == <<"custom", at + 1>>
    <2>1. at \in Nat
      BY <1>2
    <2>2. Cycle(as, write) = {p, q}
      <3>1. MapOf(w) = <<"custom", w % 8>>
        BY <1>15 DEF kCustomSize
      <3>2. Cycle({w}, write) = {<<"custom", (w % 8) - (w % 2)>>, <<"custom", (w % 8) - (w % 2) + 1>>}
        <4>1. w \in Addresses
          BY <1>2
        <4> QED BY <3>1, <4>1, CustomByte
      <3> QED BY <3>2, Zenon
    <2>3. o = custom_word(a)
      BY <1>6, <1>7, <1>9, <1>15
    <2>4. custom_word(a) = Reaches(<<p, q>>)
      BY <1>2 DEF custom_word, kCustomSize
    <2> HIDE DEF at
    <2>5. p \in Kinds \X Nat /\ q \in Kinds \X Nat /\ Selected(p)
      BY <2>1 DEF Selected, Kinds
    <2> HIDE DEF p, q, as
    <2>6. <<p, q>> \in Seq(Kinds \X Nat) /\ ToSet(<<p, q>>) = Cycle(as, write)
      BY <2>2, <2>5, Singles
    <2>7. \E byte \in Cycle(as, write) : Selected(byte)
      BY <2>2, <2>5
    <2> QED BY <2>3, <2>4, <2>6, <2>7, Answered
  <1>16. CASE /\ t.base = "none" /\ ~t.custom /\ ~t.cia /\ ~t.open_bus
              /\ MapOf(w) = <<"undriven", 0>>
    <2> DEFINE p == <<"undriven", 0>>
    <2>1. p \in Kinds \X Nat /\ ~Selected(p) /\ p[1] # "custom" /\ p[1] # "rom"
      BY DEF Selected, Kinds
    <2>2. o = NoAnswer
      BY <1>6, <1>7, <1>16
    <2>3. MapOf(w) = p
      BY <1>16
    <2> HIDE DEF p
    <2>4. Cycle(as, write) = {p}
      BY <1>3, <2>1, <2>3
    <2> QED BY <1>5, <2>1, <2>2, <2>4
  <1> QED BY <1>1, <1>11, <1>12, <1>13, <1>14, <1>15, <1>16 DEF Decoded

\* A byte at any address, right up to where the last access may end.
LEMMA ByteRight ==
  ASSUME BusInv, NEW a \in Reach, NEW write \in BOOLEAN
  PROVE  Access8(a, write) \in Outcome /\ Right(Access8(a, write), << {Wrapped24(a)} >>, write)
  <1>1. Decoded(Bank(a), Wrapped24(a))
    BY Decodes
  <1>2. Wraps(a, Wrapped24(a))
    BY Wrapped
  <1> QED BY <1>1, <1>2, ByteAt

-----------------------------------------------------------------------------
(* Words.                                                                  *)

\* What a byte of the map is to a cycle: ROM ignores what is written.
Kept(p, write) == IF write /\ p[1] = "rom" THEN <<"ignored", 0>> ELSE p

\* The two bytes of a word cycle where neither is a custom register.
LEMMA TwoPlain ==
  ASSUME NEW w, NEW write \in BOOLEAN, MapOf(w)[1] # "custom", MapOf(w + 1)[1] # "custom"
  PROVE  Cycle({w, w + 1}, write) = {Kept(MapOf(w), write), Kept(MapOf(w + 1), write)}
  <1> DEFINE as == {w, w + 1}
  <1>1. \A a \in as : MapOf(a)[1] # "custom"
    OBVIOUS
  <1> HIDE DEF as
  <1>2. Cycle(as, write) = {Kept(MapOf(a), write) : a \in as}
    BY <1>1, PlainCycle, Zenon DEF Kept
  <1>3. {Kept(MapOf(a), write) : a \in as} = {Kept(MapOf(w), write), Kept(MapOf(w + 1), write)}
    BY DEF as
  <1> QED BY <1>2, <1>3 DEF as

\* What the words of the two lemmas below share.
EvenWord(a, w) ==
  /\ Wraps(a, w) /\ a % 2 = 0 /\ w + 1 \in 0 .. 4095 /\ w % 2 = 0
  /\ (a + 1) % 64 = (w + 1) % 64 /\ (a + 1) % 128 = (w + 1) % 128

\* A word cycle at an even address reaches what the map says of both its bytes (MemoryBus::read16 and write16).
LEMMA WordAt ==
  ASSUME NEW a, NEW w, EvenWord(a, w), NEW write \in BOOLEAN, Decoded(Bank(a), w), Decoded(Bank(a), w + 1)
  PROVE  Access16(a, write) \in Outcome /\ Right(Access16(a, write), << {w, w + 1} >>, write)
  <1> DEFINE t == Bank(a)
             as == {w, w + 1}
             o == Access16(a, write)
  <1>1. Decoded(t, w) /\ Decoded(t, w + 1)
    OBVIOUS
  <1>2. /\ a \in Nat /\ w \in 0 .. 4095 /\ w + 1 \in 0 .. 4095 /\ w \in Addresses
        /\ a % 2 = 0 /\ w % 2 = 0 /\ a % 8 = w % 8 /\ a % 64 = w % 64 /\ a % 128 = w % 128
        /\ (a + 1) % 64 = (w + 1) % 64 /\ (a + 1) % 128 = (w + 1) % 128
        /\ w % 8 \in 0 .. 7 /\ w % 64 \in Nat /\ w % 128 \in Nat
        /\ (w + 1) % 64 \in Nat /\ (w + 1) % 128 \in Nat
        /\ (w % 8) - (w % 2) \in Nat
    <2>1. w \in 0 .. 4095 /\ a \in 0 .. 4098 /\ w + 1 \in 0 .. 4095 /\ a % 2 = 0 /\ w % 2 = 0
      BY DEF Wraps, EvenWord
    <2>2. a \in Nat
      BY <2>1
    <2>3. /\ w \in Addresses
          /\ a % 8 = w % 8 /\ a % 64 = w % 64 /\ a % 128 = w % 128
          /\ (a + 1) % 64 = (w + 1) % 64 /\ (a + 1) % 128 = (w + 1) % 128
      BY DEF Wraps, EvenWord
    <2>4. /\ w % 8 \in 0 .. 7 /\ w % 64 \in Nat /\ w % 128 \in Nat
          /\ (w % 8) - (w % 2) \in Nat
      BY <2>1, Mods
    <2>5. (w + 1) % 64 \in Nat /\ (w + 1) % 128 \in Nat
      BY <2>1, Mods
    <2> QED BY <2>1, <2>2, <2>3, <2>4, <2>5, SMTT(60)
  <1> SUFFICES o \in Outcome /\ Right(o, << as >>, write)
    OBVIOUS
  <1>3. ASSUME NEW p \in Kinds \X Nat, NEW q \in Kinds \X Nat, Cycle(as, write) = {p, q},
               Selected(p) \/ Selected(q), o = Reaches(<<p, q>>)
        PROVE  o \in Outcome /\ Right(o, << as >>, write)
    <2>1. <<p, q>> \in Seq(Kinds \X Nat) /\ ToSet(<<p, q>>) = Cycle(as, write)
      BY <1>3, Singles
    <2>2. \E byte \in Cycle(as, write) : Selected(byte)
      BY <1>3
    <2> HIDE DEF o, as
    <2> QED BY <1>3, <2>1, <2>2, Answered
  <1>4. ASSUME NEW p \in Kinds \X Nat, NEW q \in Kinds \X Nat, Cycle(as, write) = {p, q},
               ~Selected(p), ~Selected(q), o = NoAnswer
        PROVE  o \in Outcome /\ Right(o, << as >>, write)
    <2>1. \A byte \in Cycle(as, write) : ~Selected(byte)
      BY <1>4
    <2> HIDE DEF o, as
    <2> QED BY <1>4, <2>1, Unanswered
  <1>5. o = IF resolve_panics(a) THEN NoAnswer ELSE IF t.base = "none" THEN Io16(a) ELSE Memory(a, 2, write)
    BY <1>2 DEF Access16
  <1>6. resolve_panics(a) <=> t.base = "none" /\ ~t.custom /\ ~t.cia /\ ~t.open_bus
    BY DEF resolve_panics
  <1>7. Memory(a, 2, write) = Reaches(IF write /\ ~t.writable THEN << <<"ignored", 0>> >>
                                      ELSE SubSeq(<< <<t.base, (a + 0) % (t.size * 16)>>, <<t.base, (a + 1) % (t.size * 16)>> >>, 1, 2))
    BY DEF Memory, BankBytes
  <1>8. Io16(a) = CASE t.open_bus -> Reaches(<< <<"open", 0>>, <<"open", 0>> >>)
                    [] ~t.open_bus /\ t.cia ->
                         IF Selected(CiaByte(a)) \/ Selected(CiaByte(a + 1))
                         THEN Reaches(<<CiaByte(a), CiaByte(a + 1)>>) ELSE NoAnswer
                    [] OTHER -> custom_word(a)
    BY DEF Io16
  <1> HIDE DEF t, o
  <1>9. ASSUME NEW p \in Kinds \X Nat, NEW q \in Kinds \X Nat, MapOf(w) = p, MapOf(w + 1) = q,
               p[1] # "custom", q[1] # "custom", p[1] # "rom", q[1] # "rom"
        PROVE  Cycle(as, write) = {p, q}
    <2>1. Cycle(as, write) = {Kept(p, write), Kept(q, write)}
      <3>1. MapOf(w)[1] # "custom" /\ MapOf(w + 1)[1] # "custom"
        BY <1>9
      <3>2. Cycle(as, write) = {Kept(MapOf(w), write), Kept(MapOf(w + 1), write)}
        BY <3>1, TwoPlain
      <3> QED BY <3>2, <1>9, Zenon
    <2> HIDE DEF as
    <2>2. Kept(p, write) = p /\ Kept(q, write) = q
      BY <1>9 DEF Kept
    <2> QED BY <2>1, <2>2
  <1>10. CASE /\ t.base # "none" /\ ~t.custom /\ ~t.cia /\ ~t.open_bus
              /\ t.base = "rom" /\ t.size = 4 /\ t.writable = FALSE /\ MapOf(w) = <<"rom", w % 64>>
    <2> DEFINE m == w % 64
               n == (w + 1) % 64
               p == <<"rom", m>>
               q == <<"rom", n>>
    <2>1. o = Memory(a, 2, write)
      BY <1>5, <1>6, <1>10
    <2>2. MapOf(w) = p /\ MapOf(w + 1) = q
      BY <1>1, <1>10 DEF Decoded
    <2>3. m \in Nat /\ n \in Nat
      BY <1>2
    <2>4. a + 0 = a /\ t.size * 16 = 64 /\ a % 64 = m /\ (a + 1) % 64 = n
      BY <1>2, <1>10
    <2>5. Memory(a, 2, write) = Reaches(IF write THEN << <<"ignored", 0>> >> ELSE SubSeq(<<p, q>>, 1, 2))
      <3> HIDE DEF m, n
      <3> QED BY <1>7, <1>10, <2>4
    <2> HIDE DEF m, n
    <2>6. p \in Kinds \X Nat /\ q \in Kinds \X Nat /\ Selected(p) /\ p[1] = "rom" /\ q[1] = "rom"
      BY <2>3 DEF Selected, Kinds
    <2> HIDE DEF p, q
    <2>7. Cycle(as, write) = {Kept(p, write), Kept(q, write)}
      <3>1. MapOf(w)[1] # "custom" /\ MapOf(w + 1)[1] # "custom"
        BY <2>2, <2>6
      <3>2. Cycle(as, write) = {Kept(MapOf(w), write), Kept(MapOf(w + 1), write)}
        BY <3>1, TwoPlain
      <3> QED BY <3>2, <2>2, Zenon
    <2>8. CASE write
      <3> DEFINE i == <<"ignored", 0>>
      <3>1. i \in Kinds \X Nat /\ Selected(i)
        BY DEF Selected, Kinds
      <3>2. o = Reaches(<<i>>)
        BY <2>1, <2>5, <2>8
      <3>3. Cycle(as, write) = {i}
        <4>1. Kept(p, write) = i /\ Kept(q, write) = i
          BY <2>6, <2>8 DEF Kept
        <4> HIDE DEF as, i
        <4> QED BY <2>7, <4>1
      <3> HIDE DEF i, as
      <3>4. <<i>> \in Seq(Kinds \X Nat) /\ ToSet(<<i>>) = Cycle(as, write)
        BY <3>1, <3>3, Singles
      <3> QED BY <3>1, <3>2, <3>3, <3>4, Answered
    <2>9. CASE ~write
      <3>1. o = Reaches(<<p, q>>)
        BY <2>1, <2>5, <2>6, <2>9, Singles
      <3>2. Cycle(as, write) = {p, q}
        <4>1. Kept(p, write) = p /\ Kept(q, write) = q
          BY <2>9 DEF Kept
        <4> HIDE DEF as
        <4> QED BY <2>7, <4>1
      <3> QED BY <1>3, <2>6, <3>1, <3>2
    <2> QED BY <2>8, <2>9
  <1>11. CASE /\ t.base # "none" /\ ~t.custom /\ ~t.cia /\ ~t.open_bus
              /\ t.base \in {"chip", "slow"} /\ t.size = 8 /\ t.writable = TRUE /\ MapOf(w) = <<t.base, w % 128>>
    <2> DEFINE m == w % 128
               n == (w + 1) % 128
               p == <<t.base, m>>
               q == <<t.base, n>>
    <2>1. o = Memory(a, 2, write)
      BY <1>5, <1>6, <1>11
    <2>2. MapOf(w) = p /\ MapOf(w + 1) = q
      BY <1>1, <1>11 DEF Decoded
    <2>3. m \in Nat /\ n \in Nat
      BY <1>2
    <2>4. a + 0 = a /\ t.size * 16 = 128 /\ a % 128 = m /\ (a + 1) % 128 = n
      BY <1>2, <1>11
    <2>5. Memory(a, 2, write) = Reaches(SubSeq(<<p, q>>, 1, 2))
      <3> HIDE DEF m, n
      <3> QED BY <1>7, <1>11, <2>4
    <2> HIDE DEF m, n
    <2>6. /\ p \in Kinds \X Nat /\ q \in Kinds \X Nat /\ Selected(p)
          /\ p[1] # "custom" /\ p[1] # "rom" /\ q[1] # "custom" /\ q[1] # "rom"
      BY <2>3, <1>11 DEF Selected, Kinds
    <2> HIDE DEF p, q
    <2>7. Cycle(as, write) = {p, q}
      BY <1>9, <2>2, <2>6
    <2>8. o = Reaches(<<p, q>>)
      BY <2>1, <2>5, <2>6, Singles
    <2> QED BY <1>3, <2>6, <2>7, <2>8
  <1>12. CASE /\ t.base = "none" /\ ~t.custom /\ ~t.cia /\ t.open_bus
              /\ MapOf(w) = <<"open", 0>>
    <2> DEFINE p == <<"open", 0>>
    <2>1. p \in Kinds \X Nat /\ Selected(p) /\ p[1] # "custom" /\ p[1] # "rom"
      BY DEF Selected, Kinds
    <2>2. o = Reaches(<<p, p>>)
      BY <1>5, <1>6, <1>8, <1>12
    <2>3. MapOf(w) = p /\ MapOf(w + 1) = p
      BY <1>1, <1>12 DEF Decoded
    <2> HIDE DEF p
    <2>4. Cycle(as, write) = {p, p}
      BY <1>9, <2>1, <2>3
    <2> QED BY <1>3, <2>1, <2>2, <2>4
  <1>13. CASE /\ t.base = "none" /\ ~t.custom /\ t.cia /\ ~t.open_bus
              /\ config.cia /\ MapOf(w) = CiaByte(w)
    <2> DEFINE p == CiaByte(a)
               q == CiaByte(a + 1)
    <2>1. /\ p \in Kinds \X Nat /\ p[1] # "custom" /\ p[1] # "rom"
          /\ q \in Kinds \X Nat /\ q[1] # "custom" /\ q[1] # "rom"
      <3>1. a + 1 \in Int /\ a \in Int
        BY <1>2
      <3>2. p[1] \in {"undriven", "ciaA", "ciaB"} /\ p \in Kinds \X Nat
        BY <3>1, CiaBytes
      <3>3. q[1] \in {"undriven", "ciaA", "ciaB"} /\ q \in Kinds \X Nat
        BY <3>1, CiaBytes
      <3> HIDE DEF p, q
      <3> QED BY <3>2, <3>3
    <2>2. o = IF Selected(p) \/ Selected(q) THEN Reaches(<<p, q>>) ELSE NoAnswer
      BY <1>5, <1>6, <1>8, <1>13
    <2>3. MapOf(w) = p /\ MapOf(w + 1) = q
      BY <1>1, <1>13 DEF Decoded, Wraps, EvenWord
    <2> HIDE DEF p, q
    <2>4. Cycle(as, write) = {p, q}
      BY <1>9, <2>1, <2>3
    <2> QED BY <1>3, <1>4, <2>1, <2>2, <2>4
  <1>14. CASE /\ t.base = "none" /\ t.custom /\ ~t.cia /\ ~t.open_bus
              /\ MapOf(w) = <<"custom", w % kCustomSize>>
    <2> DEFINE at == (w % 8) - (w % 2)
               p == <<"custom", at>>
               q == <<"custom", at + 1>>
    <2>1. at \in Nat
      BY <1>2
    <2>2. Cycle(as, write) = {p, q}
      <3>1. MapOf(w) = <<"custom", w % 8>> /\ MapOf(w + 1) = <<"custom", (w + 1) % 8>>
        BY <1>1, <1>14 DEF kCustomSize, Decoded
      <3>2. Cycle({w, w + 1}, write) = {<<"custom", (w % 8) - (w % 2)>>, <<"custom", (w % 8) - (w % 2) + 1>>}
        <4>1. w \in Addresses /\ w % 2 = 0
          BY <1>2
        <4> QED BY <3>1, <4>1, CustomWord
      <3> QED BY <3>2, Zenon
    <2>3. o = custom_word(a)
      BY <1>5, <1>6, <1>8, <1>14
    <2>4. custom_word(a) = Reaches(<<p, q>>)
      <3>1. a % 8 = w % 8 /\ a % 2 = w % 2
        BY <1>2
      <3> QED BY <3>1 DEF custom_word, kCustomSize
    <2> HIDE DEF at
    <2>5. p \in Kinds \X Nat /\ q \in Kinds \X Nat /\ Selected(p)
      BY <2>1 DEF Selected, Kinds
    <2> HIDE DEF p, q
    <2> QED BY <1>3, <2>2, <2>3, <2>4, <2>5
  <1>15. CASE /\ t.base = "none" /\ ~t.custom /\ ~t.cia /\ ~t.open_bus
              /\ MapOf(w) = <<"undriven", 0>>
    <2> DEFINE p == <<"undriven", 0>>
    <2>1. p \in Kinds \X Nat /\ ~Selected(p) /\ p[1] # "custom" /\ p[1] # "rom"
      BY DEF Selected, Kinds
    <2>2. o = NoAnswer
      BY <1>5, <1>6, <1>15
    <2>3. MapOf(w) = p /\ MapOf(w + 1) = p
      BY <1>1, <1>15 DEF Decoded
    <2> HIDE DEF p
    <2>4. Cycle(as, write) = {p, p}
      BY <1>9, <2>1, <2>3
    <2> QED BY <1>4, <2>1, <2>2, <2>4
  <1> QED BY <1>1, <1>10, <1>11, <1>12, <1>13, <1>14, <1>15 DEF Decoded

-----------------------------------------------------------------------------
(* Accesses of every size.                                                 *)

\* Where words and pairs of bytes may start.
EvenStarts == {a \in 0 .. 4096 : a % 2 = 0}
OddStarts == {a \in 0 .. 4097 : a % 2 = 1}

\* A word at any even address.
LEMMA WordRight ==
  ASSUME BusInv, NEW a \in EvenStarts, NEW write \in BOOLEAN
  PROVE  Access16(a, write) \in Outcome /\ Right(Access16(a, write), << {Wrapped24(a), Wrapped24(a + 1)} >>, write)
  <1>1. a \in Reach /\ a + 1 \in Reach /\ a % 2 = 0
    BY DEF Reach, BankBytes, EvenStarts
  <1>2. Decoded(Bank(a), Wrapped24(a)) /\ Decoded(Bank(a + 1), Wrapped24(a + 1))
    BY <1>1, Decodes
  <1>3. Wraps(a, Wrapped24(a)) /\ Wraps(a + 1, Wrapped24(a + 1))
    BY <1>1, Wrapped
  <1>4. Wrapped24(a + 1) = Wrapped24(a) + 1 /\ (Wrapped24(a) + 1) \div BankBytes = Wrapped24(a) \div BankBytes
    BY <1>1, Wrap
  <1>5. Bank(a + 1) = Bank(a)
    BY <1>4 DEF Bank, Wrapped24
  <1> DEFINE w == Wrapped24(a)
  <1>6. Decoded(Bank(a), w) /\ Decoded(Bank(a), w + 1) /\ Wraps(a, w) /\ Wraps(a + 1, w + 1)
    BY <1>2, <1>3, <1>4, <1>5
  <1> HIDE DEF w
  <1>7. EvenWord(a, w)
    <2> DEFINE x == a + 1
               y == w + 1
    <2> HIDE DEF x, y
    <2>1. Wraps(x, y) /\ Wraps(a, w)
      BY <1>6 DEF x, y
    <2>2. y \in 0 .. 4095 /\ x % 64 = y % 64 /\ x % 128 = y % 128
      BY <2>1, SMT DEF Wraps
    <2>3. a % 2 = w % 2
      BY <2>1, SMT DEF Wraps
    <2>4. a % 2 = 0 /\ w % 2 = 0
      BY <1>1, <2>3, SMT
    <2>5. w + 1 \in 0 .. 4095 /\ (a + 1) % 64 = (w + 1) % 64 /\ (a + 1) % 128 = (w + 1) % 128
      BY <2>2 DEF x, y
    <2> QED BY <2>1, <2>4, <2>5, SMT DEF EvenWord
  <1>8. Access16(a, write) \in Outcome /\ Right(Access16(a, write), << {w, w + 1} >>, write)
    BY <1>6, <1>7, WordAt
  <1> DEFINE o == Access16(a, write)
             p == {w, w + 1}
             q == {Wrapped24(a), Wrapped24(a + 1)}
  <1>9. p = q
    BY <1>4 DEF w
  <1>10. o \in Outcome /\ Right(o, << p >>, write)
    BY <1>8
  <1> HIDE DEF o, p, q
  <1>11. o \in Outcome /\ Right(o, << q >>, write)
    BY <1>9, <1>10
  <1> QED BY <1>11 DEF o, q

\* Short sequences put together.
LEMMA PairJoined ==
  ASSUME NEW S, NEW x \in S, NEW y \in S
  PROVE  << x >> \in Seq(S) /\ << y >> \in Seq(S) /\ << x, y >> \in Seq(S) /\ << x >> \o << y >> = << x, y >>
  <1> DEFINE s == << x >> \o << y >>
             t == << x, y >>
  <1>1. s \in Seq(S) /\ t \in Seq(S) /\ Len(s) = 2 /\ Len(t) = 2
     OBVIOUS
  <1>2. s[1] = t[1] /\ s[2] = t[2]
     OBVIOUS
  <1>3. \A i \in 1 .. 2 : i = 1 \/ i = 2
     OBVIOUS
  <1> HIDE DEF s, t
  <1>4. s = t
    BY <1>1, <1>2, <1>3, SameSequence
  <1>5. << x >> \o << y >> = << x, y >>
    BY <1>4 DEF s, t
  <1> QED BY <1>5

LEMMA FourJoined ==
  ASSUME NEW S, NEW x \in S, NEW y \in S, NEW z \in S, NEW v \in S
  PROVE  << x, y >> \o << z, v >> = << x, y, z, v >>
  <1> DEFINE s == << x, y >> \o << z, v >>
             t == << x, y, z, v >>
  <1>1. s \in Seq(S) /\ t \in Seq(S) /\ Len(s) = 4 /\ Len(t) = 4
     OBVIOUS
  <1>2. s[1] = t[1] /\ s[2] = t[2] /\ s[3] = t[3] /\ s[4] = t[4]
     OBVIOUS
  <1>3. \A i \in 1 .. 4 : i = 1 \/ i = 2 \/ i = 3 \/ i = 4
     OBVIOUS
  <1> HIDE DEF s, t
  <1>4. s = t
    BY <1>1, <1>2, <1>3, SameSequence
  <1> QED BY <1>4 DEF s, t

\* Two accesses in a row, of one cycle or of two each.
LEMMA TwoCycles ==
  ASSUME NEW x \in Outcome, NEW y \in Outcome, NEW c, NEW d, NEW write \in BOOLEAN,
         Right(x, << c >>, write), Right(y, << d >>, write)
  PROVE  Then(x, y) \in Outcome /\ Right(Then(x, y), << c, d >>, write)
  <1> DEFINE S == {c, d}
             cs == << c >>
             ds == << d >>
             es == << c, d >>
  <1>1. c \in S /\ d \in S
    OBVIOUS
  <1> HIDE DEF S
  <1>2. cs \in Seq(S) /\ ds \in Seq(S) /\ es = cs \o ds
    BY <1>1, PairJoined
  <1>3. Right(x, cs, write) /\ Right(y, ds, write)
    OBVIOUS
  <1> HIDE DEF cs, ds, es
  <1>4. Then(x, y) \in Outcome /\ Right(Then(x, y), es, write)
    BY <1>2, <1>3, Chained
  <1> QED BY <1>4 DEF es

LEMMA FourCycles ==
  ASSUME NEW x \in Outcome, NEW y \in Outcome, NEW c, NEW d, NEW e, NEW f, NEW write \in BOOLEAN,
         Right(x, << c, d >>, write), Right(y, << e, f >>, write)
  PROVE  Right(Then(x, y), << c, d, e, f >>, write)
  <1> DEFINE S == {c, d, e, f}
             cs == << c, d >>
             ds == << e, f >>
             es == << c, d, e, f >>
  <1>1. c \in S /\ d \in S /\ e \in S /\ f \in S
    OBVIOUS
  <1> HIDE DEF S
  <1>2. cs \in Seq(S) /\ ds \in Seq(S) /\ es = cs \o ds
    BY <1>1, PairJoined, FourJoined
  <1>3. Right(x, cs, write) /\ Right(y, ds, write)
    OBVIOUS
  <1> HIDE DEF cs, ds, es
  <1>4. Then(x, y) \in Outcome /\ Right(Then(x, y), es, write)
    BY <1>2, <1>3, Chained
  <1> QED BY <1>4 DEF es

\* A word at an odd address is two byte cycles.
LEMMA OddRight ==
  ASSUME BusInv, NEW a \in OddStarts, NEW write \in BOOLEAN
  PROVE  Access16(a, write) \in Outcome /\ Right(Access16(a, write), << {Wrapped24(a)}, {Wrapped24(a + 1)} >>, write)
  <1> DEFINE x == Access8(a, write)
             y == Access8(a + 1, write)
             o == Access16(a, write)
             c == {Wrapped24(a)}
             d == {Wrapped24(a + 1)}
  <1>1. a \in Reach /\ a + 1 \in Reach /\ a % 2 = 1
    BY DEF Reach, BankBytes, OddStarts
  <1>2. x \in Outcome /\ Right(x, << c >>, write)
    BY <1>1, ByteRight
  <1>3. y \in Outcome /\ Right(y, << d >>, write)
    BY <1>1, ByteRight
  <1>4. o = Then(x, y)
    BY <1>1 DEF Access16
  <1> HIDE DEF x, y, o, c, d
  <1>5. o \in Outcome /\ Right(o, << c, d >>, write)
    BY <1>2, <1>3, <1>4, TwoCycles
  <1> QED BY <1>5 DEF o, c, d

\* A long word is two word accesses, of one cycle each or of two (MemoryBus::read32 and write32).
LEMMA LongRight ==
  ASSUME BusInv, NEW a \in Addresses, NEW write \in BOOLEAN
  PROVE  /\ a % 2 = 0 => Right(Access32(a, write), << {Wrapped24(a), Wrapped24(a + 1)},
                                                      {Wrapped24(a + 2), Wrapped24(a + 3)} >>, write)
         /\ a % 2 = 1 => Right(Access32(a, write), << {Wrapped24(a)}, {Wrapped24(a + 1)},
                                                      {Wrapped24(a + 2)}, {Wrapped24(a + 3)} >>, write)
  <1> DEFINE b == a + 2
             x == Access16(a, write)
             y == Access16(b, write)
             o == Access32(a, write)
  <1>1. o = Then(x, y)
    BY DEF Access32
  <1>2. /\ b + 1 = a + 3
        /\ a % 2 = 0 => a \in EvenStarts /\ b \in EvenStarts
        /\ a % 2 = 1 => a \in OddStarts /\ b \in OddStarts
    <2>1. a \in 0 .. 4095 /\ b = a + 2
      BY DEF Addresses, BankBytes
    <2>2. b + 1 = a + 3 /\ b \in 0 .. 4097 /\ b % 2 = a % 2
      BY <2>1
    <2>3. ASSUME a % 2 = 0
          PROVE  a \in EvenStarts /\ b \in EvenStarts
      BY <2>1, <2>2, <2>3 DEF EvenStarts
    <2>4. ASSUME a % 2 = 1
          PROVE  a \in OddStarts /\ b \in OddStarts
      BY <2>1, <2>2, <2>4 DEF OddStarts
    <2> QED BY <2>2, <2>3, <2>4
  <1> HIDE DEF o
  <1>3. ASSUME a % 2 = 0
        PROVE  Right(o, << {Wrapped24(a), Wrapped24(a + 1)}, {Wrapped24(a + 2), Wrapped24(a + 3)} >>, write)
    <2> DEFINE c == {Wrapped24(a), Wrapped24(a + 1)}
               d == {Wrapped24(b), Wrapped24(b + 1)}
    <2>1. x \in Outcome /\ Right(x, << c >>, write)
      BY <1>2, <1>3, WordRight
    <2> HIDE DEF b
    <2>2. b \in EvenStarts
      BY <1>2, <1>3 DEF b
    <2>3. y \in Outcome /\ Right(y, << d >>, write)
      BY <2>2, WordRight
    <2> HIDE DEF x, y, c, d
    <2>4. Right(o, << c, d >>, write)
      BY <1>1, <2>1, <2>3, TwoCycles
    <2>5. d = {Wrapped24(a + 2), Wrapped24(a + 3)} /\ c = {Wrapped24(a), Wrapped24(a + 1)}
      BY <1>2 DEF b, c, d
    <2> QED BY <2>4, <2>5
  <1>4. ASSUME a % 2 = 1
        PROVE  Right(o, << {Wrapped24(a)}, {Wrapped24(a + 1)}, {Wrapped24(a + 2)}, {Wrapped24(a + 3)} >>, write)
    <2> DEFINE c == {Wrapped24(a)}
               d == {Wrapped24(a + 1)}
               e == {Wrapped24(b)}
               f == {Wrapped24(b + 1)}
    <2>1. x \in Outcome /\ Right(x, << c, d >>, write)
      BY <1>2, <1>4, OddRight
    <2> HIDE DEF b
    <2>2. b \in OddStarts
      BY <1>2, <1>4 DEF b
    <2>3. y \in Outcome /\ Right(y, << e, f >>, write)
      BY <2>2, OddRight
    <2> HIDE DEF x, y, c, d, e, f
    <2>4. Right(o, << c, d, e, f >>, write)
      BY <1>1, <2>1, <2>3, FourCycles
    <2>5. /\ c = {Wrapped24(a)} /\ d = {Wrapped24(a + 1)}
          /\ e = {Wrapped24(a + 2)} /\ f = {Wrapped24(a + 3)}
      BY <1>2 DEF b, c, d, e, f
    <2> QED BY <2>4, <2>5
  <1> QED BY <1>3, <1>4 DEF o

\* Every access, whatever its address and size and whatever is attached, does what the map says and no more.
LEMMA EveryAccessRight ==
  ASSUME BusInv, NEW bytes \in {1, 2, 4}, NEW a \in Addresses, NEW write \in BOOLEAN
  PROVE  AccessRight(bytes, a, write)
  <1>1. /\ a \in Reach /\ Wrapped24(a) = a
        /\ (a % 2 = 0 /\ a \in EvenStarts) \/ (a % 2 = 1 /\ a \in OddStarts)
    <2>1. a \in 0 .. 4095
      BY DEF Addresses, BankBytes
    <2>2. a \in Reach
      BY <2>1 DEF Reach, BankBytes
    <2>3. Wrapped24(a) = a
      BY <2>1 DEF Wrapped24, BankBytes
    <2> QED BY <2>1, <2>2, <2>3 DEF EvenStarts, OddStarts
  <1>2. SUFFICES Right(Access(bytes, a, write), Cycles(bytes, a), write)
    BY Zenon DEF AccessRight, Right, Done, Dead
  <1>3. CASE bytes = 1
    <2>1. Cycles(bytes, a) = << {Wrapped24(a)} >> /\ Access(bytes, a, write) = Access8(a, write)
      BY <1>1, <1>3 DEF Cycles, Access
    <2>2. Right(Access8(a, write), << {Wrapped24(a)} >>, write)
      BY <1>1, ByteRight
    <2> QED BY <2>1, <2>2, Zenon
  <1>4. CASE bytes = 2
    <2>1. Access(bytes, a, write) = Access16(a, write)
      BY <1>4 DEF Access
    <2>2. CASE a % 2 = 0
      <3>1. Cycles(bytes, a) = << {Wrapped24(a), Wrapped24(a + 1)} >>
        BY <1>1, <1>4, <2>2 DEF Cycles
      <3>2. Right(Access16(a, write), << {Wrapped24(a), Wrapped24(a + 1)} >>, write)
        <4>1. a \in EvenStarts
          BY <1>1, <2>2
        <4> QED BY <4>1, WordRight
      <3> QED BY <2>1, <3>1, <3>2, Zenon
    <2>3. CASE a % 2 = 1
      <3>1. Cycles(bytes, a) = << {Wrapped24(a)}, {Wrapped24(a + 1)} >>
        BY <1>1, <1>4, <2>3 DEF Cycles
      <3>2. Right(Access16(a, write), << {Wrapped24(a)}, {Wrapped24(a + 1)} >>, write)
        <4>1. a \in OddStarts
          BY <1>1, <2>3
        <4> QED BY <4>1, OddRight
      <3> QED BY <2>1, <3>1, <3>2, Zenon
    <2> QED BY <1>1, <2>2, <2>3
  <1>5. CASE bytes = 4
    <2>1. Access(bytes, a, write) = Access32(a, write)
      BY <1>5 DEF Access
    <2>2. CASE a % 2 = 0
      <3>1. Cycles(bytes, a) = << {Wrapped24(a), Wrapped24(a + 1)}, {Wrapped24(a + 2), Wrapped24(a + 3)} >>
        BY <1>1, <1>5, <2>2 DEF Cycles
      <3>2. Right(Access32(a, write), << {Wrapped24(a), Wrapped24(a + 1)}, {Wrapped24(a + 2), Wrapped24(a + 3)} >>, write)
        BY <2>2, LongRight
      <3> QED BY <2>1, <3>1, <3>2, Zenon
    <2>3. CASE a % 2 = 1
      <3>1. Cycles(bytes, a) = << {Wrapped24(a)}, {Wrapped24(a + 1)}, {Wrapped24(a + 2)}, {Wrapped24(a + 3)} >>
        BY <1>1, <1>5, <2>3 DEF Cycles
      <3>2. Right(Access32(a, write),
                  << {Wrapped24(a)}, {Wrapped24(a + 1)}, {Wrapped24(a + 2)}, {Wrapped24(a + 3)} >>, write)
        BY <2>3, LongRight
      <3> QED BY <2>1, <3>1, <3>2, Zenon
    <2> QED BY <1>1, <2>2, <2>3
  <1> QED BY <1>3, <1>4, <1>5

-----------------------------------------------------------------------------
(* The invariant is kept.                                                  *)

\* A byte that CIA-A answers needs the CIAs on the bus.
LEMMA NoCiaByte ==
  ASSUME ~config.cia, NEW as, NEW write \in BOOLEAN, NEW byte \in Cycle(as, write)
  PROVE  byte[1] # "ciaA"
  <1>1. ASSUME NEW x
        PROVE  MapOf(x)[1] # "ciaA"
    BY DEF MapOf
  <1> DEFINE mine == {IF write /\ MapOf(x)[1] = "rom" THEN <<"ignored", 0>> ELSE MapOf(x) : x \in as}
             custom == {x \in as : MapOf(x)[1] = "custom"}
             words == {<<"custom", MapOf(x)[2] - (x % 2) + k>> : x \in custom, k \in 0 .. 1}
  <1>2. byte \in mine \cup words
    <2>1. Cycle(as, write) = mine \cup words
      BY DEF Cycle
    <2> HIDE DEF mine, words
    <2> QED BY <2>1
  <1>3. CASE byte \in mine
    <2>1. PICK x \in as : byte = IF write /\ MapOf(x)[1] = "rom" THEN <<"ignored", 0>> ELSE MapOf(x)
      BY <1>3
    <2> QED BY <2>1, <1>1
  <1>4. CASE byte \in words
    <2> HIDE DEF custom
    <2>1. PICK x \in custom, k \in 0 .. 1 : byte = <<"custom", MapOf(x)[2] - (x % 2) + k>>
      BY <1>4
    <2> QED BY <2>1
  <1> HIDE DEF mine, words
  <1> QED BY <1>2, <1>3, <1>4

\* Without the CIAs nothing on the bus is theirs.
LEMMA NoCiaNoHit ==
  ASSUME BusInv, ~config.cia, NEW bytes \in {1, 2, 4}, NEW a \in Addresses, NEW reg
  PROVE  ~Hits(Access(bytes, a, TRUE).did, reg)
  <1> DEFINE write == TRUE
             did == Access(bytes, a, write).did
             cs == Cycles(bytes, a)
  <1>2. ASSUME NEW as, NEW byte \in Cycle(as, write)
        PROVE  byte[1] # "ciaA"
    BY <1>2, NoCiaByte
  <1>3. AccessRight(bytes, a, write)
    BY EveryAccessRight
  <1>4. ToSet(did) = UNION {Cycle(cs[i], write) : i \in Done(cs, write)}
    BY <1>3, Zenon DEF AccessRight, Done, Dead
  <1>5. <<"ciaA", reg>> \notin ToSet(did)
    <2>1. SUFFICES ASSUME <<"ciaA", reg>> \in ToSet(did)
                   PROVE  FALSE
      OBVIOUS
    <2> HIDE DEF did, cs
    <2>2. PICK i \in Done(cs, write) : <<"ciaA", reg>> \in Cycle(cs[i], write)
      BY <1>4, <2>1
    <2>3. <<"ciaA", reg>>[1] # "ciaA"
      BY <1>2, <2>2
    <2> QED BY <2>3
  <1> QED BY <1>5 DEF Hits

\* The invariant holds when the bus is made: the overlay on, its pin pulled up, nothing attached.
LEMMA BusInitially == BusInit => BusInv
  <1> SUFFICES ASSUME BusInit
               PROVE  BusInv
    OBVIOUS
  <1>1. config \in ConfigType /\ ovl \in PortType /\ access \in Accesses \cup {NoAccess}
    BY DEF BusInit, ConfigType, PortType
  <1>2. config.overlay = TRUE /\ OvlPin(ovl) = TRUE
    BY DEF BusInit, OvlPin
  <1> QED BY <1>1, <1>2 DEF BusInit, BusInv

\* set_overlay leaves the table in step with the configuration, whether it had to rebuild it or not.
LEMMA OverlaySet ==
  ASSUME BusInv, NEW level \in BOOLEAN, set_overlay(level)
  PROVE  /\ config' \in ConfigType /\ banks' = rebuild_banks(config')
         /\ config'.overlay = level /\ config'.cia = config.cia
  <1>1. CASE config.overlay = level
    BY <1>1 DEF set_overlay, BusInv
  <1>2. CASE config.overlay # level
    BY <1>2 DEF set_overlay, BusInv, Configure, ConfigType
  <1> QED BY <1>1, <1>2

\* Every event rebuilds the table it makes stale, and none moves the overlay from its pin.
LEMMA BusEventKeeps == BusInv /\ BusEvent => BusInv'
  <1> SUFFICES ASSUME BusInv, BusEvent
               PROVE  BusInv'
    OBVIOUS
  <1>1. access' \in Accesses \cup {NoAccess}
    BY DEF BusEvent, BusInv
  <1>2. ASSUME NEW c \in ConfigType, Configure(c), ovl' = ovl, c.overlay = config.overlay, config.cia => c.cia
        PROVE  BusInv'
    <2>1. config' = c /\ banks' = rebuild_banks(config')
      BY <1>2 DEF Configure
    <2> QED BY <1>1, <1>2, <2>1 DEF BusInv, OvlPin
  <1>3. CASE load_kickstart
    BY <1>2, <1>3 DEF load_kickstart, BusInv, ConfigType
  <1>4. CASE attach_custom_chips
    BY <1>2, <1>4 DEF attach_custom_chips, BusInv, ConfigType
  <1>5. CASE attach_cias
    BY <1>2, <1>5 DEF attach_cias, BusInv, ConfigType
  <1>6. CASE reset
    <2>1. ovl' = [pra |-> 0, ddra |-> 0] /\ OvlPin(ovl') /\ config.cia /\ set_overlay(TRUE)
      BY <1>6 DEF reset, update_overlay, OvlPin
    <2>2. /\ config' \in ConfigType /\ banks' = rebuild_banks(config')
          /\ config'.overlay = TRUE /\ config'.cia = config.cia
      BY <2>1, OverlaySet
    <2>3. ovl' \in PortType /\ OvlPin(ovl') = TRUE /\ OvlPin(ovl)' = TRUE
      BY <2>1 DEF PortType, OvlPin
    <2> QED BY <1>1, <2>2, <2>3 DEF BusInv
  <1>7. ASSUME NEW enabled \in BOOLEAN, set_slow_ram(enabled)
        PROVE  BusInv'
    BY <1>2, <1>7 DEF set_slow_ram, BusInv, ConfigType
  <1> QED BY <1>3, <1>4, <1>5, <1>6, <1>7 DEF BusEvent

\* A new access changes nothing on the bus.
LEMMA BusAccessKeeps == BusInv /\ BusAccess => BusInv'
  BY DEF BusAccess, BusInv, OvlPin

\* A write that moves the pin moves the overlay with it; a write that does not reach CIA-A moves neither.
LEMMA BusServeKeeps == BusInv /\ BusServe => BusInv'
  <1> SUFFICES ASSUME BusInv, BusServe
               PROVE  BusInv'
    OBVIOUS
  <1>1. access \in Accesses /\ access' = NoAccess
    BY DEF BusServe, BusInv
  <1>2. access.bytes \in {1, 2, 4} /\ access.a \in Addresses /\ access.write \in BOOLEAN
    BY <1>1, BusAssumption
  <1>3. CASE ~access.write
    BY <1>1, <1>3 DEF BusServe, BusInv, OvlPin
  <1>4. CASE access.write
    <2> DEFINE did == Access(access.bytes, access.a, TRUE).did
    <2>1. cpu_write(access.bytes, access.a)
      BY <1>4 DEF BusServe
    <2>2. PICK pra \in 0 .. 1, ddra \in 0 .. 1 :
            /\ Hits(did, 0) \/ pra = ovl.pra
            /\ Hits(did, 1) \/ ddra = ovl.ddra
            /\ ovl' = [pra |-> pra, ddra |-> ddra]
            /\ IF Hits(did, 0) \/ Hits(did, 1) THEN update_overlay(ovl') ELSE UNCHANGED <<config, banks>>
      BY <2>1 DEF cpu_write
    <2>3. ~config.cia => ~Hits(did, 0) /\ ~Hits(did, 1)
      BY <1>2, NoCiaNoHit
    <2> HIDE DEF did
    <2>4. CASE Hits(did, 0) \/ Hits(did, 1)
      <3>1. set_overlay(OvlPin(ovl')) /\ OvlPin(ovl') \in BOOLEAN
        BY <2>2, <2>4 DEF update_overlay, OvlPin
      <3>2. /\ config' \in ConfigType /\ banks' = rebuild_banks(config')
            /\ config'.overlay = OvlPin(ovl') /\ config'.cia = config.cia
        BY <3>1, OverlaySet
      <3>3. config.cia
        BY <2>3, <2>4 DEF BusInv, ConfigType
      <3> QED BY <1>1, <2>2, <3>2, <3>3 DEF BusInv, OvlPin, PortType
    <2>5. CASE ~Hits(did, 0) /\ ~Hits(did, 1)
      <3>1. ovl' = ovl
        BY <2>2, <2>5 DEF BusInv, PortType
      <3>2. UNCHANGED <<config, banks>>
        BY <2>2, <2>5
      <3> QED BY <1>1, <3>1, <3>2 DEF BusInv, OvlPin
    <2> QED BY <2>4, <2>5
  <1> QED BY <1>2, <1>3, <1>4

\* The cached table is the one the configuration makes, and the overlay is at the level of its pin, always.
THEOREM BusInvAlways == BusSpec => []BusInv
  <1>1. BusInit => BusInv
    BY BusInitially
  <1>2. BusInv /\ [BusNext]_busVars => BusInv'
    <2>1. BusInv /\ UNCHANGED busVars => BusInv'
      BY DEF BusInv, busVars, OvlPin
    <2> QED BY <2>1, BusEventKeeps, BusAccessKeeps, BusServeKeeps DEF BusNext
  <1> QED BY <1>1, <1>2, PTL DEF BusSpec

\* Every access of a program, of any size at any address, reads or writes exactly what the documented map says for
\* what is attached and for the level of the overlay's pin at that time, up to the first cycle nobody answers.
THEOREM BusFollowsItsMapAlways == BusSpec => []BusFollowsItsMap
  <1>1. BusInv => BusFollowsItsMap
    <2>1. ASSUME BusInv, access # NoAccess
          PROVE  AccessRight(access.bytes, access.a, access.write)
      <3>1. access \in Accesses
        BY <2>1 DEF BusInv
      <3>2. access.bytes \in {1, 2, 4} /\ access.a \in Addresses /\ access.write \in BOOLEAN
        BY <3>1, BusAssumption
      <3> QED BY <2>1, <3>2, EveryAccessRight
    <2> QED BY <2>1 DEF BusFollowsItsMap
  <1> QED BY <1>1, BusInvAlways, PTL
=============================================================================
