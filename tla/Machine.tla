------------------------------ MODULE Machine ------------------------------
(***************************************************************************)
(* The run loop (machine.cpp) that puts the CPU and the custom chips on    *)
(* one timeline, with the interrupt path through it: Paula's requests and  *)
(* their levels (paula.hpp), the level the loop samples for the CPU, and   *)
(* the CPU taking interrupts (cpu68000.cpp).  What the program executes is *)
(* its own choice: of an instruction the model keeps its cycles and its    *)
(* effect on the interrupt path.                                           *)
(***************************************************************************)
EXTENDS Integers

CONSTANTS
  Costs,          (* Cycles an instruction or an interrupt entry may take. *)
  ClockCycles,    (* kCpuCyclesPerColorClock.                              *)
  FrameClocks,    (* kPalColorClocksPerFrame.                              *)
  EClock,         (* kColorClocksPerEClock.                                *)
  Masks           (* Interrupt masks the program loads into SR.            *)

\* Two of Paula's sources: /IRQ of CIA-A, and the vertical blank.
Sources == {"PORTS", "VERTB"}

ASSUME MachineAssumption ==
  /\ Costs \subseteq Nat \ {0}
  /\ ClockCycles \in Nat \ {0} /\ FrameClocks \in Nat \ {0} /\ EClock \in Nat \ {0}
  /\ Masks \subseteq 0 .. 7

VARIABLES
  turn,                (* "run" inside run_frame, "host" between frames.   *)
  lead,                (* cpu_time_ - chip_time_.                          *)
  halted,              (* cpu_halted_.                                     *)
  clock, divider       (* Color clocks into the frame; e_clock_divider_.   *)

VARIABLES
  intreq, intena,      (* Paula's requests, and the sources enabled.       *)
  irqLine              (* CIA-A's /IRQ is asserted.                        *)

VARIABLES
  sampled,             (* sampled_ipl_.                                    *)
  mask, stopped        (* The CPU's interrupt mask; it executed STOP.      *)

VARIABLES              (* History:                                         *)
  fresh,               (* Requests raised and not yet taken.               *)
  recent,              (* Requests active only since the last step began.  *)
  due,                 (* Those of fresh that were active when it began.   *)
  sloppy,              (* The program lowered its mask over a request it   *)
                       (* had been interrupted for and not cleared.        *)
  taken                (* Level of the interrupt the last step took, or 0. *)

time    == <<turn, lead, halted, clock, divider>>
paula   == <<intreq, intena>>
cpu     == <<mask, stopped>>
history == <<fresh, recent, due, sloppy, taken>>
vars    == <<time, paula, irqLine, sampled, cpu, history>>

Level(s) == IF s = "VERTB" THEN 3 ELSE 2

Active(requests, enabled) == requests \cap enabled

\* Paula::interrupt_level: the highest enabled pending request.
Pending(s) == s \in Active(intreq, intena)

LowestFirst ==  \* a mutant: the sources are tried from the lowest level up
  IF Pending("PORTS") THEN 2 ELSE IF Pending("VERTB") THEN 3 ELSE 0
InterruptLevel ==
  IF Pending("VERTB") THEN 3 ELSE IF Pending("PORTS") THEN 2 ELSE 0

Init ==
  /\ turn = "host" /\ lead = 0 /\ halted = FALSE /\ clock = 0 /\ divider = 0
  /\ intreq = {} /\ intena = {} /\ irqLine = FALSE
  /\ sampled = 0 /\ mask = 7 /\ stopped = FALSE
  /\ fresh = {} /\ recent = {} /\ due = {} /\ sloppy = FALSE /\ taken = 0

-----------------------------------------------------------------------------
(* The CPU: one step when it is not ahead of the chips.                    *)

CpuTurn == turn = "run" /\ ~halted /\ lead <= 0

NotSampled == InterruptLevel  \* a mutant: the CPU sees Paula's present level
CpuLevel   == sampled

\* Requests that become active during a step: a source just enabled, or raised.
Activated(requests, enabled) == Active(requests, enabled) \ Active(intreq, intena)

Spend(cycles) == lead' = lead + cycles /\ UNCHANGED <<turn, clock, divider>>

\* The loop freezes a CPU that threw: it spends no cycles from here on.
Freeze == halted' = TRUE /\ UNCHANGED <<turn, lead, clock, divider>>

\* take_interrupt: the mask rises to the level.
TakeInterrupt ==
  /\ CpuLevel > mask
  /\ mask' = CpuLevel
  /\ \/ stopped' = FALSE /\ UNCHANGED halted /\ \E cycles \in Costs : Spend(cycles)
     \/ stopped' = TRUE /\ Freeze  \* stacking the frame double-faults
  /\ taken' = CpuLevel
  /\ fresh' = fresh \ {s \in Sources \ recent : Level(s) = CpuLevel}
  /\ recent' = {}
  /\ UNCHANGED <<paula, irqLine, sloppy>>

\* A stopped CPU idles until an interrupt.
NoCycles   == {0}  \* a mutant: idling takes no time
IdleCycles == {4}

Idle ==
  /\ CpuLevel <= mask /\ stopped
  /\ \E cycles \in IdleCycles : Spend(cycles)
  /\ taken' = 0 /\ recent' = {}
  /\ UNCHANGED <<halted, paula, irqLine, cpu, fresh, sloppy>>

\* INTREQ and INTENA with SET/CLR clear or set.
WriteRequest(s, set) ==
  /\ intreq' = IF set THEN intreq \cup {s} ELSE intreq \ {s}
  /\ fresh' = IF set THEN fresh \cup ({s} \ intreq) ELSE fresh
  /\ UNCHANGED <<intena, irqLine, cpu, sloppy>>

WriteEnable(s, set) ==
  /\ intena' = IF set THEN intena \cup {s} ELSE intena \ {s}
  /\ UNCHANGED <<intreq, irqLine, cpu, fresh, sloppy>>

\* MOVE to SR, RTE, or STOP: the mask comes from data or from the stack.
LoadSr(m, stop) ==
  /\ mask' = m
  /\ stopped' = stop
  /\ sloppy' = (sloppy \/ \E s \in intreq \ fresh : m < mask /\ m < Level(s))
  /\ UNCHANGED <<paula, irqLine, fresh>>

\* Reading the ICR releases /IRQ; the program may also make CIA-A assert it.
Cia(line) ==
  /\ irqLine' = line
  /\ UNCHANGED <<paula, cpu, fresh, sloppy>>

OtherInstruction == UNCHANGED <<paula, irqLine, cpu, fresh, sloppy>>

Instruction ==
  /\ CpuLevel <= mask /\ ~stopped
  /\ \E cycles \in Costs : Spend(cycles)
  /\ \/ \E s \in Sources, set \in BOOLEAN : WriteRequest(s, set) \/ WriteEnable(s, set)
     \/ \E m \in Masks, stop \in BOOLEAN : LoadSr(m, stop)
     \/ \E line \in BOOLEAN : Cia(line)
     \/ OtherInstruction
  /\ taken' = 0
  /\ recent' = Activated(intreq', intena')
  /\ UNCHANGED halted

\* An opcode the CPU does not know, or a double fault, which also stops it.
Panic ==
  /\ CpuLevel <= mask /\ ~stopped
  /\ Freeze
  /\ stopped' \in BOOLEAN
  /\ taken' = 0 /\ recent' = {}
  /\ UNCHANGED <<mask, paula, irqLine, fresh, sloppy>>

Step ==
  /\ CpuTurn
  /\ sampled' = InterruptLevel
  /\ TakeInterrupt \/ Idle \/ Instruction \/ Panic
  /\ due' = Active(intreq, intena) \cap fresh'

-----------------------------------------------------------------------------
(* The chips: one color clock when the CPU is ahead.                       *)

\* Chipset::tick requests VERTB at the start of the frame, tick_e_clock PORTS
\* for as long as /IRQ is asserted.
Requested ==
  (IF clock = 0 THEN {"VERTB"} ELSE {})
  \cup (IF divider + 1 = EClock /\ irqLine THEN {"PORTS"} ELSE {})

DividerLate  == IF divider = EClock THEN 0 ELSE divider + 1  \* a mutant: one too far
DividerAfter == IF divider + 1 = EClock THEN 0 ELSE divider + 1

FrameDone == clock + 1 = FrameClocks

\* Time lost while the CPU was halted is not caught up.
HaltedLate == lead - ClockCycles  \* a mutant: a halted CPU falls behind for good
LeadAfter  == IF FrameDone /\ halted THEN 0 ELSE lead - ClockCycles

ColorClock ==
  /\ turn = "run" /\ (halted \/ lead > 0)
  /\ clock' = IF FrameDone THEN 0 ELSE clock + 1
  /\ divider' = DividerAfter
  /\ lead' = LeadAfter
  /\ turn' = IF FrameDone THEN "host" ELSE "run"
  /\ intreq' = intreq \cup Requested
  /\ fresh' = fresh \cup (Requested \ intreq)
  /\ recent' = recent \cup Activated(intreq', intena)
  /\ UNCHANGED <<halted, intena, irqLine, sampled, cpu, due, sloppy, taken>>

\* CIA-A asserts /IRQ of itself: a timer, the TOD alarm, a serial byte.
CiaInterrupt ==
  /\ turn = "run" /\ ~irqLine
  /\ irqLine' = TRUE
  /\ UNCHANGED <<time, paula, sampled, cpu, history>>

-----------------------------------------------------------------------------
(* The host, between frames.                                               *)

RunFrame ==
  /\ turn = "host"
  /\ turn' = "run"
  /\ UNCHANGED <<lead, halted, clock, divider, paula, irqLine, sampled, cpu, history>>

\* Machine::reset: Paula keeps its requests.
Reset ==
  /\ turn = "host"
  /\ lead' = 0 /\ halted' = FALSE
  /\ sampled' = 0 /\ mask' = 7 /\ stopped' = FALSE
  /\ irqLine' = FALSE
  /\ sloppy' = FALSE /\ taken' = 0
  /\ fresh' = intreq
  /\ recent' = Active(intreq, intena) /\ due' = {}
  /\ UNCHANGED <<turn, clock, divider, paula>>

-----------------------------------------------------------------------------

Next == Step \/ ColorClock \/ CiaInterrupt \/ RunFrame \/ Reset

Spec == Init /\ [][Next]_vars

\* run_frame is a loop: it never stops between its steps.
LiveSpec == Spec /\ WF_vars(Step) /\ WF_vars(ColorClock)

TypeOK ==
  /\ turn \in {"run", "host"} /\ lead \in Int /\ halted \in BOOLEAN
  /\ clock \in 0 .. FrameClocks - 1 /\ divider \in 0 .. EClock - 1
  /\ intreq \subseteq Sources /\ intena \subseteq Sources /\ irqLine \in BOOLEAN
  /\ sampled \in {0, 2, 3} /\ mask \in 0 .. 7 /\ stopped \in BOOLEAN
  /\ fresh \subseteq Sources /\ recent \subseteq Sources /\ due \subseteq Sources
  /\ sloppy \in BOOLEAN /\ taken \in {0, 2, 3}

\* The CPU and the chips never drift apart by more than one instruction, or by
\* the frame in which the CPU was halted.
NoDrift ==
  /\ \E cycles \in Costs \cup IdleCycles : lead <= cycles
  /\ ~halted => lead > -ClockCycles
  /\ halted => lead > -(clock + 1) * ClockCycles

\* An interrupt is taken for a request that was up before the last step began,
\* which left a polling program an instruction to see the bit, and that was not
\* taken before: a program that clears a request before it lowers its mask is
\* interrupted once for it, though the level the CPU acts on is a step old.
OncePerRequest ==
  [][taken' # 0 /\ Step /\ ~sloppy => \E s \in due : Level(s) = taken']_vars

\* A request active since before the previous step began, above the mask, is not
\* passed over: the CPU takes an interrupt of at least its level.
NotPassedOver ==
  [][Step => \A s \in Active(intreq, intena) \ recent :
       Level(s) > mask => taken' >= Level(s)]_vars

\* Every run_frame comes to its end: each step of the CPU takes time, also when it
\* is stopped, and a halted CPU does not stop the chips.
FrameEnds == turn = "run" ~> turn = "host"
=============================================================================
