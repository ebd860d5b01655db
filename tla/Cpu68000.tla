------------------------------ MODULE Cpu68000 ------------------------------
(***************************************************************************)
(* The control side of the 68000 (cpu68000.cpp): the status register and   *)
(* the two stack pointers, instruction fetch, the effective addresses with *)
(* their effect on A7, the address checks, the exceptions with the frames  *)
(* they stack, interrupts, STOP, and the errors that halt the CPU: the     *)
(* double bus fault, and an access that nothing on the bus answers         *)
(* (memory_bus.cpp), which machine.cpp turns into a halted CPU.  A step()  *)
(* is atomic; the interrupt inputs change, and the CPU is reset, between   *)
(* steps.                                                                  *)
(*                                                                         *)
(* Data is abstracted: registers other than A7, the condition codes and    *)
(* what memory holds outside exception frames are any value (what the      *)
(* instructions compute is Alu68000's).  A handler without a control       *)
(* effect of its own is the set of formats it accepts: the words it        *)
(* fetches and the operands it reads, writes or modifies, in order.        *)
(***************************************************************************)
EXTENDS Integers, Sequences, FiniteSets

CONSTANTS
  AddressSpace,    (* Addresses wrap at it: 2^32 on the chip.              *)
  Levels,          (* Interrupt levels used, of 0 .. 7.                    *)
  Unmapped,        (* Byte addresses that nothing on the bus answers.      *)
  Targets,         (* Where jumps, vectors and the reset vector lead.      *)
  Pointers,        (* Values programs load in A7 ...                       *)
  SrWrites,        (* ... and in SR.                                       *)
  DataAddresses,   (* Where operands not addressed through A7 are.         *)
  MovemCounts,     (* Registers in a MOVEM's list.                         *)
  Displacements,   (* Of LINK.                                             *)
  UserStack, SystemStack, Code, MaxFrames   (* Bounds, see InBounds.       *)

Addresses == 0 .. AddressSpace - 1
Plus(a, n) == (a + n) % AddressSpace
Odd(a)     == a % 2 = 1
None       == [none |-> TRUE]
Unknown    == [is |-> "any"]
SrValues   == [s : BOOLEAN, t : BOOLEAN, mask : Levels]

ASSUME CpuAssumption ==
  /\ SrWrites \subseteq SrValues
  /\ AddressSpace \in Nat /\ AddressSpace % 2 = 0 /\ AddressSpace >= 16
  /\ Levels \subseteq 0 .. 7 /\ {0, 7} \subseteq Levels
  /\ Targets \cup Pointers \cup DataAddresses \cup Unmapped \subseteq Addresses
  /\ UserStack \cup SystemStack \cup Code \subseteq Addresses
  /\ MovemCounts \subseteq 0 .. 16 /\ Displacements \subseteq Int
  /\ MaxFrames \in Nat

VARIABLES
  cpu,      (* Its registers (a7, the other stack pointer, pc, sr), the    *)
            (* interrupt level and the NMI edge seen, stopped, the error   *)
            (* it is halted by ("no" while it runs), inAddressError; what  *)
            (* memory holds, where it is known.  While an instruction runs *)
            (* also instructionPc, the AddressFault or BusError thrown,    *)
            (* the words written, and the exception frame stacked.         *)
  frames    (* History: exception frames not yet unwound, abandoned (A7    *)
            (* moved past them) or written over, with where they return.   *)

vars == <<cpu, frames>>

Usp(c) == IF c.sr.s THEN c.otherSp ELSE c.a7
Ssp(c) == IF c.sr.s THEN c.a7 ELSE c.otherSp

-----------------------------------------------------------------------------
(* Memory.  Each operator leaves a CPU that has thrown as it is.           *)

BusError      == [bus |-> TRUE]
Thrown(c)     == c.fault # None
Panicked(c)   == c.fault = BusError
Halted(c)     == c.halted # "no"
DataFault(c)  == [c EXCEPT !.fault = [fetch |-> FALSE]]
FetchFault(c) == [c EXCEPT !.fault = [fetch |-> TRUE]]
Panic(c)      == [c EXCEPT !.fault = BusError]

\* A word is answered by whatever answers either of its bytes (read_io16).
Silent(a)   == {a, Plus(a, 1)} \subseteq Unmapped
Words(a, n) == {Plus(a, 2 * (i - 1)) : i \in 1 .. n}

\* The accesses to n words at a, whatever they transfer, may throw.
Reach(c, a, n) ==
  IF Thrown(c) \/ n = 0 THEN c
  ELSE IF Odd(a) THEN DataFault(c)
  ELSE IF \E b \in Words(a, n) : Silent(b) THEN Panic(c) ELSE c
ReachByte(c, a) == IF Thrown(c) \/ a \notin Unmapped THEN c ELSE Panic(c)

fetch16(c) ==
  IF Thrown(c) THEN c
  ELSE IF Odd(c.pc) THEN FetchFault(c)
  ELSE IF Silent(c.pc) THEN Panic(c) ELSE [c EXCEPT !.pc = Plus(@, 2)]
FetchWords(c, n) == CASE n = 0 -> c [] n = 1 -> fetch16(c) [] OTHER -> fetch16(fetch16(c))

\* write_memory of the words w: a word, a long, or MOVEM's list of them.
\* Which of them went out before a BusError is left out: no step follows it,
\* and a reset forgets what memory holds.
WriteWords(c, a, w) ==
  LET d       == Reach(c, a, Len(w))
      written == Words(a, Len(w))
      Index(b) == ((b - a) % AddressSpace) \div 2 + 1
  IN IF Thrown(d) THEN d
     ELSE [d EXCEPT !.mem   = [b \in DOMAIN @ \cup written |-> IF b \in written THEN w[Index(b)] ELSE @[b]],
                    !.wrote = @ \cup written]

Push(c, w) ==
  IF Thrown(c) THEN c
  ELSE WriteWords([c EXCEPT !.a7 = Plus(@, -2 * Len(w))], Plus(c.a7, -2 * Len(w)), w)
push16(c, w)  == Push(c, <<w>>)
push32(c, pc) == Push(c, <<[is |-> "pcHi", pc |-> pc], [is |-> "pcLo", pc |-> pc]>>)
PushData(c)   == Push(c, <<Unknown, Unknown>>)

\* What a read may return: what was stacked there, or anything.
Holds(c, a, what) == a \in DOMAIN c.mem /\ c.mem[a].is = what
LongsAt(c, a) ==
  IF Holds(c, a, "pcHi") /\ Holds(c, Plus(a, 2), "pcLo") /\ c.mem[a].pc = c.mem[Plus(a, 2)].pc
    THEN {c.mem[a].pc} ELSE Targets
SrsAt(c, a) == IF Holds(c, a, "sr") THEN {c.mem[a].sr} ELSE SrWrites

\* A7 moves once the words are read.
Popped(c, n) == LET d == Reach(c, c.a7, n) IN IF Thrown(d) THEN d ELSE [d EXCEPT !.a7 = Plus(@, 2 * n)]
pop16(c) == {[cpu |-> Popped(c, 1), value |-> sr] : sr \in SrsAt(c, c.a7)}
pop32(c) == {[cpu |-> Popped(c, 2), value |-> v] : v \in LongsAt(c, c.a7)}

JumpTo(c, target) == IF Thrown(c) THEN c ELSE [c EXCEPT !.pc = target]

-----------------------------------------------------------------------------
(* Status register and exceptions.                                         *)

\* A mutant: the other stack pointer is not brought in.
SrAlone(c, new) == [c EXCEPT !.sr = new]
set_sr(c, new) ==
  IF new.s = c.sr.s THEN [c EXCEPT !.sr = new]
  ELSE [c EXCEPT !.sr = new, !.a7 = c.otherSp, !.otherSp = c.a7]

\* The history of the frame just stacked.
Stacked(c, e, returnPc) ==
  IF Thrown(e) THEN e
  ELSE [e EXCEPT !.frame = [at |-> e.a7, pc |-> returnPc, sr |-> c.sr]]

\* A mutant: the frame holds the status register as the handler has it.
StacksNewSr(c, returnPc) ==
  LET super == set_sr(c, [c.sr EXCEPT !.s = TRUE, !.t = FALSE])
      e     == push16(push32(super, returnPc), [is |-> "sr", sr |-> super.sr])
  IN {JumpTo(Stacked(c, e, returnPc), v) : v \in Targets}
exception(c, returnPc) ==
  LET super == set_sr(c, [c.sr EXCEPT !.s = TRUE, !.t = FALSE])
      e     == push16(push32(super, returnPc), [is |-> "sr", sr |-> c.sr])
  IN {JumpTo(Stacked(c, e, returnPc), v) : v \in Targets}

take_interrupt(c, level) ==
  LET super == set_sr(c, [s |-> TRUE, t |-> FALSE, mask |-> level])
      e     == push16(push32(super, c.pc), [is |-> "sr", sr |-> c.sr])
  IN {JumpTo(Stacked(c, e, c.pc), v) : v \in Targets}

privilege_violation(c) == exception(c, c.instructionPc)

\* Group 0: the opcode, the address and the status word lie below PC and SR.
\* An address fault while they are stacked is the double bus fault; a
\* BusError leaves inAddressError set, and not even a reset clears it.
address_error(c) ==
  LET caught == [c EXCEPT !.fault = None]
      super  == set_sr(caught, [c.sr EXCEPT !.s = TRUE, !.t = FALSE])
      pc     == IF c.fault.fetch THEN c.pc ELSE Plus(c.instructionPc, 2)
      e      == push16(push32(super, pc), [is |-> "sr", sr |-> c.sr])
      whole  == push16(PushData(push16(Stacked(caught, e, pc), Unknown)), Unknown)
  IN IF c.inAddressError THEN {[caught EXCEPT !.inAddressError = FALSE, !.halted = "DoubleBusFault"]}
     ELSE IF Panicked(whole) THEN {[whole EXCEPT !.fault = None, !.inAddressError = TRUE, !.halted = "BusError"]}
     ELSE IF Thrown(whole) THEN {[whole EXCEPT !.fault = None, !.stopped = TRUE, !.halted = "DoubleBusFault"]}
     ELSE {JumpTo(whole, v) : v \in Targets}

-----------------------------------------------------------------------------
(* Effective addresses.  To a CPU that only cares for A7 and the address    *)
(* checks, a mode is: no memory, memory at any address, or memory through   *)
(* A7; and a number of extension words.                                     *)

Sizes == {1, 2, 4}

EaAll  == {"Dn", "An", "(An)", "(An)+", "-(An)", "d16(An)", "d8(An,Xn)", "abs.W", "abs.L",
           "d16(PC)", "d8(PC,Xn)", "#imm"}
EaData             == EaAll \ {"An"}
EaAlterable        == EaAll \ {"d16(PC)", "d8(PC,Xn)", "#imm"}
EaDataAlterable    == EaAlterable \ {"An"}
EaMemoryAlterable  == EaDataAlterable \ {"Dn"}
EaControl          == EaAll \ {"Dn", "An", "(An)+", "-(An)", "#imm"}
EaControlAlterable == EaControl \cap EaAlterable

\* decode_ea, what a mode can be: the register of (An), (An)+ or -(An) is A7 or not.
Shapes(mode, size) ==
  CASE mode \in {"Dn", "An"} -> {[via |-> "register", ext |-> 0]}
    [] mode = "(An)"         -> {[via |-> v, ext |-> 0] : v \in {"memory", "(A7)"}}
    [] mode = "(An)+"        -> {[via |-> v, ext |-> 0] : v \in {"memory", "(A7)+"}}
    [] mode = "-(An)"        -> {[via |-> v, ext |-> 0] : v \in {"memory", "-(A7)"}}
    [] mode = "abs.L"        -> {[via |-> "memory", ext |-> 2]}
    [] mode = "#imm"         -> {[via |-> "register", ext |-> IF size = 4 THEN 2 ELSE 1]}
    [] OTHER                 -> {[via |-> "memory", ext |-> 1]}

\* decode_ea: the CPU afterwards and the address, -1 when the operand is not
\* in memory.  Bytes through A7 keep the stack word-aligned.
\* A mutant: A7 is a register like the others.
OwnStep(size) == size
StepOf(size) == IF size = 1 THEN 2 ELSE size

decode_ea(c, x) ==
  LET d     == FetchWords(c, x.ext)
      moved == Plus(d.a7, IF x.via = "(A7)+" THEN StepOf(x.size) ELSE -StepOf(x.size))
  IN CASE x.via = "register" -> {[cpu |-> d, at |-> -1]}
       [] x.via = "memory"   -> {[cpu |-> d, at |-> a] : a \in DataAddresses}
       [] x.via = "(A7)"     -> {[cpu |-> d, at |-> d.a7]}
       [] x.via = "(A7)+"    -> {[cpu |-> [d EXCEPT !.a7 = moved], at |-> d.a7]}
       [] x.via = "-(A7)"    -> {[cpu |-> [d EXCEPT !.a7 = moved], at |-> moved]}

\* read_ea, write_ea of an operand of the given size at the decoded address.
ReadAt(c, at, size) ==
  IF at = -1 THEN c ELSE IF size = 1 THEN ReachByte(c, at) ELSE Reach(c, at, size \div 2)
WriteAt(c, at, size) ==
  IF at = -1 THEN c
  ELSE IF size = 1 THEN WriteWords(ReachByte(c, at), at - (at % 2), <<Unknown>>)
  ELSE WriteWords(c, at, IF size = 2 THEN <<Unknown>> ELSE <<Unknown, Unknown>>)

\* One operand: "address" takes its address only, "modify" reads and writes it.
Access(c, x) ==
  IF Thrown(c) THEN {c}
  ELSE {CASE x.do = "address" -> e.cpu
          [] x.do = "read"    -> ReadAt(e.cpu, e.at, x.size)
          [] x.do = "write"   -> WriteAt(e.cpu, e.at, x.size)
          [] x.do = "modify"  -> WriteAt(ReadAt(e.cpu, e.at, x.size), e.at, x.size) :
        e \in decode_ea(c, x)}
Accessed(c, operands) == IF operands = {} THEN {c} ELSE UNION {Access(c, x) : x \in operands}

-----------------------------------------------------------------------------
(* The formats of the handlers that move and compute data.  Byte operands   *)
(* in An are excluded by the dispatch table; to the control they are Dn.    *)

Operand(do, modes, sizes) ==
  UNION {{[do |-> do, via |-> s.via, ext |-> s.ext, size |-> z] : s \in Shapes(m, z)} :
         m \in modes, z \in sizes}
\* At most two operands, each one of a set; none when the set is empty.
Format(words, first, second, loadsA) ==
  [words |-> words, first |-> first, second |-> second, loadsA |-> loadsA]
Formats(operands)    == {Format(0, {x}, {}, FALSE) : x \in operands}
LoadingA(operands)   == {Format(0, {x}, {}, TRUE) : x \in operands}
Pairs(first, second) == {Format(0, first, second, FALSE)}
InRegisters(words)   == {Format(words, {}, {}, FALSE)}
After(words, formats) == {[f EXCEPT !.words = words] : f \in formats}

op_move ==
  LoadingA(Operand("read", EaAll, {2, 4})) \cup
  UNION {Pairs(Operand("read", EaAll, {z}), Operand("write", EaDataAlterable, {z})) : z \in Sizes}
op_moveq == InRegisters(0)
op_movep ==   \* two or four bytes, at every other address: two stand for all
  {Format(1, x, x, FALSE) : x \in {Operand(do, {"(An)"}, {1}) : do \in {"read", "write"}}}
op_lea   == LoadingA(Operand("address", EaControl, {4}))
op_exg   == {Format(0, {}, {}, loads) : loads \in BOOLEAN}
op_swap  == InRegisters(0)

op_add_sub ==
  LoadingA(Operand("read", EaAll, {2, 4}))
  \cup Formats(Operand("read", EaAll, Sizes) \cup Operand("modify", EaMemoryAlterable, Sizes))
op_addq_subq ==
  {Format(0, {}, {}, TRUE)} \cup Formats(Operand("modify", EaDataAlterable, Sizes))
op_addx_subx ==
  InRegisters(0) \cup
  UNION {Pairs(Operand("read", {"-(An)"}, {z}), Operand("modify", {"-(An)"}, {z})) : z \in Sizes}
op_cmp  == Formats(Operand("read", EaAll, Sizes))
op_cmpa == Formats(Operand("read", EaAll, {2, 4}))
op_cmpm == UNION {Pairs(Operand("read", {"(An)+"}, {z}), Operand("read", {"(An)+"}, {z})) : z \in Sizes}
op_immediate ==   \* the immediate comes before the extension words
  UNION {After(IF z = 4 THEN 2 ELSE 1, Formats(Operand(do, EaDataAlterable, {z}))) :
         z \in Sizes, do \in {"read", "modify"}}
op_neg_not_clr == Formats(Operand("modify", EaDataAlterable, Sizes) \cup Operand("write", EaDataAlterable, Sizes))
op_ext  == InRegisters(0)
op_mul  == Formats(Operand("read", EaData, {2}))
op_abcd_sbcd == InRegisters(0) \cup Pairs(Operand("read", {"-(An)"}, {1}), Operand("modify", {"-(An)"}, {1}))
op_nbcd == Formats(Operand("modify", EaDataAlterable, {1}))

op_and_or == Formats(Operand("read", EaData, Sizes) \cup Operand("modify", EaMemoryAlterable, Sizes))
op_eor  == Formats(Operand("modify", EaDataAlterable, Sizes))
op_tst  == Formats(Operand("read", EaDataAlterable, Sizes))
op_tas  == Formats(Operand("modify", EaDataAlterable, {1}))
op_shift_register == InRegisters(0)
op_shift_memory   == Formats(Operand("modify", EaMemoryAlterable, {2}))
bit_operation(modes) == Formats(Operand("read", modes, {1}) \cup Operand("modify", EaDataAlterable, {1}))
op_bit_dynamic    == bit_operation(EaData)
op_bit_static     == After(1, bit_operation(EaData \ {"#imm"}))
op_scc  == Formats(Operand("write", EaDataAlterable, {1}))
op_nop  == InRegisters(0)
op_move_from_sr == Formats(Operand("write", EaDataAlterable, {2}))
op_move_to_ccr  == Formats(Operand("read", EaData, {2}))
op_logic_to_ccr == InRegisters(1)

DataInstructions ==
  op_move \cup op_moveq \cup op_movep \cup op_lea \cup op_exg \cup op_swap \cup op_add_sub
  \cup op_addq_subq \cup op_addx_subx \cup op_cmp \cup op_cmpa \cup op_cmpm \cup op_immediate
  \cup op_neg_not_clr \cup op_ext \cup op_mul \cup op_abcd_sbcd \cup op_nbcd \cup op_and_or
  \cup op_eor \cup op_tst \cup op_tas \cup op_shift_register \cup op_shift_memory
  \cup op_bit_dynamic \cup op_bit_static \cup op_scc \cup op_nop \cup op_move_from_sr
  \cup op_move_to_ccr \cup op_logic_to_ccr

\* An address register is loaded: it is A7 or another one.
LoadA(c) == IF Thrown(c) THEN {c} ELSE {c} \cup {[c EXCEPT !.a7 = v] : v \in Pointers}

Operate(c, f) ==
  LET done == UNION {Accessed(d, f.second) : d \in Accessed(FetchWords(c, f.words), f.first)}
  IN IF f.loadsA THEN UNION {LoadA(d) : d \in done} ELSE done

-----------------------------------------------------------------------------
(* The handlers with a control effect of their own: the CPUs they may lead  *)
(* to from one that has fetched the instruction word.                       *)

ControlAddress      == Operand("address", EaControl, {4})
ControlAlterAddress == Operand("address", EaControlAlterable, {4})
WordSource          == Operand("read", EaData, {2})

Unknowns(n)           == [i \in 1 .. n |-> Unknown]

\* The mask comes first.  -(An) and (An)+ write An back at the end, over
\* what the list loaded; -(A7), (A7)+ are those of A7, An's are any memory.
Movem(c, n, size) ==
  LET count == (n * size) \div 2
      low   == Plus(c.a7, -2 * count)
      saved == WriteWords(c, low, Unknowns(count))
      Located(operands) == UNION {decode_ea(c, x) : x \in operands}
      Loaded(e) == IF n > 0 THEN LoadA(Reach(e.cpu, e.at, count)) ELSE {e.cpu}
  IN {IF Thrown(saved) THEN saved ELSE [saved EXCEPT !.a7 = low], Popped(c, count)}
     \cup {WriteWords(e.cpu, e.at, Unknowns(count)) : e \in Located(ControlAlterAddress)}
     \cup (UNION {Loaded(e) : e \in Located(ControlAddress)})
op_movem(c) == UNION {Movem(FetchWords(c, 1), n, z) : n \in MovemCounts, z \in {2, 4}}

op_pea(c)  == {PushData(d) : d \in Accessed(c, ControlAddress)}
op_link(c) == LET p == PushData(FetchWords(c, 1))
              IN {IF Thrown(p) THEN p ELSE [p EXCEPT !.a7 = Plus(@, n)] : n \in Displacements}
op_unlk(c) == LET popped(v) == pop32([c EXCEPT !.a7 = v])
              IN (UNION {{p.cpu : p \in popped(v)} : v \in Pointers})
                 \cup (UNION {LoadA(p.cpu) : p \in popped(c.a7)})

op_bcc(c) ==   \* not taken, taken, and BSR
  UNION {LET d == FetchWords(c, word)
         IN {d} \cup {JumpTo(d, t) : t \in Targets} \cup {JumpTo(push32(d, d.pc), t) : t \in Targets} :
         word \in {0, 1}}
op_dbcc(c) == LET d == FetchWords(c, 1) IN {d} \cup {JumpTo(d, t) : t \in Targets}
op_jmp(c)  == {JumpTo(d, t) : d \in Accessed(c, ControlAddress), t \in Targets}
op_jsr(c)  == {JumpTo(push32(d, d.pc), t) :
               d \in Accessed(c, ControlAddress), t \in Targets}
op_rts(c)  == {JumpTo(p.cpu, p.value) : p \in pop32(c)}
op_rtr(c)  == UNION {{JumpTo(q.cpu, q.value) : q \in pop32(p.cpu)} : p \in pop16(c)}
op_trap(c)    == exception(c, c.pc)
op_trapv(c)   == {c} \cup exception(c, c.pc)
op_illegal(c) == exception(c, c.instructionPc)

\* CHK, and the zero divide of DIVU and DIVS, after the operand is read.
Checked(c) == UNION {IF Thrown(d) THEN {d} ELSE {d} \cup exception(d, d.pc) :
                     d \in Accessed(c, WordSource)}
op_chk(c) == Checked(c)
op_div(c) == Checked(c)

Privileged(c, outcomes) ==
  IF Thrown(c) THEN {c} ELSE IF c.sr.s THEN outcomes ELSE privilege_violation(c)

op_rte(c) ==
  Privileged(c, UNION {{IF Thrown(q.cpu) THEN q.cpu ELSE [set_sr(q.cpu, p.value) EXCEPT !.pc = q.value] :
                        q \in pop32(p.cpu)} : p \in pop16(c)})

\* A mutant: the check of the S bit is left out.
MovesToSrAnyway(c) ==
  {IF Thrown(d) THEN d ELSE set_sr(d, v) : d \in Accessed(c, WordSource), v \in SrWrites}
op_move_to_sr(c) ==
  Privileged(c, {IF Thrown(d) THEN d ELSE set_sr(d, v) :
                 d \in Accessed(c, WordSource), v \in SrWrites})
op_move_usp(c) ==
  Privileged(c, {c, [c EXCEPT !.a7 = c.otherSp], [c EXCEPT !.otherSp = c.a7]}
                \cup {[c EXCEPT !.otherSp = v] : v \in Pointers})
op_logic_to_sr(c) == LET d == FetchWords(c, 1) IN Privileged(d, {set_sr(d, v) : v \in SrWrites})
op_stop(c) ==
  LET d == FetchWords(c, 1)
  IN Privileged(d, {[set_sr(d, v) EXCEPT !.stopped = TRUE] : v \in SrWrites})
op_reset(c) == Privileged(c, {c})

-----------------------------------------------------------------------------
(* The CPU's steps.                                                         *)

Extent(f) == {f.at, Plus(f.at, 2), Plus(f.at, 4)}

\* Bounds: the stack pointers stay in their areas and the program in its
\* code, at most MaxFrames exceptions are pending.
InBounds(c, live) ==
  /\ Usp(c) \in UserStack /\ Ssp(c) \in SystemStack /\ c.pc \in Code \cup Targets
  /\ Cardinality(live) <= MaxFrames

\* Memory is remembered where live frames are; elsewhere it may hold anything.
\* A CPU that has halted will not return to any.
Becomes(c) ==
  LET live == IF Halted(c) THEN {}
              ELSE {f \in frames : Extent(f) \cap c.wrote = {} /\ f.at >= Ssp(c)}
                   \cup ({c.frame} \ {None})
      kept == UNION {Extent(f) : f \in live}
  IN /\ Halted(c) \/ InBounds(c, live)
     /\ cpu' = [c EXCEPT !.frame = None, !.wrote = {}, !.instructionPc = 0,
                         !.mem = [a \in kept |-> @[a]]]
     /\ frames' = live

\* step() catches an AddressFault, Machine::run_frame a BusError.
Caught(c) ==
  IF Panicked(c) THEN {[c EXCEPT !.fault = None, !.halted = "BusError"]}
  ELSE IF Thrown(c) THEN address_error(c) ELSE {c}
Settle(outcomes) == \E c \in outcomes : \E e \in Caught(c) : Becomes(e)

Interrupted == cpu.nmiPending \/ cpu.ipl > cpu.sr.mask
Executing   == ~Halted(cpu) /\ ~Interrupted /\ ~cpu.stopped
Fetched     == FetchWords([cpu EXCEPT !.instructionPc = cpu.pc], 1)

\* Machine: reset() writes SR without exchanging the stack pointers.
Reset ==
  \E sp \in Pointers, pc \in Targets :
    /\ InBounds([cpu EXCEPT !.a7 = sp, !.sr.s = TRUE], {})
    /\ cpu' = [cpu EXCEPT !.sr = [s |-> TRUE, t |-> FALSE, mask |-> 7], !.stopped = FALSE,
                          !.halted = "no", !.a7 = sp, !.pc = pc,
                          !.mem = [a \in {} |-> Unknown]]
    /\ frames' = {}

\* The level rises only while one more interrupt can be taken (a bound).
set_interrupt_level(level) ==
  /\ ~Halted(cpu)
  /\ level > cpu.ipl => Cardinality(frames) < MaxFrames
  /\ cpu' = [cpu EXCEPT !.nmiPending = @ \/ (level = 7 /\ cpu.ipl # 7), !.ipl = level]
  /\ UNCHANGED frames

TakeInterrupt ==
  /\ ~Halted(cpu) /\ Interrupted
  /\ LET awake == [cpu EXCEPT !.nmiPending = FALSE, !.stopped = FALSE]
     IN Settle(take_interrupt(awake, IF cpu.nmiPending THEN 7 ELSE cpu.ipl))

Idle == /\ Halted(cpu) \/ (~Interrupted /\ cpu.stopped)
        /\ UNCHANGED vars

FetchThrows == Executing /\ Thrown(Fetched) /\ Settle({Fetched})

Execute(outcomes) == Executing /\ ~Thrown(Fetched) /\ Settle(outcomes)

Compute == Execute(UNION {Operate(Fetched, f) : f \in DataInstructions})
Movems  == Execute(op_movem(Fetched))
PushAddress == Execute(op_pea(Fetched) \cup op_link(Fetched))
Unlink  == Execute(op_unlk(Fetched))
Branch  == Execute(op_bcc(Fetched) \cup op_dbcc(Fetched) \cup op_jmp(Fetched) \cup op_jsr(Fetched)
                   \cup op_rts(Fetched) \cup op_rtr(Fetched))
Trap    == Execute(op_trap(Fetched) \cup op_trapv(Fetched) \cup op_illegal(Fetched)
                   \cup op_chk(Fetched) \cup op_div(Fetched))
ReturnFromException == Execute(op_rte(Fetched))
System  == Execute(op_move_to_sr(Fetched) \cup op_move_usp(Fetched) \cup op_logic_to_sr(Fetched)
                   \cup op_stop(Fetched) \cup op_reset(Fetched))

Init ==
  \E sp \in Pointers \cap SystemStack, start \in Targets :
    /\ cpu = [sr |-> [s |-> TRUE, t |-> FALSE, mask |-> 7], a7 |-> sp, otherSp |-> 0,
              pc |-> start, instructionPc |-> 0, ipl |-> 0, nmiPending |-> FALSE,
              stopped |-> FALSE, halted |-> "no", inAddressError |-> FALSE, mem |-> [a \in {} |-> Unknown],
              fault |-> None, wrote |-> {}, frame |-> None]
    /\ frames = {}

Steps == TakeInterrupt \/ Idle \/ FetchThrows \/ Compute \/ Movems \/ PushAddress \/ Unlink \/ Branch \/ Trap
         \/ ReturnFromException \/ System
Next == Steps \/ Reset \/ \E level \in Levels : set_interrupt_level(level)
Spec == Init /\ [][Next]_vars

-----------------------------------------------------------------------------
(* Properties.                                                              *)

Stacks2 == INSTANCE TwoStacks WITH
  usp <- Usp(cpu), ssp <- Ssp(cpu), supervisor <- cpu.sr.s, FrameSizes <- {6, 14}

\* The single A7 with its shadow implements the two stack pointers of the
\* programmer's model: no instruction, exception or fault mixes them up.
\* (A reset in user mode does, and a CPU that halts has lost them.)
ImplementsTwoStacks == [][Stacks2!Next \/ Halted(cpu') \/ Reset]_vars

\* RTE on an exception frame that the handler has neither moved past nor
\* written over returns to the interrupted program, with its status register
\* and the stack as they were, whatever happened in between, nested
\* exceptions and faults included.
ReturnsWhereItLeft ==
  [][\A f \in frames :
       cpu.sr.s /\ cpu.a7 = f.at /\ ReturnFromException =>
         cpu'.pc = f.pc /\ cpu'.sr = f.sr /\ Ssp(cpu') = Plus(f.at, 6)]_vars

\* In user mode a program cannot change the mask, trace or stop the CPU; it
\* becomes supervisor only by an exception, which stacks its status register
\* just below where SSP was.
UserContained ==
  [][~cpu.sr.s =>
       \/ cpu'.sr = cpu.sr /\ cpu'.stopped = cpu.stopped
       \/ Halted(cpu')
       \/ cpu'.sr.s /\ ~cpu'.sr.t /\ \E f \in frames' : f.sr = cpu.sr /\ f.at = Plus(Ssp(cpu), -6)
       \/ Reset]_vars

\* n bytes below SSP are answered.
Room(n) == \A i \in 1 .. n : Plus(Ssp(cpu), -i) \notin Unmapped

\* While SSP is even the CPU can always stack an exception, where memory is:
\* it has no double bus fault (but in UNLK, which loads A7 before it reads,
\* or when a BusError has left inAddressError set), an interrupt or a jump to
\* an odd address does not halt it, and no operand addressed through A7 makes
\* SSP odd, bytes included: only loading an odd value does, from USP too, or
\* LINK with an odd displacement.
StackStaysAligned ==
  [][~Odd(Ssp(cpu)) =>
       /\ cpu'.halted = "DoubleBusFault" => Halted(cpu) \/ Unlink \/ cpu.inAddressError
       /\ TakeInterrupt /\ Room(6) => ~Halted(cpu')
       /\ FetchThrows /\ Odd(cpu.pc) /\ Room(14) /\ ~cpu.inAddressError => ~Halted(cpu')
       /\ Odd(Ssp(cpu')) =>
            \/ Halted(cpu')
            \/ Ssp(cpu') \in Pointers
            \/ System /\ Ssp(cpu') = Usp(cpu)
            \/ PushAddress /\ \E n \in Displacements : Ssp(cpu') = Plus(cpu.a7, n - 4)]_vars

\* Violated.  README.md: the CPU takes a bus error exception when nothing answers an
\* access.  It halts.
TakesBusErrors == [][cpu'.halted = "BusError" => Halted(cpu)]_vars
=============================================================================
