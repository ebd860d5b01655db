------------------------------ MODULE MemoryBus ------------------------------
(***************************************************************************)
(* The memory bus (memory_bus.hpp, memory_bus.cpp), with the part of the    *)
(* CIAs that answers on it and drives the overlay (Cias in cia.cpp).        *)
(* An access looks its bank up in a table of the 256 banks, which every     *)
(* change of the configuration builds anew.                                 *)
(* Addresses are scaled: a bank has 16 bytes instead of 64 KB, of which      *)
(* bit 0 is A0, bit 1 is what tells DDRA from PRA (A9), bit 2 is A12 and      *)
(* bit 3 is A13; the block of the custom registers has 8 bytes instead of    *)
(* 512.  An access is described by the bytes it reaches.                     *)
(***************************************************************************)
EXTENDS Integers, Sequences, SequencesExt

CONSTANT Accesses (* [bytes, a, write] : what programs do.                  *)

VARIABLES
  config,      (* [overlay, slow, rom, custom, cia] : the members of        *)
               (* MemoryBus that say what there is.                         *)
  banks,       (* banks_, derived from it.                                  *)
  ovl,         (* [pra, ddra] of CIA-A: bit 0 of each.                      *)
  access       (* The access that comes next, or NoAccess.                  *)

busVars == <<config, banks, ovl, access>>

BankBytes == 16
Banks == 0 .. 255
Addresses == 0 .. 256 * BankBytes - 1
kCustomSize == 8

ASSUME BusAssumption == Accesses \subseteq [bytes : {1, 2, 4}, a : Addresses, write : BOOLEAN]

NoAccess == [bytes |-> 0, a |-> 0, write |-> FALSE]

-----------------------------------------------------------------------------
(* The table. *)

Unmapped == [base |-> "none", size |-> 1, writable |-> FALSE, custom |-> FALSE, cia |-> FALSE, open_bus |-> FALSE]

\* map(start, end, ...): the banks from first up to beyond are memory.
map(table, first, beyond, base, size, writable) ==
  [b \in Banks |-> IF b \in first .. beyond - 1
                   THEN [Unmapped EXCEPT !.base = base, !.size = size, !.writable = writable]
                   ELSE table[b]]

\* The flags of I/O banks are set in the table as it stands.
flag(table, first, beyond, name) ==
  [b \in Banks |-> IF b \in first .. beyond - 1 THEN [table[b] EXCEPT ![name] = TRUE] ELSE table[b]]

ChipBanks == 8
RomBanks == 4

\* The memories first, then the I/O areas, and the ROM over what they leave.
rebuild_banks(c) ==
  LET ram    == map([b \in Banks |-> Unmapped], 0, 32, "chip", ChipBanks, TRUE)
      slow   == IF c.slow THEN map(ram, 192, 200, "slow", 8, TRUE) ELSE ram
      custom == IF c.custom THEN flag(slow, IF c.slow THEN 200 ELSE 192, 224, "custom") ELSE slow
      cia    == IF c.cia THEN flag(custom, 191, 192, "cia") ELSE custom
      open   == flag(cia, 232, 248, "open_bus")
      rom    == IF c.rom THEN map(open, 248, 256, "rom", RomBanks, FALSE) ELSE open
  IN IF c.rom /\ c.overlay THEN map(rom, 0, 8, "rom", RomBanks, FALSE) ELSE rom

-----------------------------------------------------------------------------
(* One access.  did is what it reaches, in order; a panic leaves what was     *)
(* done done.  A byte that no CIA answers is "undriven" and reads as $FF.     *)

Reaches(did) == [did |-> did, panic |-> FALSE]
NoAnswer == [did |-> <<>>, panic |-> TRUE]
Then(x, y) == IF x.panic THEN x ELSE [y EXCEPT !.did = x.did \o @]

Bank(a) == banks[(a % (256 * BankBytes)) \div BankBytes]
resolve_panics(a) ==
  LET bank == Bank(a) IN bank.base = "none" /\ ~bank.custom /\ ~bank.cia /\ ~bank.open_bus

\* Cias::read_cia and write_cia: who answers at an address, if anybody.
CiaByte(a) ==
  IF a % 2 = 1 THEN IF (a \div 4) % 2 = 1 THEN <<"undriven", 0>> ELSE <<"ciaA", (a \div 2) % 2>>
  ELSE IF (a \div 8) % 2 = 1 THEN <<"undriven", 0>> ELSE <<"ciaB", (a \div 2) % 2>>
Selected(byte) == byte[1] # "undriven"

\* read_custom, write_custom: both halves of the register's word.
custom_word(a) == LET at == (a % kCustomSize) - (a % 2) IN Reaches(<< <<"custom", at>>, <<"custom", at + 1>> >>)

Io8(a) ==
  LET bank == Bank(a) IN
  CASE bank.open_bus -> Reaches(<< <<"open", 0>> >>)
    [] ~bank.open_bus /\ bank.cia -> IF Selected(CiaByte(a)) THEN Reaches(<<CiaByte(a)>>) ELSE NoAnswer
    [] OTHER -> custom_word(a)

Io16(a) ==
  LET bank == Bank(a) IN
  CASE bank.open_bus -> Reaches(<< <<"open", 0>>, <<"open", 0>> >>)
    [] ~bank.open_bus /\ bank.cia ->
         IF Selected(CiaByte(a)) \/ Selected(CiaByte(a + 1)) THEN Reaches(<<CiaByte(a), CiaByte(a + 1)>>) ELSE NoAnswer
    [] OTHER -> custom_word(a)

\* A byte or an aligned word of memory; ROM ignores what is written.
Memory(a, bytes, write) ==
  LET bank == Bank(a)
      Byte(k) == <<bank.base, (a + k) % (bank.size * BankBytes)>>
  IN Reaches(IF write /\ ~bank.writable THEN << <<"ignored", 0>> >>
             ELSE SubSeq(<<Byte(0), Byte(1)>>, 1, bytes))

Access8(a, write) ==
  IF resolve_panics(a) THEN NoAnswer ELSE IF Bank(a).base = "none" THEN Io8(a) ELSE Memory(a, 1, write)

\* read16 and write16; an odd address is two bytes.
Access16(a, write) ==
  IF a % 2 = 1 THEN Then(Access8(a, write), Access8(a + 1, write))
  ELSE IF resolve_panics(a) THEN NoAnswer
  ELSE IF Bank(a).base = "none" THEN Io16(a)
  ELSE Memory(a, 2, write)

\* read32 and write32: two word cycles, the high word first.
Access32(a, write) == Then(Access16(a, write), Access16(a + 2, write))

Access(bytes, a, write) ==
  CASE bytes = 1 -> Access8(a, write) [] bytes = 2 -> Access16(a, write) [] bytes = 4 -> Access32(a, write)

-----------------------------------------------------------------------------
BusInit ==
  /\ config = [overlay |-> TRUE, slow |-> TRUE, rom |-> FALSE, custom |-> FALSE, cia |-> FALSE]
  /\ banks = rebuild_banks(config)
  /\ ovl = [pra |-> 0, ddra |-> 0]
  /\ access = NoAccess

Configure(c) == config' = c /\ banks' = rebuild_banks(c)

\* An image of another size, or an encrypted one, throws before it changes anything.
load_kickstart == Configure([config EXCEPT !.rom = TRUE]) /\ UNCHANGED ovl

\* A mutant: the table is not built again.
set_slow_ram_alone(enabled) == config' = [config EXCEPT !.slow = enabled] /\ UNCHANGED <<banks, ovl>>
set_slow_ram(enabled) == Configure([config EXCEPT !.slow = enabled]) /\ UNCHANGED ovl
attach_custom_chips == Configure([config EXCEPT !.custom = TRUE]) /\ UNCHANGED ovl
attach_cias == Configure([config EXCEPT !.cia = TRUE]) /\ UNCHANGED ovl

\* set_overlay: the table is built again if that changes anything.
set_overlay(enabled) ==
  IF config.overlay = enabled THEN UNCHANGED <<config, banks>>
  ELSE Configure([config EXCEPT !.overlay = enabled])

\* port_a_output, bit 0: an input is pulled up.
OvlPin(port) == port.ddra = 0 \/ port.pra = 1
update_overlay(port) == set_overlay(OvlPin(port))

\* A write that reaches CIA-A's PRA or DDRA may leave either bit there.
Hits(did, reg) == <<"ciaA", reg>> \in ToSet(did)
cpu_write(bytes, a) ==
  LET did == Access(bytes, a, TRUE).did
  IN \E pra, ddra \in 0 .. 1 :
       /\ Hits(did, 0) \/ pra = ovl.pra
       /\ Hits(did, 1) \/ ddra = ovl.ddra
       /\ ovl' = [pra |-> pra, ddra |-> ddra]
       /\ IF Hits(did, 0) \/ Hits(did, 1) THEN update_overlay(ovl') ELSE UNCHANGED <<config, banks>>

\* Machine::reset, and the CPU's RESET instruction, which does without bus_.reset().
reset ==
  /\ config.cia
  /\ ovl' = [pra |-> 0, ddra |-> 0]
  /\ update_overlay(ovl')

\* Events between accesses.
BusEvent ==
  /\ access = NoAccess /\ UNCHANGED access
  /\ \/ load_kickstart \/ attach_custom_chips \/ attach_cias \/ reset
     \/ \E enabled \in BOOLEAN : set_slow_ram(enabled)

BusAccess == access = NoAccess /\ access' \in Accesses /\ UNCHANGED <<config, banks, ovl>>

\* Reads leave the bus, and what is on it, as they are.
BusServe ==
  /\ access # NoAccess /\ access' = NoAccess
  /\ IF access.write THEN cpu_write(access.bytes, access.a) ELSE UNCHANGED <<config, banks, ovl>>

BusNext == BusEvent \/ BusAccess \/ BusServe
BusSpec == BusInit /\ [][BusNext]_busVars

-----------------------------------------------------------------------------
(* The map that memory_bus.hpp documents, byte by byte. *)

MapOf(a) ==
  LET bank == a \div BankBytes
      at(n) == a % (n * BankBytes)
  IN CASE bank < 8 /\ config.rom /\ config.cia /\ OvlPin(ovl) -> <<"rom", at(RomBanks)>>
       [] bank < 8 /\ config.rom /\ ~config.cia -> <<"rom", at(RomBanks)>>
       [] bank < 8 /\ ~(config.rom /\ (config.cia => OvlPin(ovl))) -> <<"chip", at(ChipBanks)>>
       [] bank \in 8 .. 31 -> <<"chip", at(ChipBanks)>>
       [] bank = 191 /\ config.cia -> CiaByte(a)
       [] bank \in 192 .. 199 /\ config.slow -> <<"slow", at(8)>>
       [] bank \in 192 .. 199 /\ ~config.slow /\ config.custom -> <<"custom", a % kCustomSize>>
       [] bank \in 200 .. 223 /\ config.custom -> <<"custom", a % kCustomSize>>
       [] bank \in 232 .. 247 -> <<"open", 0>>
       [] bank \in 248 .. 255 /\ config.rom -> <<"rom", at(RomBanks)>>
       [] OTHER -> <<"undriven", 0>>

\* The bytes of one bus cycle; the custom chips do not see which half is meant.
Cycle(as, write) ==
  {IF write /\ MapOf(a)[1] = "rom" THEN <<"ignored", 0>> ELSE MapOf(a) : a \in as}
  \cup {<<"custom", MapOf(a)[2] - (a % 2) + k>> : a \in {x \in as : MapOf(x)[1] = "custom"}, k \in 0 .. 1}

Wrapped24(a) == a % (256 * BankBytes)
Cycles(bytes, a) ==
  LET at(k) == Wrapped24(a + k) IN
  CASE bytes = 1 -> << {a} >>
    [] bytes = 2 /\ a % 2 = 1 -> << {a}, {at(1)} >>
    [] bytes = 2 /\ a % 2 = 0 -> << {a, at(1)} >>
    [] bytes = 4 /\ a % 2 = 1 -> << {a}, {at(1)}, {at(2)}, {at(3)} >>
    [] bytes = 4 /\ a % 2 = 0 -> << {a, at(1)}, {at(2), at(3)} >>

\* Every cycle up to the first that nobody answers reaches what the map says.
AccessRight(bytes, a, write) ==
  LET cycles == Cycles(bytes, a)
      Dead(i) == \A byte \in Cycle(cycles[i], write) : ~Selected(byte)
      done == {i \in DOMAIN cycles : \A j \in 1 .. i : ~Dead(j)}
      o == Access(bytes, a, write)
  IN /\ o.panic = (done # DOMAIN cycles)
     /\ ToSet(o.did) = UNION {Cycle(cycles[i], write) : i \in done}

\* Through the cached table of banks, an access reaches what memory_bus.hpp documents for the configuration and
\* the level of the overlay's pin at that time; a panic comes when nobody answers, with what came before it done.
BusFollowsItsMap == access # NoAccess => AccessRight(access.bytes, access.a, access.write)
=============================================================================
