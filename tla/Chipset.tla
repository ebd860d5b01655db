------------------------------ MODULE Chipset ------------------------------
(***************************************************************************)
(* The Copper (copper.cpp) as Chipset::tick clocks it with the beam, the   *)
(* registers it shares with the CPU, and the blit that waits for its DMA   *)
(* (chipset.cpp, agnus.hpp, blitter.cpp).  Chip RAM is the program's: a    *)
(* word fetched is any word.  A blit is one step, as in the code; what it  *)
(* writes is left out.                                                     *)
(***************************************************************************)
EXTENDS Integers

CONSTANTS
  RamWords,          (* Words of chip RAM the Copper's pc wraps at.        *)
  Lines, LineClocks, (* Lines of a frame, color clocks of a line.          *)
  VBits, HBits,      (* Bits of the beam position WAIT sees (8, 8).        *)
  Positions,         (* IR1 of the lists' WAITs and SKIPs: [v, h],         *)
  Masks              (* and IR2: the bits it compares, [v, h].             *)

ASSUME ChipsetAssumption ==
  /\ RamWords \in Nat \ {0} /\ RamWords % 2 = 0
  /\ Lines \in Nat \ {0} /\ LineClocks \in Nat /\ LineClocks > 1
  /\ VBits \in Nat \ {0} /\ HBits \in Nat \ {0}
  /\ Positions \subseteq [v : Nat, h : Nat]
  /\ Masks \subseteq [v : SUBSET Nat, h : SUBSET Nat]

VARIABLES
  vpos, hpos,        (* The beam.                                          *)
  dma,               (* DMACON: DMAEN, COPEN, BLTEN.                       *)
  danger,            (* COPCON CDANG.                                      *)
  cop1lc, cop2lc,    (* Where the Copper's lists begin.                    *)
  pending,           (* A blit waits for BLTEN.                            *)
  blit               (* INTREQ BLIT.                                       *)

VARIABLES            (* The Copper:                                        *)
  pc, state,
  ir1, ir2           (* The instruction's words, None when out of use.     *)

VARIABLES            (* History:                                           *)
  start,             (* Parity of the address of the last restart.         *)
  since,             (* The beam where the WAIT in progress began; Nowhere *)
                     (* without one, or once its DMA has been off.         *)
  ordered            (* BLTSIZE was written, the blit not acknowledged.    *)

beam   == <<vpos, hpos>>
copper == <<pc, state, ir1, ir2, start, since>>
blits  == <<pending, blit, ordered>>
vars   == <<beam, dma, danger, cop1lc, cop2lc, blits, copper>>

None    == [reg |-> "none"]
Nowhere == <<-1, -1>>
Words   == 0 .. RamWords - 1
DmaBits == {"DMAEN", "COPEN", "BLTEN"}
Strobes == {"COPJMP1", "COPJMP2"}

\* $02E COPCON, $058 BLTSIZE, $080-$08A the Copper's, $096 DMACON, $09C INTREQ;
\* COLOR stands for the registers that change nothing here.
Registers ==
  {"COPCON", "BLTSIZE", "COP1LC", "COP2LC", "DMACON", "INTREQ", "COLOR"} \cup Strobes
Moves == [reg : Registers]  \* IR1 of a MOVE

Init ==
  /\ vpos = 0 /\ hpos = 0
  /\ dma = {} /\ danger = FALSE /\ cop1lc = 0 /\ cop2lc = 0
  /\ pending = FALSE /\ blit = FALSE
  /\ pc = 0 /\ state = "Stopped" /\ ir1 = None /\ ir2 = None
  /\ start = 0 /\ since = Nowhere /\ ordered = FALSE

-----------------------------------------------------------------------------
(* Register writes, the CPU's or the Copper's.                             *)

EnabledIn(bits, channel) == {"DMAEN", channel} \subseteq bits
Enabled(channel)         == EnabledIn(dma, channel)

\* The blit with DMACON as it will be.
StartsSilently(bits) ==  \* a mutant: it raises no interrupt
  /\ pending' = ~EnabledIn(bits, "BLTEN")
  /\ UNCHANGED blit

StartBlitIfEnabled(bits) ==
  IF EnabledIn(bits, "BLTEN")
  THEN pending' = FALSE /\ blit' = TRUE
  ELSE pending' = TRUE /\ UNCHANGED blit

WriteBltSize ==
  /\ StartBlitIfEnabled(dma)
  /\ ordered' = TRUE
  /\ UNCHANGED <<dma, danger, cop1lc, cop2lc>>

DmaConForgets ==  \* a mutant: the blit that waits is not started
  /\ \E bits \in SUBSET DmaBits : dma' = dma \cup bits \/ dma' = dma \ bits
  /\ UNCHANGED <<danger, cop1lc, cop2lc, blits>>

WriteDmaCon ==
  /\ \E bits \in SUBSET DmaBits : dma' = dma \cup bits \/ dma' = dma \ bits
  /\ IF pending THEN StartBlitIfEnabled(dma') ELSE UNCHANGED <<pending, blit>>
  /\ UNCHANGED <<ordered, danger, cop1lc, cop2lc>>

\* The program sets or clears the request; clearing it acknowledges the blits
\* that have run.
WriteIntReq ==
  /\ blit' \in BOOLEAN
  /\ ordered' = (ordered /\ (blit' \/ pending))
  /\ UNCHANGED <<pending, dma, danger, cop1lc, cop2lc>>

WriteCopCon ==
  /\ danger' \in BOOLEAN
  /\ UNCHANGED <<dma, cop1lc, cop2lc, blits>>

\* One half of a location at a time: any word may result.
WriteLocation(r) ==
  /\ IF r = "COP1LC" THEN cop1lc' \in Words /\ UNCHANGED cop2lc
                     ELSE cop2lc' \in Words /\ UNCHANGED cop1lc
  /\ UNCHANGED <<dma, danger, blits>>

\* All of a write but where it sends the Copper.
WriteCustom(r) ==
  \/ r = "BLTSIZE" /\ WriteBltSize
  \/ r = "DMACON" /\ WriteDmaCon
  \/ r = "INTREQ" /\ WriteIntReq
  \/ r = "COPCON" /\ WriteCopCon
  \/ r \in {"COP1LC", "COP2LC"} /\ WriteLocation(r)
  \/ /\ r \in {"COLOR"} \cup Strobes
     /\ UNCHANGED <<dma, danger, cop1lc, cop2lc, blits>>

Target(r) == IF r = "COPJMP1" THEN cop1lc ELSE cop2lc

JumpResumes(address) ==  \* a mutant: the word awaited stays awaited
  /\ pc' = address
  /\ start' = address % 2
  /\ UNCHANGED <<state, ir1, ir2, since>>

Jump(address) ==
  /\ pc' = address /\ state' = "FetchIr1"
  /\ ir1' = None /\ ir2' = None
  /\ start' = address % 2 /\ since' = Nowhere

CpuWrite(r) ==
  /\ WriteCustom(r)
  /\ IF r \in Strobes THEN Jump(Target(r)) ELSE UNCHANGED copper
  /\ UNCHANGED beam

\* Strobes act on any access.
CpuRead(r) ==
  /\ r \in Strobes
  /\ Jump(Target(r))
  /\ UNCHANGED <<beam, dma, danger, cop1lc, cop2lc, blits>>

-----------------------------------------------------------------------------
(* Chipset::tick: one color clock of the beam and of the Copper.           *)

AtFrameStart == vpos = 0 /\ hpos = 0

AdvanceBeam ==
  /\ hpos' = IF hpos + 1 < LineClocks THEN hpos + 1 ELSE 0
  /\ vpos' = IF hpos + 1 < LineClocks THEN vpos
             ELSE IF vpos + 1 < Lines THEN vpos + 1 ELSE 0

FollowingNoWrap(word) == word + 1  \* a mutant: pc leaves chip RAM
Following(word) == IF word + 1 = RamWords THEN 0 ELSE word + 1

FetchFirst(word) ==
  /\ ir1' \in Moves \cup Positions
  /\ pc' = Following(word) /\ state' = "FetchIr2"
  /\ ir2' = None /\ since' = Nowhere

\* The Copper restarts even with its DMA off, before its own clock.
VerticalBlank ==
  /\ AtFrameStart
  /\ start' = cop1lc % 2
  /\ IF Enabled("COPEN") THEN FetchFirst(cop1lc)
     ELSE /\ pc' = cop1lc /\ state' = "FetchIr1"
          /\ ir1' = None /\ ir2' = None /\ since' = Nowhere
  /\ UNCHANGED <<dma, danger, cop1lc, cop2lc, blits>>

Pow2[b \in Nat] == IF b = 0 THEN 1 ELSE 2 * Pow2[b - 1]

\* x & mask, of its n low bits.
Masked(x, bits, n) ==
  LET low[b \in Nat] ==
        IF b = 0 THEN 0
        ELSE low[b - 1] + (IF b - 1 \in bits /\ (x \div Pow2[b - 1]) % 2 = 1
                           THEN Pow2[b - 1] ELSE 0)
  IN  low[n]

\* beam_reached: V7 is always compared, V8 and the odd clocks never.
LineBits(mask, v)  == Masked(v, mask.v \cup {VBits - 1}, VBits)
ClockBits(mask, h) == Masked(h, mask.h \ {0}, HBits)
Compared(mask, v, h) == LineBits(mask, v) * Pow2[HBits] + ClockBits(mask, h)

BeamEquals(at, mask, v, h) ==  \* a mutant: a position gone by is not reached
  Compared(mask, v, h) = Compared(mask, at.v, at.h)
BeamReached(at, mask, v, h) ==
  Compared(mask, v, h) >= Compared(mask, at.v, at.h)

MoveUnguarded(r) == danger \/ r # "BLTSIZE"  \* a mutant: COPCON is not protected
MoveAllowed(r) == r # "COPCON" /\ (danger \/ r # "BLTSIZE")

\* The second word is that of a MOVE,
Move ==
  /\ ir1 \in Moves
  /\ IF MoveAllowed(ir1.reg)
     THEN /\ WriteCustom(ir1.reg)
          /\ IF ir1.reg \in Strobes THEN Jump(Target(ir1.reg))
             ELSE /\ pc' = Following(pc) /\ state' = "FetchIr1"
                  /\ ir1' = None /\ ir2' = None
                  /\ UNCHANGED <<start, since>>
     ELSE /\ pc' = Following(pc) /\ state' = "Stopped"
          /\ ir1' = None /\ ir2' = None
          /\ UNCHANGED <<start, since, dma, danger, cop1lc, cop2lc, blits>>

\* a WAIT,
Wait ==
  /\ ir1 \in Positions
  /\ ir2' \in Masks
  /\ pc' = Following(pc) /\ state' = "Waiting" /\ since' = beam
  /\ UNCHANGED <<ir1, start, dma, danger, cop1lc, cop2lc, blits>>

\* or a SKIP.
Skip ==
  /\ ir1 \in Positions
  /\ \E mask \in Masks :
       pc' = IF BeamReached(ir1, mask, vpos, hpos)
             THEN Following(Following(Following(pc))) ELSE Following(pc)
  /\ state' = "FetchIr1" /\ ir1' = None /\ ir2' = None
  /\ UNCHANGED <<start, since, dma, danger, cop1lc, cop2lc, blits>>

WaitEnds ==
  /\ BeamReached(ir1, ir2, vpos, hpos)
  /\ state' = "Wake" /\ ir1' = None /\ ir2' = None /\ since' = Nowhere
  /\ UNCHANGED <<pc, start>>

CopperTick ==
  \/ state = "FetchIr2" /\ (Move \/ Wait \/ Skip)
  \/ /\ \/ state = "FetchIr1" /\ FetchFirst(pc) /\ UNCHANGED start
        \/ state = "Waiting" /\ WaitEnds
        \/ /\ state = "Waiting" /\ ~BeamReached(ir1, ir2, vpos, hpos)
           /\ UNCHANGED copper
        \/ /\ state = "Wake" /\ state' = "FetchIr1"
           /\ UNCHANGED <<pc, ir1, ir2, start, since>>
        \/ state = "Stopped" /\ UNCHANGED copper
     /\ UNCHANGED <<dma, danger, cop1lc, cop2lc, blits>>

\* Odd clocks, and clocks without its DMA, are not the Copper's.
CopperRests ==
  /\ ~Enabled("COPEN") \/ hpos % 2 = 1
  /\ since' = IF Enabled("COPEN") THEN since ELSE Nowhere
  /\ UNCHANGED <<pc, state, ir1, ir2, start, dma, danger, cop1lc, cop2lc, blits>>

Tick ==
  /\ \/ VerticalBlank
     \/ ~AtFrameStart /\ Enabled("COPEN") /\ hpos % 2 = 0 /\ CopperTick
     \/ ~AtFrameStart /\ CopperRests
  /\ AdvanceBeam

Next ==
  \/ Tick
  \/ \E r \in Registers : CpuWrite(r) \/ CpuRead(r)

Spec == Init /\ [][Next]_vars

-----------------------------------------------------------------------------
(* Properties.                                                             *)

\* The color clocks of a frame.
Clocks == (0 .. Lines - 1) \X (0 .. LineClocks - 1)

\* The beam stays on the screen and the Copper in chip RAM; the words it has
\* are those its state uses (copper.hpp).
TypeOK ==
  /\ vpos \in 0 .. Lines - 1 /\ hpos \in 0 .. LineClocks - 1
  /\ dma \subseteq DmaBits /\ danger \in BOOLEAN
  /\ cop1lc \in Words /\ cop2lc \in Words /\ pc \in Words
  /\ state \in {"Stopped", "FetchIr1", "FetchIr2", "Waiting", "Wake"}
  /\ ir1 \in CASE state = "FetchIr2" -> Moves \cup Positions
               [] state = "Waiting"  -> Positions
               [] OTHER              -> {None}
  /\ ir2 \in (IF state = "Waiting" THEN Masks ELSE {None})
  /\ pending \in BOOLEAN /\ blit \in BOOLEAN /\ ordered \in BOOLEAN
  /\ start \in 0 .. 1 /\ since \in Clocks \cup {Nowhere}

\* The Copper stays in step with its list: it takes as second words exactly
\* the words at an odd distance from where it was last started, wherever a
\* COPJMP of the CPU, a COPJMP of its own, the vertical blank, a switch of its
\* DMA or a SKIP comes in (copper.hpp jump, copper.cpp tick).
ListInStep == (state = "FetchIr2") <=> (pc % 2 # start)

\* A blit waits only while the blitter's DMA is off, whichever of DMACON's bits
\* is set last and whoever sets it (chipset.cpp write_custom).
NoBlitWaits == pending => ~Enabled("BLTEN")

\* A blit ordered with BLTSIZE still waits, or has requested its interrupt;
\* the request stays until the program clears it (start_blit_if_enabled).
NoBlitLost == ordered => pending \/ blit

\* A blit neither hangs nor vanishes between BLTSIZE and its interrupt.
BlitsAreServed == NoBlitWaits /\ NoBlitLost

\* The Copper cannot give itself the right to the registers below $80, nor
\* order a blit without it; a blit of the CPU's it may start with DMACON
\* (copper.cpp move_allowed).
CopperContained ==
  [][beam' # beam => danger' = danger /\ (ordered' => ordered \/ danger)]_vars

\* The beam is at p before it is at q.
Before(p, q) == p[1] < q[1] \/ (p[1] = q[1] /\ p[2] < q[2])

\* The color clocks after the one where the WAIT began, on its own line and on
\* the later ones, as far as the beam has come.
ClocksSince == {at \in Clocks : Before(since, at) /\ (AtFrameStart \/ Before(at, beam))}

\* WAIT's condition, line first and clock second.
Reaches(line, clock) ==
  \/ LineBits(ir2, line) > LineBits(ir2, ir1.v)
  \/ /\ LineBits(ir2, line) = LineBits(ir2, ir1.v)
     /\ ClockBits(ir2, clock) >= ClockBits(ir2, ir1.h)

\* No WAIT is missed: while the Copper waits with its DMA on, the beam has not
\* been at or past the position it waits for since the WAIT was fetched, from
\* the next clock of the same line up to the frame's last (copper.cpp
\* beam_reached, tick).
NoWaitMissed ==
  state = "Waiting" /\ since # Nowhere =>
    \A at \in ClocksSince : at[2] % 2 = 0 => ~Reaches(at[1], at[2])
=============================================================================
