--------------------------- MODULE ChipsetProofs ---------------------------
(***************************************************************************)
(* Proofs about Chipset, for every size of chip RAM and of the frame, and  *)
(* whatever programs write.                                                *)
(***************************************************************************)
EXTENDS Chipset, Recursion, TLAPS

-----------------------------------------------------------------------------
(* Chipset: the beam, the Copper and the registers.                        *)

\* What becomes of DMACON and of the blit, and the locations, by any register
\* write.
LEMMA WriteCustomTypes ==
  ASSUME TypeOK, NEW r, WriteCustom(r)
  PROVE  /\ dma' \subseteq DmaBits /\ danger' \in BOOLEAN
         /\ cop1lc' \in Words /\ cop2lc' \in Words
         /\ pending' \in BOOLEAN /\ blit' \in BOOLEAN /\ ordered' \in BOOLEAN
  <1>1. CASE r = "BLTSIZE" /\ WriteBltSize
    BY <1>1 DEF WriteBltSize, StartBlitIfEnabled, TypeOK
  <1>2. CASE r = "DMACON" /\ WriteDmaCon
    BY <1>2 DEF WriteDmaCon, StartBlitIfEnabled, TypeOK
  <1>3. CASE r = "INTREQ" /\ WriteIntReq
    BY <1>3 DEF WriteIntReq, TypeOK
  <1>4. CASE r = "COPCON" /\ WriteCopCon
    BY <1>4 DEF WriteCopCon, TypeOK, blits
  <1>5. CASE r \in {"COP1LC", "COP2LC"} /\ WriteLocation(r)
    BY <1>5 DEF WriteLocation, TypeOK, blits
  <1>6. CASE UNCHANGED <<dma, danger, cop1lc, cop2lc, blits>>
    BY <1>6 DEF TypeOK, blits
  <1>7. QED
    BY <1>1, <1>2, <1>3, <1>4, <1>5, <1>6 DEF WriteCustom

\* The next word of chip RAM has the other parity.
LEMMA FollowingFacts ==
  ASSUME NEW word \in Words
  PROVE  /\ Following(word) \in Words
         /\ Following(word) % 2 # word % 2
  BY ChipsetAssumption DEF Following, Words

\* Not about the code: the part of the type invariant and of ListInStep that is the Copper's.
CopperOK ==
  /\ pc \in Words
  /\ state \in {"Stopped", "FetchIr1", "FetchIr2", "Waiting", "Wake"}
  /\ ir1 \in CASE state = "FetchIr2" -> Moves \cup Positions
               [] state = "Waiting"  -> Positions
               [] OTHER              -> {None}
  /\ ir2 \in (IF state = "Waiting" THEN Masks ELSE {None})
  /\ start \in 0 .. 1 /\ since \in Clocks \cup {Nowhere}
  /\ ListInStep

\* A restart leaves the Copper in step.
LEMMA JumpInStep ==
  ASSUME NEW address \in Words, Jump(address)
  PROVE  CopperOK'
  <1>1. address % 2 \in 0 .. 1
    BY ChipsetAssumption DEF Words
  <1>2. QED
    BY <1>1, ChipsetAssumption DEF Jump, CopperOK, ListInStep, None

\* So does a fetch of a first word.
LEMMA FetchInStep ==
  ASSUME NEW word \in Words, FetchFirst(word), start' = word % 2
  PROVE  CopperOK'
  <1>1. word % 2 \in 0 .. 1
    BY DEF Words
  <1>2. QED
    BY <1>1, FollowingFacts, ChipsetAssumption DEF FetchFirst, CopperOK, ListInStep, None

LEMMA StrobeTargets ==
  ASSUME TypeOK, NEW r
  PROVE  Target(r) \in Words
  BY DEF Target, TypeOK

\* A second word of any kind leaves it in step with the next instruction.
LEMMA SecondWordInStep ==
  ASSUME TypeOK, ListInStep, state = "FetchIr2", Move \/ Wait \/ Skip
  PROVE  CopperOK'
  <1> DEFINE after == Following(pc)
  <1>1. /\ pc \in Words /\ pc % 2 # start /\ start \in 0 .. 1
        /\ pc % 2 \in 0 .. 1
    BY DEF TypeOK, ListInStep, Words
  <1>2. after \in Words /\ after % 2 = start /\ after % 2 \in 0 .. 1
    <2>1. after \in Words /\ after % 2 # pc % 2
      BY <1>1, FollowingFacts
    <2>2. after % 2 \in 0 .. 1
      BY <2>1 DEF Words
    <2>3. QED
      BY <1>1, <2>1, <2>2
  <1>3. CASE Move
    <2>1. CASE ir1.reg \in Strobes /\ Jump(Target(ir1.reg))
      BY <2>1, StrobeTargets, JumpInStep
    <2>2. CASE /\ pc' = after /\ state' \in {"FetchIr1", "Stopped"}
               /\ ir1' = None /\ ir2' = None /\ UNCHANGED <<start, since>>
      BY <1>1, <1>2, <2>2 DEF CopperOK, ListInStep, TypeOK
    <2>3. QED
      BY <1>3, <2>1, <2>2 DEF Move
  <1>4. CASE Wait
    <2>1. beam \in Clocks
      BY DEF TypeOK, beam, Clocks
    <2>2. QED
      BY <1>1, <1>2, <1>4, <2>1 DEF Wait, CopperOK, ListInStep, TypeOK
  <1>5. CASE Skip
    <2>1. /\ Following(Following(after)) \in Words
          /\ Following(Following(after)) % 2 = start
      <3>1. Following(after) \in Words /\ Following(after) % 2 # start
        BY <1>2, FollowingFacts
      <3>2. /\ Following(Following(after)) \in Words
            /\ Following(Following(after)) % 2 # Following(after) % 2
        BY <3>1, FollowingFacts
      <3>3. Following(after) % 2 \in 0 .. 1 /\ Following(Following(after)) % 2 \in 0 .. 1
        BY <3>1, <3>2 DEF Words
      <3>4. QED
        BY <1>1, <3>1, <3>2, <3>3
    <2>2. pc' \in {after, Following(Following(after))}
      BY <1>5 DEF Skip
    <2>3. pc' \in Words /\ pc' % 2 = start
      BY <1>2, <2>1, <2>2
    <2>4. /\ state' = "FetchIr1" /\ ir1' = None /\ ir2' = None
          /\ start' = start /\ since' = since
      BY <1>5 DEF Skip
    <2>5. QED
      BY <1>1, <2>3, <2>4 DEF CopperOK, ListInStep, TypeOK
  <1>6. QED
    BY <1>3, <1>4, <1>5

\* The whole of the Copper's clock.
LEMMA CopperTickInStep ==
  ASSUME TypeOK, ListInStep, CopperTick
  PROVE  CopperOK'
  <1>0. CopperOK
    BY DEF TypeOK, CopperOK
  <1>1. CASE state = "FetchIr2" /\ (Move \/ Wait \/ Skip)
    BY <1>1, SecondWordInStep
  <1>2. CASE state = "FetchIr1" /\ FetchFirst(pc) /\ UNCHANGED start
    <2>1. pc \in Words /\ pc % 2 = start
      BY <1>2 DEF TypeOK, ListInStep
    <2>2. QED
      BY <1>2, <2>1, FetchInStep
  <1>3. CASE state = "Waiting" /\ WaitEnds
    BY <1>0, <1>3, ChipsetAssumption DEF WaitEnds, CopperOK, ListInStep
  <1>4. CASE UNCHANGED copper
    BY <1>0, <1>4 DEF copper, CopperOK, ListInStep
  <1>5. CASE state = "Wake" /\ state' = "FetchIr1" /\ UNCHANGED <<pc, ir1, ir2, start, since>>
    BY <1>0, <1>5 DEF CopperOK, ListInStep
  <1>6. QED
    BY <1>1, <1>2, <1>3, <1>4, <1>5 DEF CopperTick

\* A clock, with the vertical blank, from the Copper's side.
LEMMA TickInStep ==
  ASSUME TypeOK, ListInStep, Tick
  PROVE  CopperOK'
  <1>1. CASE VerticalBlank
    <2>1. cop1lc \in Words /\ cop1lc % 2 \in 0 .. 1
      BY DEF TypeOK, Words
    <2>2. CASE Enabled("COPEN")
      BY <1>1, <2>1, <2>2, FetchInStep DEF VerticalBlank
    <2>3. CASE ~Enabled("COPEN")
      BY <1>1, <2>1, <2>3, ChipsetAssumption DEF VerticalBlank, CopperOK, ListInStep
    <2>4. QED
      BY <2>2, <2>3
  <1>2. CASE CopperTick
    BY <1>2, CopperTickInStep
  <1>3. CASE CopperRests
    BY <1>3, ChipsetAssumption DEF CopperRests, TypeOK, CopperOK, ListInStep
  <1>4. QED
    BY <1>1, <1>2, <1>3 DEF Tick

LEMMA MoveKeeps ==
  ASSUME Move
  PROVE  (ir1.reg # "COPCON" /\ (danger \/ ir1.reg # "BLTSIZE") /\ WriteCustom(ir1.reg))
         \/ UNCHANGED <<dma, danger, cop1lc, cop2lc, blits>>
  BY DEF Move, MoveAllowed

\* A clock writes no register but by an allowed MOVE.
LEMMA TickWrites ==
  ASSUME Tick
  PROVE  (ir1.reg # "COPCON" /\ (danger \/ ir1.reg # "BLTSIZE") /\ WriteCustom(ir1.reg))
         \/ UNCHANGED <<dma, danger, cop1lc, cop2lc, blits>>
  BY MoveKeeps DEF Tick, VerticalBlank, CopperTick, Wait, Skip, CopperRests

-----------------------------------------------------------------------------
\* The beam and the Copper stay within bounds and the Copper in step, for every
\* size of screen and of chip RAM.
THEOREM CopperInStep == Spec => [](TypeOK /\ ListInStep)
  <1>1. Init => TypeOK /\ ListInStep
    <2> SUFFICES ASSUME Init PROVE TypeOK /\ ListInStep
      OBVIOUS
    <2>1. 0 % 2 = 0 /\ 0 \in Words
      BY ChipsetAssumption DEF Words
    <2>2. ListInStep
      BY <2>1 DEF Init, ListInStep
    <2>3. TypeOK
      <3>1. vpos \in 0 .. Lines - 1 /\ hpos \in 0 .. LineClocks - 1 /\ since \in Clocks \cup {Nowhere}
        BY ChipsetAssumption DEF Init
      <3>2. /\ dma \subseteq DmaBits /\ danger \in BOOLEAN
            /\ pending \in BOOLEAN /\ blit \in BOOLEAN /\ ordered \in BOOLEAN
        BY DEF Init
      <3>3. /\ cop1lc \in Words /\ cop2lc \in Words /\ pc \in Words /\ start \in 0 .. 1
            /\ state = "Stopped" /\ ir1 = None /\ ir2 = None
        BY <2>1 DEF Init
      <3>4. QED
        BY <3>1, <3>2, <3>3 DEF TypeOK
    <2>4. QED
      BY <2>2, <2>3
  <1>2. TypeOK /\ ListInStep /\ [Next]_vars => (TypeOK /\ ListInStep)'
    <2> SUFFICES ASSUME TypeOK, ListInStep, [Next]_vars PROVE (TypeOK /\ ListInStep)'
      OBVIOUS
    <2>1. CASE Tick
      <3>1. CopperOK'
        BY <2>1, TickInStep
      <3>2. vpos' \in 0 .. Lines - 1 /\ hpos' \in 0 .. LineClocks - 1
        BY <2>1, ChipsetAssumption DEF Tick, AdvanceBeam, TypeOK
      <3>3. /\ dma' \subseteq DmaBits /\ danger' \in BOOLEAN
            /\ cop1lc' \in Words /\ cop2lc' \in Words
            /\ pending' \in BOOLEAN /\ blit' \in BOOLEAN /\ ordered' \in BOOLEAN
        <4>1. CASE WriteCustom(ir1.reg)
          BY <4>1, WriteCustomTypes
        <4>2. CASE UNCHANGED <<dma, danger, cop1lc, cop2lc, blits>>
          BY <4>2 DEF TypeOK, blits
        <4>3. QED
          BY <2>1, <4>1, <4>2, TickWrites
      <3>4. QED
        BY <3>1, <3>2, <3>3 DEF TypeOK, CopperOK
    <2>2. ASSUME NEW r \in Registers, CpuWrite(r) PROVE (TypeOK /\ ListInStep)'
      <3>1. CopperOK'
        <4>1. CASE Jump(Target(r))
          BY <4>1, StrobeTargets, JumpInStep
        <4>2. CASE UNCHANGED copper
          BY <4>2 DEF copper, TypeOK, ListInStep, CopperOK
        <4>3. QED
          BY <2>2, <4>1, <4>2 DEF CpuWrite
      <3>2. /\ dma' \subseteq DmaBits /\ danger' \in BOOLEAN
            /\ cop1lc' \in Words /\ cop2lc' \in Words
            /\ pending' \in BOOLEAN /\ blit' \in BOOLEAN /\ ordered' \in BOOLEAN
        BY <2>2, WriteCustomTypes DEF CpuWrite
      <3>3. vpos' = vpos /\ hpos' = hpos
        BY <2>2 DEF CpuWrite, beam
      <3>4. QED
        BY <3>1, <3>2, <3>3 DEF TypeOK, CopperOK
    <2>3. ASSUME NEW r \in Registers, CpuRead(r) PROVE (TypeOK /\ ListInStep)'
      <3>1. CopperOK'
        BY <2>3, StrobeTargets, JumpInStep DEF CpuRead
      <3>2. QED
        BY <2>3, <3>1 DEF CpuRead, beam, blits, TypeOK, CopperOK
    <2>4. CASE UNCHANGED vars
      BY <2>4 DEF vars, beam, copper, blits, TypeOK, ListInStep
    <2>5. QED
      BY <2>1, <2>2, <2>3, <2>4 DEF Next
  <1>3. QED
    BY <1>1, <1>2, PTL DEF Spec

\* What a register write does to a blit.
LEMMA WriteCustomBlits ==
  ASSUME NEW r, WriteCustom(r), NoBlitWaits, NoBlitLost,
         pending \in BOOLEAN, blit \in BOOLEAN, ordered \in BOOLEAN
  PROVE  NoBlitWaits' /\ NoBlitLost'
  <1>1. CASE r = "BLTSIZE" /\ WriteBltSize
    BY <1>1 DEF WriteBltSize, StartBlitIfEnabled, NoBlitWaits, NoBlitLost, Enabled, EnabledIn
  <1>2. CASE r = "DMACON" /\ WriteDmaCon
    BY <1>2 DEF WriteDmaCon, StartBlitIfEnabled, NoBlitWaits, NoBlitLost, Enabled, EnabledIn
  <1>3. CASE r = "INTREQ" /\ WriteIntReq
    BY <1>3 DEF WriteIntReq, NoBlitWaits, NoBlitLost, Enabled, EnabledIn
  <1>4. CASE UNCHANGED <<dma, blits>>
    BY <1>4 DEF blits, NoBlitWaits, NoBlitLost, Enabled, EnabledIn
  <1>5. QED
    BY <1>1, <1>2, <1>3, <1>4 DEF WriteCustom, WriteCopCon, WriteLocation

\* Whatever the order of BLTSIZE and DMACON, and whoever writes them, a blit
\* waits only without its DMA, and is run or waiting until acknowledged.
THEOREM BlitsRun == Spec => []BlitsAreServed
  <1>1. Init => NoBlitWaits /\ NoBlitLost
    BY DEF Init, NoBlitWaits, NoBlitLost
  <1>2. TypeOK /\ NoBlitWaits /\ NoBlitLost /\ [Next]_vars => (NoBlitWaits /\ NoBlitLost)'
    <2> SUFFICES ASSUME TypeOK, NoBlitWaits, NoBlitLost, [Next]_vars
                 PROVE  (NoBlitWaits /\ NoBlitLost)'
      OBVIOUS
    <2>1. ASSUME NEW r, WriteCustom(r) PROVE (NoBlitWaits /\ NoBlitLost)'
      BY <2>1, WriteCustomBlits DEF TypeOK
    <2>2. CASE UNCHANGED <<dma, blits>>
      BY <2>2 DEF blits, NoBlitWaits, NoBlitLost, Enabled, EnabledIn
    <2>3. CASE Tick
      BY <2>1, <2>2, <2>3, TickWrites
    <2>4. QED
      BY <2>1, <2>2, <2>3 DEF Next, CpuWrite, CpuRead, vars
  <1>3. NoBlitWaits /\ NoBlitLost <=> BlitsAreServed
    BY DEF BlitsAreServed
  <1>4. QED
    BY <1>1, <1>2, <1>3, CopperInStep, PTL DEF Spec

\* Only the CPU raises CDANG, and without it the Copper orders no blit.
THEOREM CopperIsContained == Spec => CopperContained
  <1>1. [Next]_vars => [beam' # beam => danger' = danger /\ (ordered' => ordered \/ danger)]_vars
    <2> SUFFICES ASSUME Next, beam' # beam
                 PROVE  danger' = danger /\ (ordered' => ordered \/ danger)
      BY DEF vars
    <2>1. Tick
      BY DEF Next, CpuWrite, CpuRead, beam
    <2>2. CASE UNCHANGED <<dma, danger, cop1lc, cop2lc, blits>>
      BY <2>2 DEF blits
    <2>3. CASE ir1.reg # "COPCON" /\ (danger \/ ir1.reg # "BLTSIZE") /\ WriteCustom(ir1.reg)
      <3>1. ASSUME NEW r, r # "COPCON", danger \/ r # "BLTSIZE", WriteCustom(r)
            PROVE  danger' = danger /\ (ordered' => ordered \/ danger)
        <4>1. CASE danger /\ WriteBltSize
          BY <4>1 DEF WriteBltSize
        <4>2. CASE WriteDmaCon \/ WriteLocation(r)
          BY <4>2 DEF WriteDmaCon, WriteLocation, blits
        <4>3. CASE WriteIntReq
          BY <4>3 DEF WriteIntReq
        <4>4. QED
          BY <3>1, <4>1, <4>2, <4>3, <2>2 DEF WriteCustom
      <3>2. QED
        BY <2>3, <3>1
    <2>4. QED
      BY <2>1, <2>2, <2>3, TickWrites
  <1>2. QED
    BY <1>1, PTL DEF Spec, CopperContained

-----------------------------------------------------------------------------
(* No WAIT is missed.                                                      *)

LEMMA Powers ==
  /\ \A b \in Nat : Pow2[b] \in Nat
  /\ Pow2[0] = 1 /\ \A b \in Nat : Pow2[b + 1] = 2 * Pow2[b]
  <1> DEFINE h == [p \in Nat \X Nat |-> 2 * p[2]]
             Defines(f) == f = [b \in Nat |-> IF b = 0 THEN 1 ELSE 2 * f[b - 1]]
  <1>1. PICK f \in [Nat -> Nat] : f[0] = 1 /\ \A n \in Nat : f[n + 1] = h[<<n, f[n]>>]
    <2> DEFINE S == Nat
               a == 1
    <2>1. h \in [Nat \X S -> S] /\ a \in S
      OBVIOUS
    <2> HIDE DEF h, S, a
    <2>2. PICK f \in [Nat -> S] : Iterates(f, a, h)
      BY <2>1, Recursion, Zenon
    <2>3. f \in [Nat -> Nat]
      BY <2>2 DEF S
    <2>4. f[0] = 1 /\ \A n \in Nat : f[n + 1] = h[<<n, f[n]>>]
      BY <2>2 DEF a, Iterates
    <2>5. QED
      BY <2>3, <2>4
  <1>2. Defines(f)
    <2>1. ASSUME NEW n \in Nat PROVE f[n] = IF n = 0 THEN 1 ELSE 2 * f[n - 1]
      <3>1. CASE n = 0
        BY <1>1, <3>1
      <3>2. CASE n # 0
        <4>1. n - 1 \in Nat /\ n - 1 + 1 = n
          BY <3>2
        <4>2. f[n - 1 + 1] = h[<<n - 1, f[n - 1]>>]
          BY <1>1, <4>1
        <4>3. QED
          BY <3>2, <4>1, <4>2
      <3>3. QED
        BY <3>1, <3>2
    <2>2. QED
      BY <2>1
  <1>3. Defines(Pow2)
    <2> HIDE DEF Defines
    <2>1. Pow2 = CHOOSE g : Defines(g)
      BY DEF Pow2, Defines
    <2>2. QED
      BY <1>2, <2>1
  <1>4. \A n \in Nat : Pow2[n] = IF n = 0 THEN 1 ELSE 2 * Pow2[n - 1]
    BY <1>3, Zenon
  <1>5. Pow2[0] = 1
    BY <1>4
  <1>6. \A b \in Nat : Pow2[b + 1] = 2 * Pow2[b]
    <2> TAKE b \in Nat
    <2>1. b + 1 \in Nat /\ b + 1 # 0 /\ b + 1 - 1 = b
      OBVIOUS
    <2>2. QED
      BY <1>4, <2>1
  <1>7. \A n \in Nat : Pow2[n] \in Nat
    <2> DEFINE T == {n \in Nat : Pow2[n] \in Nat}
    <2>1. 0 \in T
      BY <1>5
    <2>2. \A n \in Nat : n \in T => n + 1 \in T
      BY <1>6
    <2> HIDE DEF T
    <2>3. Nat \subseteq T
      BY <2>1, <2>2, SetInduction
    <2>4. QED
      BY <2>3 DEF T
  <1>8. QED
    BY <1>5, <1>6, <1>7

\* Masking the low bits of a position gives a number of as many bits.
LEMMA MaskedBelow ==
  ASSUME NEW x, NEW bits
  PROVE  \A n \in Nat : Masked(x, bits, n) \in 0 .. Pow2[n] - 1
  <1> DEFINE bit == [b \in Nat |-> IF b \in bits /\ (x \div Pow2[b]) % 2 = 1 THEN Pow2[b] ELSE 0]
             h == [p \in Nat \X Nat |-> p[2] + bit[p[1]]]
             Defines(f) ==
               f = [b \in Nat |->
                      IF b = 0 THEN 0
                      ELSE f[b - 1] + (IF b - 1 \in bits /\ (x \div Pow2[b - 1]) % 2 = 1
                                       THEN Pow2[b - 1] ELSE 0)]
             low == CHOOSE f : Defines(f)
  <1>1. \A b \in Nat : bit[b] \in 0 .. Pow2[b]
    BY Powers
  <1>2. \A n \in Nat : Masked(x, bits, n) = low[n]
    BY DEF Masked
  <1>3. \A f : Defines(f) <=> f = [b \in Nat |-> IF b = 0 THEN 0 ELSE f[b - 1] + bit[b - 1]]
    <2>1. \A b \in Nat : b # 0 => b - 1 \in Nat
      OBVIOUS
    <2>2. \A c \in Nat : bit[c] = IF c \in bits /\ (x \div Pow2[c]) % 2 = 1 THEN Pow2[c] ELSE 0
      OBVIOUS
    <2> HIDE DEF bit
    <2>3. ASSUME NEW f
          PROVE  [b \in Nat |->
                    IF b = 0 THEN 0
                    ELSE f[b - 1] + (IF b - 1 \in bits /\ (x \div Pow2[b - 1]) % 2 = 1
                                     THEN Pow2[b - 1] ELSE 0)]
                 = [b \in Nat |-> IF b = 0 THEN 0 ELSE f[b - 1] + bit[b - 1]]
      BY <2>1, <2>2, Zenon
    <2>4. QED
      BY <2>3
  <1> HIDE DEF bit, Defines
  <1>4. PICK f : f \in [Nat -> Nat] /\ Iterates(f, 0, h)
    <2> DEFINE S == Nat
               a == 0
    <2>1. h \in [Nat \X S -> S] /\ a \in S
      BY <1>1, Powers
    <2> HIDE DEF h, S, a
    <2>2. PICK f \in [Nat -> S] : Iterates(f, a, h)
      BY <2>1, Recursion, Zenon
    <2>3. QED
      BY <2>2 DEF S, a
  <1>5. Defines(f)
    <2>1. ASSUME NEW n \in Nat PROVE f[n] = IF n = 0 THEN 0 ELSE f[n - 1] + bit[n - 1]
      <3>1. CASE n = 0
        BY <1>4, <3>1 DEF Iterates
      <3>2. CASE n # 0
        <4>1. n - 1 \in Nat /\ n - 1 + 1 = n
          BY <3>2
        <4>2. f[n - 1 + 1] = h[<<n - 1, f[n - 1]>>]
          BY <1>4, <4>1 DEF Iterates
        <4>3. QED
          BY <1>4, <3>2, <4>1, <4>2
      <3>3. QED
        BY <3>1, <3>2
    <2>2. QED
      BY <1>3, <1>4, <2>1
  <1>6. Defines(low)
    BY <1>5
  <1> HIDE DEF low
  <1>7. \A n \in Nat : low[n] = IF n = 0 THEN 0 ELSE low[n - 1] + bit[n - 1]
    BY <1>3, <1>6, Zenon
  <1>8. low[0] = 0
    BY <1>7
  <1>9. \A n \in Nat : low[n + 1] = low[n] + bit[n]
    <2> TAKE n \in Nat
    <2>1. n + 1 \in Nat /\ n + 1 # 0 /\ n + 1 - 1 = n
      OBVIOUS
    <2>2. QED
      BY <1>7, <2>1
  <1>10. \A n \in Nat : low[n] \in 0 .. Pow2[n] - 1
    <2> DEFINE T == {n \in Nat : low[n] \in 0 .. Pow2[n] - 1}
    <2>1. 0 \in T
      BY <1>8, Powers
    <2>2. \A n \in Nat : n \in T => n + 1 \in T
      BY <1>1, <1>9, Powers
    <2> HIDE DEF T
    <2>3. Nat \subseteq T
      BY <2>1, <2>2, SetInduction
    <2>4. QED
      BY <2>3 DEF T
  <1>11. QED
    BY <1>2, <1>10

\* Comparing positions as one number, line above clock, is comparing the lines
\* and then the clocks.
LEMMA Concatenated ==
  ASSUME NEW P \in Nat, NEW v \in Nat, NEW w \in Nat, NEW h \in 0 .. P - 1, NEW k \in 0 .. P - 1,
         v > w \/ (v = w /\ h >= k)
  PROVE  v * P + h >= w * P + k
  <1>1. CASE v > w
    <2>1. PICK d \in Nat : v = w + 1 + d
      <3>1. v - w - 1 \in Nat /\ v = w + 1 + (v - w - 1)
        BY <1>1
      <3>2. QED
        BY <3>1
    <2>2. v * P = w * P + P + d * P
      BY <2>1
    <2>3. d * P \in Nat /\ w * P \in Nat
      BY <2>1
    <2>4. QED
      BY <2>2, <2>3
  <1>2. CASE v = w /\ h >= k
    <2>1. v * P \in Nat
      OBVIOUS
    <2>2. QED
      BY <1>2, <2>1
  <1>3. QED
    BY <1>1, <1>2

LEMMA ReachedInOrder ==
  ASSUME NEW line, NEW clock, Reaches(line, clock)
  PROVE  BeamReached(ir1, ir2, line, clock)
  <1>1. HBits \in Nat /\ VBits \in Nat
    BY ChipsetAssumption
  <1>2. /\ LineBits(ir2, line) \in Nat /\ LineBits(ir2, ir1.v) \in Nat
        /\ ClockBits(ir2, clock) \in 0 .. Pow2[HBits] - 1
        /\ ClockBits(ir2, ir1.h) \in 0 .. Pow2[HBits] - 1
        /\ Pow2[HBits] \in Nat
    <2>1. \A x, bits : Masked(x, bits, VBits) \in 0 .. Pow2[VBits] - 1
      BY <1>1, MaskedBelow
    <2>2. \A x, bits : Masked(x, bits, HBits) \in 0 .. Pow2[HBits] - 1
      BY <1>1, MaskedBelow
    <2>3. Pow2[VBits] \in Nat /\ Pow2[HBits] \in Nat
      BY <1>1, Powers
    <2>4. QED
      BY <2>1, <2>2, <2>3 DEF LineBits, ClockBits
  <1>3. QED
    BY <1>2, Concatenated DEF Reaches, BeamReached, Compared

\* The beam's next clock is the only one that has gone by since.
LEMMA OneMoreClock ==
  ASSUME TypeOK, ~AtFrameStart, AdvanceBeam, since' = since, NEW at \in ClocksSince'
  PROVE  at \in ClocksSince \/ at = beam
  <1>1. at \in Clocks /\ Before(since, at) /\ (AtFrameStart' \/ Before(at, beam'))
    BY DEF ClocksSince, Clocks, Before
  <1>2. PICK l \in 0 .. Lines - 1, c \in 0 .. LineClocks - 1 : at = <<l, c>>
    BY <1>1 DEF Clocks
  <1>3. /\ vpos \in 0 .. Lines - 1 /\ hpos \in 0 .. LineClocks - 1
        /\ Lines \in Nat /\ LineClocks \in Nat /\ l \in Int /\ c \in Int
    BY <1>2, ChipsetAssumption DEF TypeOK
  <1>4. AtFrameStart' \/ l < vpos' \/ (l = vpos' /\ c < hpos')
    BY <1>1, <1>2 DEF Before, beam
  <1>5. l < vpos \/ (l = vpos /\ c < hpos) \/ (l = vpos /\ c = hpos)
    BY <1>2, <1>3, <1>4 DEF AtFrameStart, AdvanceBeam
  <1>6. QED
    BY <1>1, <1>2, <1>5 DEF ClocksSince, Before, beam

\* While a WAIT goes on, a clock adds to those gone by one that is not the
\* Copper's or was compared.
LEMMA WaitGoesOn ==
  ASSUME TypeOK, NoWaitMissed, ~AtFrameStart, AdvanceBeam, UNCHANGED <<state, ir1, ir2, since>>,
         hpos % 2 = 1 \/ ~BeamReached(ir1, ir2, vpos, hpos)
  PROVE  NoWaitMissed'
  <1> SUFFICES ASSUME state = "Waiting", since # Nowhere, NEW at \in ClocksSince', at[2] % 2 = 0
               PROVE  ~Reaches(at[1], at[2])
    BY DEF NoWaitMissed, Reaches
  <1>1. CASE at \in ClocksSince
    BY <1>1 DEF NoWaitMissed
  <1>2. CASE at = beam
    BY <1>2, ReachedInOrder DEF beam
  <1>3. QED
    BY <1>1, <1>2, OneMoreClock

\* None has gone by when it begins.
LEMMA WaitBegins ==
  ASSUME TypeOK, AdvanceBeam, since' = beam
  PROVE  ClocksSince' = {}
  <1> SUFFICES ASSUME NEW at \in ClocksSince' PROVE FALSE
    OBVIOUS
  <1>1. at \in Clocks /\ Before(beam, at) /\ (AtFrameStart' \/ Before(at, beam'))
    BY DEF ClocksSince, Clocks, Before
  <1>2. PICK l \in 0 .. Lines - 1, c \in 0 .. LineClocks - 1 : at = <<l, c>>
    BY <1>1 DEF Clocks
  <1>3. /\ vpos \in 0 .. Lines - 1 /\ hpos \in 0 .. LineClocks - 1
        /\ Lines \in Nat /\ LineClocks \in Nat /\ l \in Int /\ c \in Int
    BY <1>2, ChipsetAssumption DEF TypeOK
  <1>4. /\ vpos < l \/ (vpos = l /\ hpos < c)
        /\ AtFrameStart' \/ l < vpos' \/ (l = vpos' /\ c < hpos')
    BY <1>1, <1>2 DEF Before, beam
  <1>5. QED
    BY <1>2, <1>3, <1>4 DEF AtFrameStart, AdvanceBeam

\* While the Copper waits with its DMA on, no clock since the one that fetched
\* the WAIT, on the WAIT's own line or on a later one, was at or past the
\* position it waits for: comparing only at the Copper's own clocks, and the two
\* fields as one number, misses none, for every size of the frame and of the
\* positions.
THEOREM NoWaitMissedAlways == Spec => []NoWaitMissed
  <1>1. Init => NoWaitMissed
    BY DEF Init, NoWaitMissed
  <1>2. TypeOK /\ NoWaitMissed /\ [Next]_vars => NoWaitMissed'
    <2> SUFFICES ASSUME TypeOK, NoWaitMissed, [Next]_vars PROVE NoWaitMissed'
      OBVIOUS
    <2>1. ASSUME state' # "Waiting" \/ since' = Nowhere PROVE NoWaitMissed'
      BY <2>1 DEF NoWaitMissed
    <2>2. CASE UNCHANGED <<beam, copper>>
      BY <2>2 DEF beam, copper, NoWaitMissed, ClocksSince, Clocks, Before, AtFrameStart, Reaches
    <2>3. ASSUME NEW r, Jump(Target(r)) PROVE NoWaitMissed'
      BY <2>1, <2>3 DEF Jump
    <2>4. CASE Tick
      <3>1. CASE VerticalBlank
        BY <2>1, <3>1 DEF VerticalBlank, FetchFirst
      <3>2. CASE ~AtFrameStart /\ Enabled("COPEN") /\ hpos % 2 = 0 /\ CopperTick
        <4>1. CASE Move
          BY <2>1, <2>3, <4>1 DEF Move
        <4>2. CASE Wait
          BY <2>4, <4>2, WaitBegins DEF Wait, Tick, NoWaitMissed
        <4>3. CASE Skip \/ FetchFirst(pc) \/ WaitEnds \/ state' = "FetchIr1"
          BY <2>1, <4>3 DEF Skip, FetchFirst, WaitEnds
        <4>4. CASE ~BeamReached(ir1, ir2, vpos, hpos) /\ UNCHANGED copper
          BY <2>4, <3>2, <4>4, WaitGoesOn DEF Tick, copper
        <4>5. CASE state = "Stopped" /\ UNCHANGED copper
          BY <2>1, <4>5 DEF copper
        <4>6. QED
          BY <3>2, <4>1, <4>2, <4>3, <4>4, <4>5 DEF CopperTick
      <3>3. CASE ~AtFrameStart /\ CopperRests
        <4>1. CASE ~Enabled("COPEN")
          BY <2>1, <3>3, <4>1 DEF CopperRests
        <4>2. CASE Enabled("COPEN")
          BY <2>4, <3>3, <4>2, WaitGoesOn DEF Tick, CopperRests
        <4>3. QED
          BY <4>1, <4>2
      <3>4. QED
        BY <2>4, <3>1, <3>2, <3>3 DEF Tick
    <2>5. ASSUME NEW r \in Registers, CpuWrite(r) \/ CpuRead(r) PROVE NoWaitMissed'
      BY <2>2, <2>3, <2>5 DEF CpuWrite, CpuRead
    <2>6. CASE UNCHANGED vars
      BY <2>2, <2>6 DEF vars
    <2>7. QED
      BY <2>4, <2>5, <2>6 DEF Next
  <1>3. QED
    BY <1>1, <1>2, CopperInStep, PTL DEF Spec
=============================================================================
