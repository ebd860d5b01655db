-------------------------- MODULE Cpu68000Proofs --------------------------
(***************************************************************************)
(* What Cpu68000 promises of the stacks, the exceptions and the user mode, *)
(* for every address space, every choice of pointers, SR values and        *)
(* displacements, and any number of nested exceptions.                     *)
(*                                                                         *)
(* The argument has four layers.  What one memory access, push or pop      *)
(* keeps (Keeps, Undisturbed), what it does to the parity of A7 (Level)    *)
(* and when it throws (Throws).  What an exception, an interrupt or an     *)
(* address error leaves: a frame that memory holds, below where SSP was    *)
(* (Enters), or a halted CPU (Halts).  What the instructions may lead to   *)
(* (Runs) and which of them can leave an odd stack (Straight).  Last, the  *)
(* inductive invariant IInv: between steps nothing is thrown and memory    *)
(* that answers still holds every pending frame, at an even address.       *)
(***************************************************************************)
EXTENDS Cpu68000, TLAPS

-----------------------------------------------------------------------------
(* Addresses: arithmetic modulo the address space, and parity.             *)

LEMMA DivMod ==
  ASSUME NEW a \in Int, NEW b \in Nat, b > 0
  PROVE  /\ a \div b \in Int /\ a % b \in 0 .. b - 1
         /\ a = b * (a \div b) + (a % b)
  OBVIOUS

LEMMA ModUnique ==
  ASSUME NEW b \in Nat, b > 0, NEW q \in Int, NEW r \in 0 .. b - 1, NEW p \in Int, NEW s \in 0 .. b - 1,
         b * q + r = b * p + s
  PROVE  r = s
  <1>1. ASSUME q > p PROVE FALSE
    <2>1. b * q >= b * (p + 1) BY <1>1
    <2> QED BY <2>1
  <1>2. ASSUME p > q PROVE FALSE
    <2>1. b * p >= b * (q + 1) BY <1>2
    <2> QED BY <2>1
  <1>3. q = p BY <1>1, <1>2
  <1> QED BY <1>3

LEMMA PlusType ==
  ASSUME NEW a \in Int, NEW n \in Int
  PROVE  Plus(a, n) \in Addresses
  BY CpuAssumption DEF Plus, Addresses

LEMMA PlusPlus ==
  ASSUME NEW a \in Int, NEW m \in Int, NEW n \in Int
  PROVE  Plus(Plus(a, m), n) = Plus(a, m + n)
  <1> DEFINE b == AddressSpace
             x == a + m
             y == (x % b) + n
             z == a + (m + n)
  <1>1. b \in Nat /\ b > 0 BY CpuAssumption
  <1>2. x = b * (x \div b) + (x % b) /\ x \div b \in Int /\ x % b \in 0 .. b - 1 BY <1>1, DivMod
  <1>3. y = b * (y \div b) + (y % b) /\ y \div b \in Int /\ y % b \in 0 .. b - 1 BY <1>1, <1>2, DivMod
  <1>4. z = b * (z \div b) + (z % b) /\ z \div b \in Int /\ z % b \in 0 .. b - 1 BY <1>1, DivMod
  <1>5. z = y + (x - (x % b)) BY <1>2, <1>1
  <1> DEFINE s == x \div b  r == y \div b
  <1>6. z = b * (s + r) + (y % b)
    <2>1. z = b * r + (y % b) + b * s BY <1>2, <1>3, <1>5, <1>1
    <2> HIDE DEF s, r, b, x, y, z
    <2>2. s \in Int /\ r \in Int /\ b \in Int BY <1>1, <1>2, <1>3 DEF s, r
    <2>3. b * (s + r) = b * s + b * r BY <2>2
    <2>4. b * s \in Int /\ b * r \in Int /\ y % b \in Int BY <2>2, <1>1, <1>3
    <2> QED BY <2>1, <2>3, <2>4
  <1>7. y % b = z % b
    <2> HIDE DEF b, x, y, z
    <2>1. s + r \in Int BY <1>2, <1>3
    <2> QED BY <1>1, <1>3, <1>4, <1>6, <2>1, ModUnique
  <1> QED BY <1>7 DEF Plus

LEMMA PlusTwo ==
  ASSUME NEW a \in Int
  PROVE  Plus(Plus(a, 2), 2) = Plus(a, 4) /\ Plus(Plus(a, 2), 4) = Plus(a, 6)
  <1> DEFINE two == 2
             four == 4
  <1>1. two \in Int /\ four \in Int OBVIOUS
  <1>2. two + two = 4 /\ two + four = 6 OBVIOUS
  <1> HIDE DEF two, four
  <1>3. Plus(Plus(a, two), two) = Plus(a, two + two) /\ Plus(Plus(a, two), four) = Plus(a, two + four)
    BY <1>1, PlusPlus
  <1>4. Plus(Plus(a, two), two) = Plus(a, 4) /\ Plus(Plus(a, two), four) = Plus(a, 6) BY <1>2, <1>3
  <1> QED BY <1>4 DEF two, four

LEMMA PlusOdd ==
  ASSUME NEW a \in Int, NEW n \in Int
  PROVE  Odd(Plus(a, n)) <=> Odd(a + n)
  <1> DEFINE b == AddressSpace
             x == a + n
             h == b \div 2
             q == x \div b
  <1>1. b \in Nat /\ b > 0 /\ b = 2 * h /\ h \in Nat BY CpuAssumption
  <1>2. x = b * q + (x % b) /\ q \in Int /\ x % b \in 0 .. b - 1 BY <1>1, DivMod
  <1>3. x = 2 * (h * q) + (x % b) /\ h * q \in Int
    <2> HIDE DEF b, x, h, q
    <2> QED BY <1>1, <1>2
  <1>4. x % 2 = (x % b) % 2
    <2> DEFINE k == h * q
               r == x % b
    <2>1. x = 2 * k + r /\ k \in Int /\ r \in Int BY <1>2, <1>3
    <2> HIDE DEF k, r, h, q, b
    <2>2. (2 * k + r) % 2 = r % 2 BY <2>1
    <2> QED BY <2>1, <2>2 DEF r
  <1> QED BY <1>4 DEF Odd, Plus

LEMMA PlusEven ==
  ASSUME NEW a \in Int, NEW n \in Int, n % 2 = 0
  PROVE  Odd(Plus(a, n)) <=> Odd(a)
  <1>1. Odd(Plus(a, n)) <=> Odd(a + n) BY PlusOdd
  <1>2. (a + n) % 2 = a % 2 OBVIOUS
  <1> QED BY <1>1, <1>2 DEF Odd

LEMMA PlusApart ==
  ASSUME NEW a \in Int, NEW m \in Int, NEW n \in Int, m < n, n - m < AddressSpace
  PROVE  Plus(a, m) # Plus(a, n)
  <1> DEFINE b == AddressSpace
             x == a + m
             y == a + n
             p == x \div b
             q == y \div b
  <1>1. b \in Nat /\ b > 0 BY CpuAssumption
  <1>2. x = b * p + (x % b) /\ p \in Int /\ x % b \in 0 .. b - 1 BY <1>1, DivMod
  <1>3. y = b * q + (y % b) /\ q \in Int /\ y % b \in 0 .. b - 1 BY <1>1, DivMod
  <1>4. y - x = n - m OBVIOUS
  <1> SUFFICES ASSUME x % b = y % b PROVE FALSE BY DEF Plus
  <1>5. y - x = b * (q - p)
    <2> DEFINE r == x % b
    <2> HIDE DEF b, x, y, p, q, r
    <2>1. x = b * p + r /\ y = b * q + r /\ r \in Int BY <1>1, <1>2, <1>3 DEF r
    <2>2. b * (q - p) = b * q - b * p BY <1>1, <1>2, <1>3
    <2>3. b * p \in Int /\ b * q \in Int BY <1>1, <1>2, <1>3
    <2> QED BY <2>1, <2>2, <2>3
  <1> HIDE DEF x, y, p, q
  <1>6. CASE q - p <= 0
    <2>1. b * (q - p) <= 0 BY <1>1, <1>2, <1>3, <1>6
    <2> QED BY <2>1, <1>4, <1>5
  <1>7. CASE q - p >= 1
    <2>1. b * (q - p) >= b BY <1>1, <1>2, <1>3, <1>7
    <2> QED BY <2>1, <1>1, <1>4, <1>5
  <1> QED BY <1>2, <1>3, <1>6, <1>7

-----------------------------------------------------------------------------
(* What a CPU is made of, and what an instruction keeps of it while it     *)
(* moves data, pushes and pops.                                            *)

Fields == {"sr", "a7", "otherSp", "pc", "instructionPc", "ipl", "nmiPending", "stopped", "halted",
           "inAddressError", "mem", "fault", "wrote", "frame"}

Contents == {Unknown} \cup [is : {"pcHi", "pcLo"}, pc : Addresses] \cup [is : {"sr"}, sr : SrValues]

Sound(c) ==
  /\ c = [f \in Fields |-> c[f]]
  /\ c.sr \in SrValues
  /\ c.a7 \in Addresses /\ c.otherSp \in Addresses
  /\ c.pc \in Addresses /\ c.instructionPc \in Addresses
  /\ c.ipl \in Levels /\ c.inAddressError \in BOOLEAN
  /\ \A a \in DOMAIN c.mem : c.mem[a] \in Contents

Undisturbed(b, c) ==
  /\ b.wrote \subseteq c.wrote
  /\ \A a \in DOMAIN b.mem \ c.wrote : a \in DOMAIN c.mem /\ c.mem[a] = b.mem[a]

Keeps(b, c) ==
  /\ Sound(c) /\ Undisturbed(b, c)
  /\ c.sr = b.sr /\ c.otherSp = b.otherSp /\ c.instructionPc = b.instructionPc
  /\ c.stopped = b.stopped /\ c.halted = b.halted /\ c.frame = b.frame
  /\ c.inAddressError = b.inAddressError

Level(b, c) == Odd(c.a7) <=> Odd(b.a7)

LEMMA KeepsSelf == \A c : Sound(c) => Keeps(c, c) /\ Level(c, c)
  BY DEF Keeps, Undisturbed, Level

LEMMA KeepsOn == \A b, c, d : Keeps(b, c) /\ Keeps(c, d) => Keeps(b, d)
  BY DEF Keeps, Undisturbed

LEMMA LevelOn == \A b, c, d : Level(b, c) /\ Level(c, d) => Level(b, d)
  BY DEF Level

LEMMA MoveA7 ==
  ASSUME NEW c, Sound(c), NEW v \in Addresses
  PROVE  LET d == [c EXCEPT !.a7 = v]
         IN /\ Keeps(c, d) /\ d.a7 = v /\ d.pc = c.pc /\ d.fault = c.fault /\ d.mem = c.mem
            /\ d.wrote = c.wrote
  BY DEF Sound, Keeps, Undisturbed, Fields

LEMMA MovePc ==
  ASSUME NEW c, Sound(c), NEW v \in Addresses
  PROVE  LET d == [c EXCEPT !.pc = v]
         IN /\ Keeps(c, d) /\ d.a7 = c.a7 /\ d.pc = v /\ d.fault = c.fault /\ d.mem = c.mem
            /\ d.wrote = c.wrote
  BY DEF Sound, Keeps, Undisturbed, Fields

LEMMA Errors == \A c : Panicked(c) => Thrown(c)
  BY DEF Panicked, Thrown, BusError, None

LEMMA Faults ==
  ASSUME NEW c, Sound(c), NEW d \in {DataFault(c), FetchFault(c), Panic(c)}
  PROVE  /\ Keeps(c, d) /\ Level(c, d) /\ d.a7 = c.a7 /\ d.pc = c.pc /\ d.mem = c.mem /\ d.wrote = c.wrote
         /\ Thrown(d) /\ (Panicked(d) <=> d = Panic(c))
  <1>1. ASSUME NEW fault, d = [c EXCEPT !.fault = fault]
        PROVE  /\ Keeps(c, d) /\ Level(c, d) /\ d.a7 = c.a7 /\ d.pc = c.pc /\ d.mem = c.mem
               /\ d.wrote = c.wrote /\ d.fault = fault
    BY <1>1 DEF Sound, Keeps, Undisturbed, Fields, Level
  <1>2. /\ [fetch |-> FALSE] # None /\ [fetch |-> TRUE] # None /\ BusError # None
        /\ [fetch |-> FALSE] # BusError /\ [fetch |-> TRUE] # BusError
    BY DEF None, BusError
  <1>3. CASE d = DataFault(c)
    <2>1. d.fault = [fetch |-> FALSE] /\ d # Panic(c)
      <3>1. d.fault = [fetch |-> FALSE] BY <1>1, <1>3 DEF DataFault
      <3>2. Panic(c).fault = BusError BY DEF Panic, Sound, Fields
      <3> QED BY <1>2, <3>1, <3>2
    <2> QED BY <1>1, <1>2, <1>3, <2>1 DEF DataFault, Thrown, Panicked
  <1>4. CASE d = FetchFault(c)
    <2>1. d.fault = [fetch |-> TRUE] /\ d # Panic(c)
      <3>1. d.fault = [fetch |-> TRUE] BY <1>1, <1>4 DEF FetchFault
      <3>2. Panic(c).fault = BusError BY DEF Panic, Sound, Fields
      <3> QED BY <1>2, <3>1, <3>2
    <2> QED BY <1>1, <1>2, <1>4, <2>1 DEF FetchFault, Thrown, Panicked
  <1>5. CASE d = Panic(c)
    BY <1>1, <1>2, <1>5 DEF Panic, Thrown, Panicked
  <1> QED BY <1>3, <1>4, <1>5

\* Whether d, which accesses n words at a from c on, throws.
Answered(a, n) == \A b \in Words(a, n) : ~Silent(b)
Throws(c, d, a, n) ==
  /\ Thrown(c) => d = c
  /\ ~Thrown(c) /\ n # 0 /\ Odd(a) => Thrown(d) /\ ~Panicked(d)
  /\ ~Thrown(c) /\ ~Odd(a) => Panicked(d) \/ (~Thrown(d) /\ Answered(a, n))
  /\ ~Thrown(c) /\ ~Odd(a) /\ Answered(a, n) => ~Thrown(d)

LEMMA ReachKeeps ==
  ASSUME NEW c, Sound(c), NEW a, NEW n
  PROVE  LET d == Reach(c, a, n)
         IN /\ Keeps(c, d) /\ Level(c, d) /\ d.a7 = c.a7 /\ d.pc = c.pc /\ d.mem = c.mem /\ d.wrote = c.wrote
            /\ d = c \/ Thrown(d)
            /\ n # 0 => Throws(c, d, a, n)
  <1> DEFINE d == Reach(c, a, n)
  <1>1. CASE Thrown(c) \/ n = 0
    <2>1. d = c BY <1>1 DEF Reach
    <2> QED BY <1>1, <2>1, KeepsSelf DEF Throws
  <1>2. CASE ~Thrown(c) /\ n # 0 /\ Odd(a)
    <2>1. d = DataFault(c) BY <1>2 DEF Reach
    <2>2. ~Panicked(d)
      <3>1. DataFault(c).fault = [fetch |-> FALSE] BY DEF DataFault, Sound, Fields
      <3> QED BY <2>1, <3>1 DEF Panicked, BusError
    <2> QED BY <1>2, <2>1, <2>2, Faults DEF Throws
  <1>3. CASE ~Thrown(c) /\ n # 0 /\ ~Odd(a) /\ ~Answered(a, n)
    <2>1. d = Panic(c) BY <1>3 DEF Reach, Answered
    <2> QED BY <1>3, <2>1, Faults DEF Throws
  <1>4. CASE ~Thrown(c) /\ n # 0 /\ ~Odd(a) /\ Answered(a, n)
    <2>1. d = c BY <1>4 DEF Reach, Answered
    <2> QED BY <1>4, <2>1, KeepsSelf DEF Throws
  <1> QED BY <1>1, <1>2, <1>3, <1>4

LEMMA FetchOne ==
  ASSUME NEW c, Sound(c)
  PROVE  LET d == fetch16(c)
         IN Keeps(c, d) /\ Level(c, d) /\ d.a7 = c.a7 /\ d.mem = c.mem /\ d.wrote = c.wrote
  <1>1. c.pc \in Int BY CpuAssumption DEF Sound, Addresses
  <1>2. Plus(c.pc, 2) \in Addresses BY <1>1, PlusType
  <1> QED BY <1>2, MovePc, KeepsSelf, Faults DEF fetch16, Level

LEMMA FetchKeeps ==
  ASSUME NEW c, Sound(c), NEW n
  PROVE  LET d == FetchWords(c, n)
         IN Keeps(c, d) /\ Level(c, d) /\ d.a7 = c.a7 /\ d.mem = c.mem /\ d.wrote = c.wrote
  <1>1. CASE n = 0 BY <1>1, KeepsSelf DEF FetchWords
  <1>2. CASE n = 1 BY <1>2, FetchOne DEF FetchWords
  <1>3. CASE n # 0 /\ n # 1
    <2> DEFINE b == fetch16(c)
               d == fetch16(b)
    <2>1. FetchWords(c, n) = d BY <1>3 DEF FetchWords
    <2>2. Keeps(c, b) /\ Level(c, b) /\ b.a7 = c.a7 /\ b.mem = c.mem /\ b.wrote = c.wrote BY FetchOne
    <2>3. Sound(b) BY <2>2 DEF Keeps
    <2> HIDE DEF b
    <2>4. Keeps(b, d) /\ Level(b, d) /\ d.a7 = b.a7 /\ d.mem = b.mem /\ d.wrote = b.wrote BY <2>3, FetchOne
    <2> HIDE DEF d
    <2> QED BY <2>1, <2>2, <2>4, KeepsOn, LevelOn
  <1> QED BY <1>1, <1>2, <1>3

LEMMA JumpKeeps ==
  ASSUME NEW c, Sound(c), NEW v \in Addresses
  PROVE  LET d == JumpTo(c, v)
         IN /\ Keeps(c, d) /\ Level(c, d) /\ d.a7 = c.a7 /\ d.fault = c.fault /\ d.mem = c.mem
            /\ d.wrote = c.wrote /\ (~Thrown(c) => d.pc = v)
  BY MovePc, KeepsSelf DEF JumpTo, Level

LEMMA WordsWritten ==
  ASSUME NEW a \in Addresses, NEW i \in Nat \ {0}
  PROVE  LET j == ((Plus(a, 2 * (i - 1)) - a) % AddressSpace) \div 2 + 1
         IN /\ j \in 1 .. i
            /\ 2 * (i - 1) < AddressSpace => j = i
  <1> DEFINE k == 2 * (i - 1)
             r == (Plus(a, k) - a) % AddressSpace
  <1>0. AddressSpace \in Nat /\ AddressSpace > 0 /\ a \in Int /\ k \in Nat BY CpuAssumption DEF Addresses
  <1>1. r = k % AddressSpace
    <2>1. Plus(Plus(a, k), -a) = Plus(a, k + (-a)) BY <1>0, PlusPlus
    <2>2. Plus(a, k + (-a)) = k % AddressSpace
      <3>1. a + (k + (-a)) = k BY <1>0
      <3> QED BY <3>1 DEF Plus
    <2>3. Plus(Plus(a, k), -a) = r
      <3>1. Plus(a, k) \in Int BY <1>0, PlusType DEF Addresses
      <3>2. Plus(a, k) + (-a) = Plus(a, k) - a BY <3>1, <1>0
      <3> QED BY <3>2 DEF Plus
    <2> QED BY <2>1, <2>2, <2>3
  <1>2. r \in 0 .. k /\ (k < AddressSpace => r = k)
    <2> DEFINE q == k \div AddressSpace
               m == k % AddressSpace
    <2>1. k = AddressSpace * q + m /\ q \in Int /\ m \in 0 .. AddressSpace - 1
      BY <1>0, DivMod
    <2> HIDE DEF q, m, k
    <2>2. ASSUME q < 0 PROVE FALSE
      <3>1. AddressSpace * q <= -AddressSpace BY <1>0, <2>1, <2>2
      <3> QED BY <3>1, <1>0, <2>1
    <2>3. AddressSpace * q >= 0 BY <1>0, <2>1, <2>2
    <2>4. ASSUME k < AddressSpace PROVE q = 0
      <3>1. ASSUME q >= 1 PROVE FALSE
        <4>1. AddressSpace * q >= AddressSpace BY <1>0, <2>1, <3>1
        <4> QED BY <4>1, <1>0, <2>1, <2>4
      <3> QED BY <3>1, <2>1, <2>2
    <2>5. AddressSpace * q \in Int BY <1>0, <2>1
    <2> QED BY <1>0, <1>1, <2>1, <2>3, <2>4, <2>5 DEF m
  <1> HIDE DEF r
  <1>3. r \div 2 + 1 \in 1 .. i /\ (k < AddressSpace => r \div 2 + 1 = i) BY <1>2
  <1> QED BY <1>3 DEF r

LEMMA WriteKeeps ==
  ASSUME NEW c, Sound(c), NEW a \in Addresses, NEW w \in Seq(Contents)
  PROVE  LET d == WriteWords(c, a, w)
         IN /\ Keeps(c, d) /\ Level(c, d) /\ d.a7 = c.a7 /\ d.pc = c.pc
            /\ w # <<>> => Throws(c, d, a, Len(w))
  <1> DEFINE r == Reach(c, a, Len(w))
             d == WriteWords(c, a, w)
             Index(b) == ((b - a) % AddressSpace) \div 2 + 1
             written  == Words(a, Len(w))
             memory   == [b \in DOMAIN c.mem \cup written |-> IF b \in written THEN w[Index(b)] ELSE c.mem[b]]
  <1>0. Len(w) \in Nat /\ DOMAIN w = 1 .. Len(w) /\ (w # <<>> => Len(w) # 0) OBVIOUS
  <1>1. /\ Keeps(c, r) /\ Level(c, r) /\ r.a7 = c.a7 /\ r.pc = c.pc
        /\ r = c \/ Thrown(r)
        /\ Len(w) # 0 => Throws(c, r, a, Len(w))
    BY ReachKeeps
  <1> HIDE DEF r
  <1>2. CASE Thrown(r)
    <2>1. d = r BY <1>2 DEF WriteWords, r
    <2> QED BY <2>1, <1>0, <1>1
  <1>3. CASE ~Thrown(r)
    <2>0. r = c BY <1>1, <1>3
    <2>1. d = [c EXCEPT !.mem = memory, !.wrote = @ \cup written]
      BY <1>3, <2>0 DEF WriteWords, r
    <2>2. \A b \in written : w[Index(b)] \in Contents
      <3> SUFFICES ASSUME NEW i \in 1 .. Len(w) PROVE w[Index(Plus(a, 2 * (i - 1)))] \in Contents
        BY DEF Words
      <3>1. i \in Nat \ {0} BY <1>0
      <3>2. Index(Plus(a, 2 * (i - 1))) \in 1 .. i BY <3>1, WordsWritten
      <3> HIDE DEF Index
      <3>3. Index(Plus(a, 2 * (i - 1))) \in DOMAIN w BY <1>0, <3>1, <3>2
      <3> QED BY <3>3
    <2>3. \A b \in DOMAIN memory : memory[b] \in Contents
      BY <2>2 DEF Sound
    <2>4. \A b \in DOMAIN c.mem \ written : b \in DOMAIN memory /\ memory[b] = c.mem[b]
      OBVIOUS
    <2> HIDE DEF memory, written, d
    <2>5. /\ d = [f \in Fields |-> d[f]]
          /\ d.mem = memory /\ d.wrote = c.wrote \cup written
          /\ d.sr = c.sr /\ d.a7 = c.a7 /\ d.otherSp = c.otherSp /\ d.pc = c.pc
          /\ d.instructionPc = c.instructionPc /\ d.ipl = c.ipl /\ d.stopped = c.stopped
          /\ d.halted = c.halted /\ d.frame = c.frame /\ d.fault = c.fault
          /\ d.inAddressError = c.inAddressError
      BY <2>1 DEF Sound, Fields
    <2>6. Sound(d) BY <2>3, <2>5 DEF Sound
    <2>7. Undisturbed(c, d) BY <2>4, <2>5 DEF Undisturbed
    <2>8. ~Thrown(d) /\ ~Thrown(c) BY <2>0, <2>5, <1>3 DEF Thrown
    <2>9. w # <<>> => Throws(c, d, a, Len(w)) BY <1>0, <1>1, <2>0, <2>8, Errors DEF Throws
    <2> QED BY <2>5, <2>6, <2>7, <2>9 DEF Keeps, Level, d
  <1> QED BY <1>2, <1>3

\* What a push of one or two words leaves in memory.
LEMMA WriteStores ==
  ASSUME NEW c, Sound(c), NEW a \in Addresses, NEW w \in Seq(Contents), Len(w) \in 1 .. 2,
         ~Thrown(WriteWords(c, a, w))
  PROVE  LET d == WriteWords(c, a, w)
         IN /\ a \in DOMAIN d.mem /\ d.mem[a] = w[1]
            /\ Len(w) = 2 => Plus(a, 2) \in DOMAIN d.mem /\ d.mem[Plus(a, 2)] = w[2]
            /\ \A b \in DOMAIN c.mem : b # a /\ (Len(w) = 2 => b # Plus(a, 2)) =>
                 b \in DOMAIN d.mem /\ d.mem[b] = c.mem[b]
            /\ a \in d.wrote
  <1>0. 1 <= Len(w) /\ w # <<>> BY Z3
  <1> DEFINE d == WriteWords(c, a, w)
             Index(b) == ((b - a) % AddressSpace) \div 2 + 1
             written  == Words(a, Len(w))
             memory   == [b \in DOMAIN c.mem \cup written |-> IF b \in written THEN w[Index(b)] ELSE c.mem[b]]
  <1>1. d = [c EXCEPT !.mem = memory, !.wrote = @ \cup written]
    <2>1. Reach(c, a, Len(w)) = c \/ Thrown(Reach(c, a, Len(w))) BY ReachKeeps
    <2> QED BY <2>1 DEF WriteWords
  <1>2. d.mem = memory /\ d.wrote = c.wrote \cup written
    <2> HIDE DEF memory, written, d
    <2> QED BY <1>1 DEF Sound, Fields
  <1>3. DOMAIN w = 1 .. Len(w) /\ AddressSpace >= 16 /\ AddressSpace \in Nat BY CpuAssumption
  <1>4. Plus(a, 0) = a BY <1>3 DEF Plus, Addresses
  <1>5. ASSUME NEW i \in 1 .. 2, i <= Len(w)
        PROVE  Plus(a, 2 * (i - 1)) \in written /\ Index(Plus(a, 2 * (i - 1))) = i
    <2>1. i \in Nat \ {0} /\ 2 * (i - 1) < AddressSpace /\ i \in 1 .. Len(w) BY <1>3, <1>5
    <2> QED BY <2>1, WordsWritten DEF Words
  <1>6. a \in written /\ Index(a) = 1
    <2>1. 2 * (1 - 1) = 0 /\ 1 \in 1 .. 2 OBVIOUS
    <2> HIDE DEF written, Index
    <2>2. Plus(a, 2 * (1 - 1)) \in written /\ Index(Plus(a, 2 * (1 - 1))) = 1 BY <1>0, <2>1, <1>5
    <2> QED BY <1>4, <2>1, <2>2
  <1>7. Len(w) = 2 => Plus(a, 2) \in written /\ Index(Plus(a, 2)) = 2
    <2>1. 2 * (2 - 1) = 2 /\ 2 \in 1 .. 2 OBVIOUS
    <2> HIDE DEF written, Index
    <2>2. Len(w) = 2 => Plus(a, 2 * (2 - 1)) \in written /\ Index(Plus(a, 2 * (2 - 1))) = 2 BY <2>1, <1>5
    <2> QED BY <2>1, <2>2
  <1>8. \A b \in written : b = a \/ (Len(w) = 2 /\ b = Plus(a, 2))
    <2> SUFFICES ASSUME NEW i \in 1 .. Len(w)
                 PROVE  Plus(a, 2 * (i - 1)) = a \/ (Len(w) = 2 /\ Plus(a, 2 * (i - 1)) = Plus(a, 2))
      BY DEF Words
    <2>1. CASE i = 1 BY <2>1, <1>4
    <2>2. CASE i = 2 /\ Len(w) = 2 BY <2>2
    <2> QED BY <2>1, <2>2, <1>3
  <1> HIDE DEF Index, written
  <1> QED BY <1>2, <1>6, <1>7, <1>8 DEF memory

LEMMA PushKeeps ==
  ASSUME NEW c, Sound(c), NEW w \in Seq(Contents), w # <<>>
  PROVE  LET d == Push(c, w)
         IN /\ Keeps(c, d) /\ Level(c, d) /\ d.pc = c.pc
            /\ ~Thrown(c) => d.a7 = Plus(c.a7, -2 * Len(w))
            /\ Thrown(c) => d = c
            /\ ~Thrown(c) /\ Odd(c.a7) => Thrown(d) /\ ~Panicked(d)
            /\ ~Thrown(c) /\ ~Odd(c.a7) =>
                 Panicked(d) \/ (~Thrown(d) /\ Answered(Plus(c.a7, -2 * Len(w)), Len(w)))
            /\ ~Thrown(c) /\ ~Odd(c.a7) /\ Answered(Plus(c.a7, -2 * Len(w)), Len(w)) => ~Thrown(d)
  <1>1. CASE Thrown(c) BY <1>1, KeepsSelf DEF Push
  <1>2. CASE ~Thrown(c)
    <2> DEFINE n == Plus(c.a7, -2 * Len(w))
               m == [c EXCEPT !.a7 = n]
               d == WriteWords(m, n, w)
    <2>1. Push(c, w) = d
      <3>1. m = [c EXCEPT !.a7 = Plus(@, -2 * Len(w))] OBVIOUS
      <3> QED BY <1>2, <3>1 DEF Push
    <2>2. c.a7 \in Int /\ Len(w) \in Nat /\ Len(w) # 0 BY CpuAssumption DEF Sound, Addresses
    <2>3. n \in Addresses BY <2>2, PlusType
    <2>4. Odd(n) <=> Odd(c.a7)
      <3>1. -2 * Len(w) \in Int /\ (-2 * Len(w)) % 2 = 0 BY <2>2
      <3> QED BY <2>2, <3>1, PlusEven
    <2> HIDE DEF n
    <2>5. /\ Keeps(c, m) /\ m.a7 = n /\ m.pc = c.pc /\ m.fault = c.fault /\ Sound(m)
      BY <2>3, MoveA7 DEF Keeps
    <2> HIDE DEF m
    <2>6. /\ Keeps(m, d) /\ Level(m, d) /\ d.a7 = m.a7 /\ d.pc = m.pc
          /\ Throws(m, d, n, Len(w))
      BY <2>3, <2>5, WriteKeeps
    <2> HIDE DEF d
    <2>7. Keeps(c, d) BY <2>5, <2>6, KeepsOn
    <2>8. ~Thrown(m) BY <1>2, <2>5 DEF Thrown
    <2>9. /\ Odd(c.a7) => Thrown(d) /\ ~Panicked(d)
          /\ ~Odd(c.a7) => Panicked(d) \/ (~Thrown(d) /\ Answered(n, Len(w)))
          /\ ~Odd(c.a7) /\ Answered(n, Len(w)) => ~Thrown(d)
      BY <2>2, <2>4, <2>6, <2>8 DEF Throws
    <2> QED BY <1>2, <2>1, <2>4, <2>5, <2>6, <2>7, <2>9 DEF Level, n
  <1> QED BY <1>1, <1>2

LEMMA OneWord == \A a \in Addresses : Words(a, 1) = {a}
  <1> SUFFICES ASSUME NEW a \in Addresses PROVE Words(a, 1) = {a}
    OBVIOUS
  <1>1. Words(a, 1) = {Plus(a, 0)} BY DEF Words
  <1>2. Plus(a, 0) = a BY CpuAssumption DEF Plus, Addresses
  <1> QED BY <1>1, <1>2

LEMMA TwoWords == \A a \in Addresses : Words(a, 2) = {a, Plus(a, 2)}
  <1> SUFFICES ASSUME NEW a \in Addresses PROVE Words(a, 2) = {a, Plus(a, 2)}
    OBVIOUS
  <1>1. Words(a, 2) = {Plus(a, 0), Plus(a, 2)} BY DEF Words
  <1>2. Plus(a, 0) = a BY CpuAssumption DEF Plus, Addresses
  <1> QED BY <1>1, <1>2

\* What becomes of n words pushed at low.
Pushes(c, d, low, n) ==
  /\ Keeps(c, d) /\ Level(c, d) /\ d.pc = c.pc
  /\ ~Thrown(c) => d.a7 = low
  /\ Thrown(c) => d = c
  /\ ~Thrown(c) /\ Odd(c.a7) => Thrown(d) /\ ~Panicked(d)
  /\ ~Thrown(c) /\ ~Odd(c.a7) => Panicked(d) \/ (~Thrown(d) /\ Answered(low, n))
  /\ ~Thrown(c) /\ ~Odd(c.a7) /\ Answered(low, n) => ~Thrown(d)

LEMMA Push16 ==
  ASSUME NEW c, Sound(c), NEW w \in Contents
  PROVE  LET d == push16(c, w)
         IN /\ Pushes(c, d, Plus(c.a7, -2), 1)
            /\ ~Thrown(d) => /\ d.a7 \in DOMAIN d.mem /\ d.mem[d.a7] = w /\ ~Silent(d.a7)
                             /\ \A b \in DOMAIN c.mem : b # d.a7 => b \in DOMAIN d.mem /\ d.mem[b] = c.mem[b]
  <1> DEFINE s == <<w>>
             n == Plus(c.a7, -2)
             d == push16(c, w)
  <1>1. s \in Seq(Contents) /\ s # <<>> /\ Len(s) = 1 /\ s[1] = w OBVIOUS
  <1> HIDE DEF s
  <1>2. d = Push(c, s) BY DEF push16, s
  <1>3. Pushes(c, d, n, 1)
    <2>1. -2 * Len(s) = -2 BY <1>1
    <2> QED BY <1>1, <1>2, <2>1, PushKeeps DEF Pushes
  <1>4. ASSUME ~Thrown(d)
        PROVE  /\ d.a7 \in DOMAIN d.mem /\ d.mem[d.a7] = w /\ ~Silent(d.a7)
               /\ \A b \in DOMAIN c.mem : b # d.a7 => b \in DOMAIN d.mem /\ d.mem[b] = c.mem[b]
    <2> DEFINE m == [c EXCEPT !.a7 = n]
    <2>1. ~Thrown(c) /\ ~Odd(c.a7) /\ d.a7 = n /\ Answered(n, 1) BY <1>3, <1>4, Errors DEF Pushes
    <2>2. c.a7 \in Int BY CpuAssumption DEF Sound, Addresses
    <2>3. n \in Addresses BY <2>2, PlusType
    <2>4. d = WriteWords(m, n, s) BY <1>1, <1>2, <2>1 DEF Push
    <2>5. ~Silent(n) BY <2>1, <2>3, OneWord DEF Answered
    <2> HIDE DEF n
    <2>6. Sound(m) /\ m.mem = c.mem BY <2>3, MoveA7 DEF Keeps
    <2> HIDE DEF m, d
    <2>7. /\ n \in DOMAIN d.mem /\ d.mem[n] = w
          /\ \A b \in DOMAIN m.mem : b # n => b \in DOMAIN d.mem /\ d.mem[b] = m.mem[b]
      BY <1>1, <1>4, <2>3, <2>4, <2>6, WriteStores
    <2> QED BY <2>1, <2>5, <2>6, <2>7
  <1> QED BY <1>3, <1>4

LEMMA PushTwo ==
  ASSUME NEW c, Sound(c), NEW v \in Contents, NEW w \in Contents
  PROVE  LET d == Push(c, <<v, w>>)
         IN /\ Pushes(c, d, Plus(c.a7, -4), 2)
            /\ ~Thrown(d) => /\ d.a7 \in DOMAIN d.mem /\ d.mem[d.a7] = v /\ ~Silent(d.a7)
                             /\ Plus(d.a7, 2) \in DOMAIN d.mem /\ d.mem[Plus(d.a7, 2)] = w
                             /\ ~Silent(Plus(d.a7, 2))
                             /\ \A b \in DOMAIN c.mem : b # d.a7 /\ b # Plus(d.a7, 2) =>
                                  b \in DOMAIN d.mem /\ d.mem[b] = c.mem[b]
  <1> DEFINE s == <<v, w>>
             n == Plus(c.a7, -4)
             d == Push(c, s)
  <1>1. s \in Seq(Contents) /\ s # <<>> /\ Len(s) = 2 /\ s[1] = v /\ s[2] = w OBVIOUS
  <1> HIDE DEF s
  <1>3. Pushes(c, d, n, 2)
    <2>1. -2 * Len(s) = -4 BY <1>1
    <2> QED BY <1>1, <2>1, PushKeeps DEF Pushes
  <1>4. ASSUME ~Thrown(d)
        PROVE  /\ d.a7 \in DOMAIN d.mem /\ d.mem[d.a7] = v /\ ~Silent(d.a7)
               /\ Plus(d.a7, 2) \in DOMAIN d.mem /\ d.mem[Plus(d.a7, 2)] = w
               /\ ~Silent(Plus(d.a7, 2))
               /\ \A b \in DOMAIN c.mem : b # d.a7 /\ b # Plus(d.a7, 2) =>
                    b \in DOMAIN d.mem /\ d.mem[b] = c.mem[b]
    <2> DEFINE m == [c EXCEPT !.a7 = n]
    <2>1. ~Thrown(c) /\ ~Odd(c.a7) /\ d.a7 = n /\ Answered(n, 2) BY <1>3, <1>4, Errors DEF Pushes
    <2>2. c.a7 \in Int BY CpuAssumption DEF Sound, Addresses
    <2>3. n \in Addresses BY <2>2, PlusType
    <2>4. d = WriteWords(m, n, s)
      <3>1. -2 * Len(s) = -4 BY <1>1
      <3> QED BY <3>1, <2>1 DEF Push
    <2>5. ~Silent(n) /\ ~Silent(Plus(n, 2)) BY <2>1, <2>3, TwoWords DEF Answered
    <2> HIDE DEF n
    <2>6. Sound(m) /\ m.mem = c.mem BY <2>3, MoveA7 DEF Keeps
    <2> HIDE DEF m, d
    <2>7. /\ n \in DOMAIN d.mem /\ d.mem[n] = v
          /\ Plus(n, 2) \in DOMAIN d.mem /\ d.mem[Plus(n, 2)] = w
          /\ \A b \in DOMAIN m.mem : b # n /\ b # Plus(n, 2) => b \in DOMAIN d.mem /\ d.mem[b] = m.mem[b]
      BY <1>1, <1>4, <2>3, <2>4, <2>6, WriteStores
    <2> QED BY <2>1, <2>5, <2>6, <2>7
  <1> QED BY <1>3, <1>4 DEF s

LEMMA PushedWords ==
  /\ Unknown \in Contents
  /\ \A pc \in Addresses : [is |-> "pcHi", pc |-> pc] \in Contents /\ [is |-> "pcLo", pc |-> pc] \in Contents
  /\ \A sr \in SrValues : [is |-> "sr", sr |-> sr] \in Contents
  BY DEF Contents

LEMMA PoppedKeeps ==
  ASSUME NEW c, Sound(c), NEW n \in Nat
  PROVE  LET d == Popped(c, n)
         IN /\ Keeps(c, d) /\ Level(c, d) /\ d.mem = c.mem
            /\ n # 0 => Throws(c, d, c.a7, n)
            /\ ~Thrown(d) => d.a7 = Plus(c.a7, 2 * n)
  <1> DEFINE r == Reach(c, c.a7, n)
             v == Plus(c.a7, 2 * n)
             m == [c EXCEPT !.a7 = v]
  <1>1. /\ Keeps(c, r) /\ Level(c, r) /\ r.mem = c.mem /\ r.a7 = c.a7
        /\ r = c \/ Thrown(r)
        /\ n # 0 => Throws(c, r, c.a7, n)
    BY ReachKeeps
  <1>2. Popped(c, n) = IF Thrown(r) THEN r ELSE [r EXCEPT !.a7 = Plus(@, 2 * n)] BY DEF Popped
  <1> HIDE DEF r
  <1>3. CASE Thrown(r) BY <1>1, <1>2, <1>3
  <1>4. CASE ~Thrown(r)
    <2>1. r = c BY <1>1, <1>4
    <2>2. Popped(c, n) = m BY <1>2, <1>4, <2>1
    <2>3. c.a7 \in Int /\ 2 * n \in Int /\ (2 * n) % 2 = 0 BY CpuAssumption DEF Sound, Addresses
    <2>4. v \in Addresses /\ (Odd(v) <=> Odd(c.a7)) BY <2>3, PlusType, PlusEven
    <2> HIDE DEF v
    <2>5. Keeps(c, m) /\ m.a7 = v /\ m.mem = c.mem /\ m.fault = c.fault BY <2>4, MoveA7
    <2> HIDE DEF m
    <2>6. ~Thrown(m) /\ ~Thrown(c) BY <1>4, <2>1, <2>5 DEF Thrown
    <2>7. n # 0 => Throws(c, m, c.a7, n) BY <1>1, <2>1, <2>6, Errors DEF Throws
    <2> QED BY <2>2, <2>4, <2>5, <2>7 DEF Level, v
  <1> QED BY <1>3, <1>4

LEMMA Pop16 ==
  ASSUME NEW c, Sound(c), NEW p \in pop16(c)
  PROVE  /\ p.cpu = Popped(c, 1) /\ Keeps(c, p.cpu) /\ Level(c, p.cpu) /\ p.value \in SrValues
         /\ Holds(c, c.a7, "sr") => p.value = c.mem[c.a7].sr
  <1>1. PICK sr \in SrsAt(c, c.a7) : p = [cpu |-> Popped(c, 1), value |-> sr] BY DEF pop16
  <1>2. p.cpu = Popped(c, 1) /\ p.value = sr BY <1>1
  <1>3. Holds(c, c.a7, "sr") => c.mem[c.a7].sr \in SrValues
    BY DEF Holds, Sound, Contents, Unknown
  <1>4. sr \in SrValues BY <1>1, <1>3, CpuAssumption DEF SrsAt
  <1>5. Holds(c, c.a7, "sr") => sr = c.mem[c.a7].sr BY <1>1 DEF SrsAt
  <1>6. Keeps(c, Popped(c, 1)) /\ Level(c, Popped(c, 1)) BY PoppedKeeps
  <1> QED BY <1>2, <1>4, <1>5, <1>6

LEMMA Pop32 ==
  ASSUME NEW c, Sound(c), NEW p \in pop32(c)
  PROVE  /\ p.cpu = Popped(c, 2) /\ Keeps(c, p.cpu) /\ Level(c, p.cpu) /\ p.value \in Addresses
         /\ p.value \in LongsAt(c, c.a7)
  <1>1. PICK v \in LongsAt(c, c.a7) : p = [cpu |-> Popped(c, 2), value |-> v] BY DEF pop32
  <1>2. p.cpu = Popped(c, 2) /\ p.value = v BY <1>1
  <1>3. Holds(c, c.a7, "pcHi") => c.mem[c.a7].pc \in Addresses
    BY DEF Holds, Sound, Contents, Unknown
  <1>4. v \in Addresses BY <1>1, <1>3, CpuAssumption DEF LongsAt
  <1>5. Keeps(c, Popped(c, 2)) /\ Level(c, Popped(c, 2)) BY PoppedKeeps
  <1> QED BY <1>1, <1>2, <1>4, <1>5

-----------------------------------------------------------------------------
(* Operands.                                                               *)

Vias == {"register", "memory", "(A7)", "(A7)+", "-(A7)"}
Dos  == {"address", "read", "write", "modify"}
Operands == [do : Dos, via : Vias, ext : 0 .. 2, size : Sizes]

LEMMA ShapesType ==
  ASSUME NEW mode, NEW size
  PROVE  \A s \in Shapes(mode, size) : s.via \in Vias /\ s.ext \in 0 .. 2
  <1>1. CASE mode \in {"Dn", "An"} BY <1>1 DEF Shapes, Vias
  <1>2. CASE mode = "(An)" BY <1>2 DEF Shapes, Vias
  <1>3. CASE mode = "(An)+" BY <1>3 DEF Shapes, Vias
  <1>4. CASE mode = "-(An)" BY <1>4 DEF Shapes, Vias
  <1>5. CASE mode = "abs.L" BY <1>5 DEF Shapes, Vias
  <1>6. CASE mode = "#imm" BY <1>6 DEF Shapes, Vias
  <1>7. CASE mode \notin {"Dn", "An", "(An)", "(An)+", "-(An)", "abs.L", "#imm"} BY <1>7 DEF Shapes, Vias
  <1> QED BY <1>1, <1>2, <1>3, <1>4, <1>5, <1>6, <1>7

LEMMA OperandType ==
  ASSUME NEW do \in Dos, NEW modes, NEW sizes \in SUBSET Sizes
  PROVE  Operand(do, modes, sizes) \subseteq Operands
  BY ShapesType DEF Operand, Operands

LEMMA DecodeKeeps ==
  ASSUME NEW c, Sound(c), NEW x \in Operands, NEW e \in decode_ea(c, x)
  PROVE  /\ Keeps(c, e.cpu) /\ Level(c, e.cpu)
         /\ e.at \in Addresses \cup {-1} /\ (x.via # "register" => e.at \in Addresses)
  <1> DEFINE d == FetchWords(c, x.ext)
             n == IF x.via = "(A7)+" THEN StepOf(x.size) ELSE -StepOf(x.size)
             moved == Plus(d.a7, n)
             m == [d EXCEPT !.a7 = moved]
  <1>1. Keeps(c, d) /\ Level(c, d) /\ d.a7 = c.a7
    BY FetchKeeps
  <1>2. n \in Int /\ n % 2 = 0 BY DEF StepOf, Operands, Sizes
  <1>3. d.a7 \in Int /\ d.a7 \in Addresses BY <1>1, CpuAssumption DEF Keeps, Sound, Addresses
  <1>4. moved \in Addresses /\ (Odd(moved) <=> Odd(d.a7))
    <2> HIDE DEF n
    <2> QED BY <1>2, <1>3, PlusType, PlusEven
  <1>5. \/ x.via = "register" /\ e = [cpu |-> d, at |-> -1]
        \/ \E a \in DataAddresses : e = [cpu |-> d, at |-> a]
        \/ e = [cpu |-> d, at |-> d.a7]
        \/ e = [cpu |-> m, at |-> d.a7]
        \/ e = [cpu |-> m, at |-> moved]
    <2>1. CASE x.via = "register" BY <2>1 DEF decode_ea
    <2>2. CASE x.via = "memory" BY <2>2 DEF decode_ea
    <2>3. CASE x.via = "(A7)" BY <2>3 DEF decode_ea
    <2>4. CASE x.via = "(A7)+" BY <2>4 DEF decode_ea
    <2>5. CASE x.via = "-(A7)" BY <2>5 DEF decode_ea
    <2> QED BY <2>1, <2>2, <2>3, <2>4, <2>5 DEF Operands, Vias
  <1> HIDE DEF moved, d
  <1>6. Keeps(d, m) /\ m.a7 = moved
    BY <1>1, <1>4, MoveA7 DEF Keeps
  <1> HIDE DEF m
  <1>7. Keeps(c, m) /\ Level(c, m)
    BY <1>1, <1>4, <1>6, KeepsOn DEF Level
  <1>8. /\ e.cpu = d \/ e.cpu = m
        /\ e.at \in Addresses \cup {-1} /\ (x.via # "register" => e.at \in Addresses)
    BY <1>3, <1>4, <1>5, CpuAssumption
  <1> QED BY <1>1, <1>7, <1>8

LEMMA ReachByteKeeps ==
  ASSUME NEW c, Sound(c), NEW a
  PROVE  Keeps(c, ReachByte(c, a)) /\ Level(c, ReachByte(c, a))
  BY Faults, KeepsSelf DEF ReachByte

LEMMA ReadKeeps ==
  ASSUME NEW c, Sound(c), NEW at, NEW size
  PROVE  Keeps(c, ReadAt(c, at, size)) /\ Level(c, ReadAt(c, at, size))
  BY ReachKeeps, ReachByteKeeps, KeepsSelf DEF ReadAt

LEMMA WriteAtKeeps ==
  ASSUME NEW c, Sound(c), NEW at \in Addresses \cup {-1}, NEW size
  PROVE  Keeps(c, WriteAt(c, at, size)) /\ Level(c, WriteAt(c, at, size))
  <1>1. CASE at = -1 BY <1>1, KeepsSelf DEF WriteAt
  <1>2. CASE at # -1
    <2> DEFINE d == ReachByte(c, at)
    <2>1. at \in Addresses /\ at - (at % 2) \in Addresses BY <1>2, CpuAssumption DEF Addresses
    <2>2. <<Unknown>> \in Seq(Contents) /\ <<Unknown, Unknown>> \in Seq(Contents) BY PushedWords
    <2>3. Keeps(c, d) /\ Level(c, d) BY ReachByteKeeps
    <2>4. Sound(d) BY <2>3 DEF Keeps
    <2>5. PICK b \in Addresses, w \in Seq(Contents) :
            WriteAt(c, at, size) = WriteWords(c, b, w) \/ WriteAt(c, at, size) = WriteWords(d, b, w)
      BY <1>2, <2>1, <2>2 DEF WriteAt
    <2> HIDE DEF d
    <2>6. /\ Keeps(c, WriteWords(c, b, w)) /\ Level(c, WriteWords(c, b, w))
          /\ Keeps(d, WriteWords(d, b, w)) /\ Level(d, WriteWords(d, b, w))
      BY <2>4, WriteKeeps
    <2> QED BY <2>3, <2>5, <2>6, KeepsOn, LevelOn
  <1> QED BY <1>1, <1>2

LEMMA AccessKeeps ==
  ASSUME NEW c, Sound(c), NEW x \in Operands, NEW d \in Access(c, x)
  PROVE  Keeps(c, d) /\ Level(c, d)
  <1>1. CASE Thrown(c) BY <1>1, KeepsSelf DEF Access
  <1>2. CASE ~Thrown(c)
    <2>1. PICK e \in decode_ea(c, x) :
            d = CASE x.do = "address" -> e.cpu
                  [] x.do = "read"    -> ReadAt(e.cpu, e.at, x.size)
                  [] x.do = "write"   -> WriteAt(e.cpu, e.at, x.size)
                  [] x.do = "modify"  -> WriteAt(ReadAt(e.cpu, e.at, x.size), e.at, x.size)
      BY <1>2 DEF Access
    <2> DEFINE b == e.cpu
               r == ReadAt(b, e.at, x.size)
               w == WriteAt(b, e.at, x.size)
               m == WriteAt(r, e.at, x.size)
    <2>2. Keeps(c, b) /\ Level(c, b) /\ e.at \in Addresses \cup {-1} BY DecodeKeeps
    <2>3. Sound(b) BY <2>2 DEF Keeps
    <2>4. d \in {b, r, w, m}
      <3>1. CASE x.do = "address" BY <2>1, <3>1
      <3>2. CASE x.do = "read" BY <2>1, <3>2
      <3>3. CASE x.do = "write" BY <2>1, <3>3
      <3>4. CASE x.do = "modify" BY <2>1, <3>4
      <3> QED BY <3>1, <3>2, <3>3, <3>4 DEF Operands, Dos
    <2> HIDE DEF b
    <2>5. Keeps(b, r) /\ Level(b, r) BY <2>3, ReadKeeps
    <2>6. Keeps(b, w) /\ Level(b, w) BY <2>2, <2>3, WriteAtKeeps
    <2>7. Sound(r) BY <2>5 DEF Keeps
    <2> HIDE DEF r, w
    <2>8. Keeps(r, m) /\ Level(r, m) BY <2>2, <2>7, WriteAtKeeps
    <2> HIDE DEF m
    <2> QED BY <2>2, <2>4, <2>5, <2>6, <2>8, KeepsOn, LevelOn
  <1> QED BY <1>1, <1>2

LEMMA AccessedKeeps ==
  ASSUME NEW c, Sound(c), NEW operands \in SUBSET Operands, NEW d \in Accessed(c, operands)
  PROVE  Keeps(c, d) /\ Level(c, d)
  <1>1. CASE operands = {} BY <1>1, KeepsSelf DEF Accessed
  <1>2. CASE operands # {} BY <1>2, AccessKeeps DEF Accessed
  <1> QED BY <1>1, <1>2

\* An instruction that moves data leaves A7 where it was but for whole words, or loads it last.
Loads(b, c) == ~Thrown(c) /\ c.a7 \in Pointers

LEMMA LoadAKeeps ==
  ASSUME NEW c, Sound(c), NEW d \in LoadA(c)
  PROVE  Keeps(c, d) /\ (Level(c, d) \/ Loads(c, d))
  <1>1. CASE d = c BY <1>1, KeepsSelf
  <1>2. CASE d # c
    <2>1. ~Thrown(c) BY <1>2 DEF LoadA
    <2>2. PICK v \in Pointers : d = [c EXCEPT !.a7 = v] BY <1>2, <2>1 DEF LoadA
    <2>3. v \in Addresses BY CpuAssumption
    <2> QED BY <2>1, <2>2, <2>3, MoveA7 DEF Loads, Thrown
  <1> QED BY <1>1, <1>2

Regular(f) == f.words \in Int /\ f.first \subseteq Operands /\ f.second \subseteq Operands

LEMMA OperateKeeps ==
  ASSUME NEW c, Sound(c), NEW f, Regular(f), NEW d \in Operate(c, f)
  PROVE  Keeps(c, d) /\ (Level(c, d) \/ Loads(c, d))
  <1> DEFINE b == FetchWords(c, f.words)
             done == UNION {Accessed(g, f.second) : g \in Accessed(b, f.first)}
  <1>1. Keeps(c, b) /\ Level(c, b) BY FetchKeeps DEF Regular
  <1>2. Sound(b) BY <1>1 DEF Keeps
  <1> HIDE DEF b
  <1>3. \A e \in done : Keeps(c, e) /\ Level(c, e)
    <2> SUFFICES ASSUME NEW g \in Accessed(b, f.first), NEW e \in Accessed(g, f.second)
                 PROVE  Keeps(c, e) /\ Level(c, e)
      OBVIOUS
    <2>1. Keeps(b, g) /\ Level(b, g) BY <1>2, AccessedKeeps DEF Regular
    <2>2. Sound(g) BY <2>1 DEF Keeps
    <2>3. Keeps(g, e) /\ Level(g, e) BY <2>2, AccessedKeeps DEF Regular
    <2> QED BY <1>1, <2>1, <2>3, KeepsOn, LevelOn
  <1>4. d \in done \/ \E e \in done : d \in LoadA(e) BY DEF Operate, b
  <1> HIDE DEF done
  <1>5. ASSUME NEW e \in done, d \in LoadA(e) PROVE Keeps(c, d) /\ (Level(c, d) \/ Loads(c, d))
    <2>1. Keeps(c, e) /\ Level(c, e) BY <1>3
    <2>2. Sound(e) BY <2>1 DEF Keeps
    <2>3. Keeps(e, d) /\ (Level(e, d) \/ Loads(e, d)) BY <1>5, <2>2, LoadAKeeps
    <2> QED BY <2>1, <2>3, KeepsOn, LevelOn DEF Loads
  <1> QED BY <1>3, <1>4, <1>5

LEMMA FormatsRegular ==
  ASSUME NEW operands \in SUBSET Operands
  PROVE  /\ \A f \in Formats(operands) : Regular(f)
         /\ \A f \in LoadingA(operands) : Regular(f)
         /\ \A words \in Int : \A f \in After(words, Formats(operands)) : Regular(f)
  <1>1. \A x \in operands, words \in Int : Regular(Format(words, {x}, {}, FALSE))
    BY DEF Regular, Format
  <1>2. \A x \in operands : Regular(Format(0, {x}, {}, TRUE))
    BY DEF Regular, Format
  <1>3. \A f \in Formats(operands) : Regular(f)
    <2>1. \A x \in operands : Regular(Format(0, {x}, {}, FALSE)) BY DEF Regular, Format
    <2> QED BY <2>1 DEF Formats
  <1>4. \A f \in LoadingA(operands) : Regular(f) BY <1>2 DEF LoadingA
  <1>5. ASSUME NEW words \in Int, NEW f \in After(words, Formats(operands)) PROVE Regular(f)
    <2>1. PICK x \in operands : f = [Format(0, {x}, {}, FALSE) EXCEPT !.words = words]
      BY DEF After, Formats
    <2>2. f = Format(words, {x}, {}, FALSE) BY <2>1 DEF Format
    <2> QED BY <1>1, <2>2
  <1> QED BY <1>3, <1>4, <1>5

LEMMA PairsRegular ==
  ASSUME NEW first \in SUBSET Operands, NEW second \in SUBSET Operands
  PROVE  \A f \in Pairs(first, second) : Regular(f)
  BY DEF Pairs, Format, Regular

LEMMA InRegistersRegular ==
  ASSUME NEW words \in Int
  PROVE  \A f \in InRegisters(words) : Regular(f)
  BY DEF InRegisters, Format, Regular

LEMMA DataInstructionsRegular == \A f \in DataInstructions : Regular(f)
  <1> DEFINE R(S) == \A f \in S : Regular(f)
  <1>1. \A modes : \A do \in Dos, sizes \in SUBSET Sizes : Operand(do, modes, sizes) \in SUBSET Operands
    BY OperandType
  <1>2. \A modes : \A do \in Dos, z \in Sizes : Operand(do, modes, {z}) \in SUBSET Operands
    BY <1>1
  <1>3. \A o \in SUBSET Operands : R(Formats(o)) /\ R(LoadingA(o))
    BY FormatsRegular
  <1>4. \A o \in SUBSET Operands, words \in Int : R(After(words, Formats(o)))
    BY FormatsRegular
  <1>5. \A o \in SUBSET Operands, q \in SUBSET Operands : R(Pairs(o, q))
    BY PairsRegular
  <1>6. \A words \in Int : R(InRegisters(words))
    BY InRegistersRegular
  <1>7. "address" \in Dos /\ "read" \in Dos /\ "write" \in Dos /\ "modify" \in Dos BY DEF Dos
  <1>8. /\ 1 \in Sizes /\ {1} \in SUBSET Sizes /\ {2} \in SUBSET Sizes /\ {4} \in SUBSET Sizes
        /\ {2, 4} \in SUBSET Sizes /\ Sizes \in SUBSET Sizes
    BY DEF Sizes
  <1>9. 0 \in Int /\ 1 \in Int OBVIOUS
  <1>10. \A o \in SUBSET Operands, q \in SUBSET Operands : o \cup q \in SUBSET Operands OBVIOUS
  <1>11. R(op_move)
    <2>1. R(LoadingA(Operand("read", EaAll, {2, 4}))) BY <1>1, <1>3, <1>7, <1>8
    <2>2. \A z \in Sizes : R(Pairs(Operand("read", EaAll, {z}), Operand("write", EaDataAlterable, {z})))
      BY <1>2, <1>5, <1>7
    <2> QED BY <2>1, <2>2 DEF op_move
  <1>12. R(op_moveq) /\ R(op_swap) /\ R(op_ext) /\ R(op_shift_register) /\ R(op_nop) /\ R(op_logic_to_ccr)
    BY <1>6, <1>9 DEF op_moveq, op_swap, op_ext, op_shift_register, op_nop, op_logic_to_ccr
  <1>13. R(op_movep)
    <2>1. \A do \in Dos : Operand(do, {"(An)"}, {1}) \in SUBSET Operands BY <1>2, <1>8
    <2> SUFFICES ASSUME NEW do \in {"read", "write"}, NEW x, x = Operand(do, {"(An)"}, {1})
                 PROVE  Regular(Format(1, x, x, FALSE))
      BY DEF op_movep
    <2>2. x \in SUBSET Operands BY <2>1, <1>7
    <2> QED BY <2>2 DEF Regular, Format
  <1>14. R(op_lea) BY <1>1, <1>3, <1>7, <1>8 DEF op_lea
  <1>15. R(op_exg) BY DEF op_exg, Regular, Format
  <1>16. R(op_add_sub)
    <2>1. R(LoadingA(Operand("read", EaAll, {2, 4}))) BY <1>1, <1>3, <1>7, <1>8
    <2>2. R(Formats(Operand("read", EaAll, Sizes) \cup Operand("modify", EaMemoryAlterable, Sizes)))
      BY <1>1, <1>3, <1>7, <1>8, <1>10
    <2> QED BY <2>1, <2>2 DEF op_add_sub
  <1>17. R(op_addq_subq)
    <2>1. Regular(Format(0, {}, {}, TRUE)) BY DEF Regular, Format
    <2>2. R(Formats(Operand("modify", EaDataAlterable, Sizes))) BY <1>1, <1>3, <1>7, <1>8
    <2> QED BY <2>1, <2>2 DEF op_addq_subq
  <1>18. R(op_addx_subx)
    <2>1. \A z \in Sizes : R(Pairs(Operand("read", {"-(An)"}, {z}), Operand("modify", {"-(An)"}, {z})))
      BY <1>2, <1>5, <1>7
    <2>2. R(InRegisters(0)) BY <1>6, <1>9
    <2> QED BY <2>1, <2>2 DEF op_addx_subx
  <1>19. R(op_cmp) BY <1>1, <1>3, <1>7, <1>8 DEF op_cmp
  <1>20. R(op_cmpa) BY <1>1, <1>3, <1>7, <1>8 DEF op_cmpa
  <1>21. R(op_cmpm)
    <2>1. \A z \in Sizes : R(Pairs(Operand("read", {"(An)+"}, {z}), Operand("read", {"(An)+"}, {z})))
      BY <1>2, <1>5, <1>7
    <2> QED BY <2>1 DEF op_cmpm
  <1>22. R(op_immediate)
    <2>1. \A z \in Sizes, do \in {"read", "modify"} :
            R(After(IF z = 4 THEN 2 ELSE 1, Formats(Operand(do, EaDataAlterable, {z}))))
      <3> SUFFICES ASSUME NEW z \in Sizes, NEW do \in {"read", "modify"}
                   PROVE  R(After(IF z = 4 THEN 2 ELSE 1, Formats(Operand(do, EaDataAlterable, {z}))))
        OBVIOUS
      <3>1. Operand(do, EaDataAlterable, {z}) \in SUBSET Operands BY <1>2, <1>7
      <3>2. (IF z = 4 THEN 2 ELSE 1) \in Int OBVIOUS
      <3> QED BY <3>1, <3>2, <1>4
    <2> SUFFICES ASSUME NEW f \in op_immediate PROVE Regular(f)
      OBVIOUS
    <2>2. PICK z \in Sizes, do \in {"read", "modify"} :
            f \in After(IF z = 4 THEN 2 ELSE 1, Formats(Operand(do, EaDataAlterable, {z})))
      <3> DEFINE O(z, do) == After(IF z = 4 THEN 2 ELSE 1, Formats(Operand(do, EaDataAlterable, {z})))
      <3>1. op_immediate = UNION {O(z, do) : z \in Sizes, do \in {"read", "modify"}} BY DEF op_immediate
      <3> HIDE DEF O
      <3>2. \E z \in Sizes, do \in {"read", "modify"} : f \in O(z, do) BY <3>1
      <3> QED BY <3>2 DEF O
    <2> QED BY <2>1, <2>2
  <1>23. R(op_neg_not_clr) BY <1>1, <1>3, <1>7, <1>8, <1>10 DEF op_neg_not_clr
  <1>24. R(op_mul) BY <1>1, <1>3, <1>7, <1>8 DEF op_mul
  <1>25. R(op_abcd_sbcd)
    <2>1. R(Pairs(Operand("read", {"-(An)"}, {1}), Operand("modify", {"-(An)"}, {1})))
      BY <1>1, <1>5, <1>7, <1>8
    <2>2. R(InRegisters(0)) BY <1>6, <1>9
    <2> QED BY <2>1, <2>2 DEF op_abcd_sbcd
  <1>26. R(op_nbcd) BY <1>1, <1>3, <1>7, <1>8 DEF op_nbcd
  <1>27. R(op_and_or) BY <1>1, <1>3, <1>7, <1>8, <1>10 DEF op_and_or
  <1>28. R(op_eor) /\ R(op_tst) BY <1>1, <1>3, <1>7, <1>8 DEF op_eor, op_tst
  <1>29. R(op_tas) BY <1>1, <1>3, <1>7, <1>8 DEF op_tas
  <1>30. R(op_shift_memory) BY <1>1, <1>3, <1>7, <1>8 DEF op_shift_memory
  <1>31. R(op_bit_dynamic) BY <1>1, <1>3, <1>7, <1>8, <1>10 DEF op_bit_dynamic, bit_operation
  <1>32. R(op_bit_static) BY <1>1, <1>4, <1>7, <1>8, <1>9, <1>10 DEF op_bit_static, bit_operation
  <1>33. R(op_scc) BY <1>1, <1>3, <1>7, <1>8 DEF op_scc
  <1>34. R(op_move_from_sr) /\ R(op_move_to_ccr)
    BY <1>1, <1>3, <1>7, <1>8 DEF op_move_from_sr, op_move_to_ccr
  <1> QED
    BY <1>11, <1>12, <1>13, <1>14, <1>15, <1>16, <1>17, <1>18, <1>19, <1>20, <1>21, <1>22, <1>23, <1>24,
       <1>25, <1>26, <1>27, <1>28, <1>29, <1>30, <1>31, <1>32, <1>33, <1>34 DEF DataInstructions

-----------------------------------------------------------------------------
(* Exceptions.                                                             *)

LEMMA SetSr ==
  ASSUME NEW c, Sound(c), NEW new \in SrValues
  PROVE  LET d == set_sr(c, new)
         IN /\ Sound(d) /\ d.sr = new /\ Usp(d) = Usp(c) /\ Ssp(d) = Ssp(c)
            /\ d.pc = c.pc /\ d.instructionPc = c.instructionPc /\ d.stopped = c.stopped
            /\ d.halted = c.halted /\ d.frame = c.frame /\ d.fault = c.fault
            /\ d.mem = c.mem /\ d.wrote = c.wrote /\ d.inAddressError = c.inAddressError
  <1> DEFINE d == set_sr(c, new)
  <1>0. new.s \in BOOLEAN /\ c.sr.s \in BOOLEAN BY DEF Sound, SrValues
  <1>1. CASE new.s = c.sr.s
    <2>1. d = [c EXCEPT !.sr = new] BY <1>1 DEF set_sr
    <2> HIDE DEF d
    <2>2. /\ d = [f \in Fields |-> d[f]]
          /\ d.sr = new /\ d.a7 = c.a7 /\ d.otherSp = c.otherSp /\ d.ipl = c.ipl
          /\ d.pc = c.pc /\ d.instructionPc = c.instructionPc /\ d.stopped = c.stopped
          /\ d.halted = c.halted /\ d.frame = c.frame /\ d.fault = c.fault
          /\ d.mem = c.mem /\ d.wrote = c.wrote /\ d.inAddressError = c.inAddressError
      BY <2>1 DEF Sound, Fields
    <2>3. Sound(d) BY <2>2 DEF Sound
    <2>4. Usp(d) = Usp(c) /\ Ssp(d) = Ssp(c) BY <1>0, <1>1, <2>2 DEF Usp, Ssp
    <2> QED BY <2>2, <2>3, <2>4 DEF d
  <1>2. CASE new.s # c.sr.s
    <2>1. d = [c EXCEPT !.sr = new, !.a7 = c.otherSp, !.otherSp = c.a7] BY <1>2 DEF set_sr
    <2> HIDE DEF d
    <2>2. /\ d = [f \in Fields |-> d[f]]
          /\ d.sr = new /\ d.a7 = c.otherSp /\ d.otherSp = c.a7 /\ d.ipl = c.ipl
          /\ d.pc = c.pc /\ d.instructionPc = c.instructionPc /\ d.stopped = c.stopped
          /\ d.halted = c.halted /\ d.frame = c.frame /\ d.fault = c.fault
          /\ d.mem = c.mem /\ d.wrote = c.wrote /\ d.inAddressError = c.inAddressError
      BY <2>1 DEF Sound, Fields
    <2>3. Sound(d) BY <2>2 DEF Sound
    <2>4. Usp(d) = Usp(c) /\ Ssp(d) = Ssp(c) BY <1>0, <1>2, <2>2 DEF Usp, Ssp
    <2> QED BY <2>2, <2>3, <2>4 DEF d
  <1> QED BY <1>1, <1>2

HeldIn(f, m) ==
  /\ Extent(f) \subseteq DOMAIN m
  /\ m[f.at] = [is |-> "sr", sr |-> f.sr]
  /\ m[Plus(f.at, 2)] = [is |-> "pcHi", pc |-> f.pc]
  /\ m[Plus(f.at, 4)] = [is |-> "pcLo", pc |-> f.pc]
  /\ \A a \in Extent(f) : ~Silent(a)

\* An exception has put n bytes on the system stack, the frame first.
Enters(c, e, n) ==
  /\ Sound(e) /\ ~Thrown(e) /\ Undisturbed(c, e)
  /\ e.sr.s /\ ~e.sr.t /\ e.stopped = c.stopped /\ e.halted = c.halted
  /\ e.inAddressError = c.inAddressError
  /\ ~Odd(Ssp(c))
  /\ e.otherSp = Usp(c) /\ e.a7 = Plus(Ssp(c), -n)
  /\ \E pc \in Addresses : e.frame = [at |-> Plus(Ssp(c), -6), pc |-> pc, sr |-> c.sr]
  /\ HeldIn(e.frame, e.mem)

\* n bytes below s are answered.
RoomBelow(s, n) == \A i \in 1 .. n : Plus(s, -i) \notin Unmapped

LEMMA RoomAnswered ==
  ASSUME NEW s \in Int, NEW n \in Nat, RoomBelow(s, n), NEW j \in 1 .. n, NEW m \in Nat, 2 * m <= j
  PROVE  Answered(Plus(s, -j), m)
  <1> SUFFICES ASSUME NEW i \in 1 .. m PROVE ~Silent(Plus(Plus(s, -j), 2 * (i - 1)))
    BY DEF Answered, Words
  <1> DEFINE k == j - 2 * (i - 1)
  <1>1. k \in 1 .. n OBVIOUS
  <1>2. Plus(Plus(s, -j), 2 * (i - 1)) = Plus(s, -k)
    <2>1. -j \in Int /\ 2 * (i - 1) \in Int OBVIOUS
    <2>2. Plus(Plus(s, -j), 2 * (i - 1)) = Plus(s, -j + 2 * (i - 1)) BY <2>1, PlusPlus
    <2>3. -j + 2 * (i - 1) = -k OBVIOUS
    <2> QED BY <2>2, <2>3
  <1> HIDE DEF k
  <1> QED BY <1>1, <1>2 DEF RoomBelow, Silent

\* An exception that stacks n bytes leaves its frame, or an error: an address
\* fault when the stack is odd, a BusError when it lies where nothing answers.
Stacks(c, e, n) ==
  /\ ~Odd(Ssp(c)) => Enters(c, e, n) \/ Panicked(e)
  /\ ~Odd(Ssp(c)) /\ RoomBelow(Ssp(c), n) => Enters(c, e, n)
  /\ Odd(Ssp(c)) => Thrown(e) /\ ~Panicked(e)

LEMMA FrameStacked ==
  ASSUME NEW c, Sound(c), ~Thrown(c), NEW new \in SrValues, new.s, ~new.t, NEW pc \in Addresses
  PROVE  LET e == push16(push32(set_sr(c, new), pc), [is |-> "sr", sr |-> c.sr])
             g == Stacked(c, e, pc)
         IN /\ Sound(g) /\ Undisturbed(c, g) /\ g.sr = new /\ g.pc = c.pc
            /\ g.instructionPc = c.instructionPc /\ g.inAddressError = c.inAddressError
            /\ Odd(g.a7) <=> Odd(Ssp(c))
            /\ Stacks(c, g, 6)
  <1> DEFINE b == set_sr(c, new)
             s == Ssp(c)
             p == push32(b, pc)
             w == [is |-> "sr", sr |-> c.sr]
             e == push16(p, w)
             hi == [is |-> "pcHi", pc |-> pc]
             lo == [is |-> "pcLo", pc |-> pc]
             f == [at |-> e.a7, pc |-> pc, sr |-> c.sr]
             g == Stacked(c, e, pc)
  <1>0. s \in Addresses /\ s \in Int BY CpuAssumption DEF Sound, Ssp, Addresses
  <1>1. /\ Sound(b) /\ b.sr = new /\ Usp(b) = Usp(c) /\ Ssp(b) = s
        /\ b.pc = c.pc /\ b.instructionPc = c.instructionPc /\ b.stopped = c.stopped
        /\ b.halted = c.halted /\ b.frame = c.frame /\ b.fault = c.fault
        /\ b.mem = c.mem /\ b.wrote = c.wrote /\ b.inAddressError = c.inAddressError
    BY SetSr
  <1> HIDE DEF b
  <1>2. b.a7 = s /\ b.otherSp = Usp(c) /\ ~Thrown(b)
    <2> HIDE DEF s
    <2> QED BY <1>1 DEF Usp, Ssp, Thrown
  <1>3. hi \in Contents /\ lo \in Contents /\ w \in Contents BY PushedWords DEF Sound
  <1> HIDE DEF s
  <1>4. /\ Pushes(b, p, Plus(s, -4), 2)
        /\ ~Thrown(p) => /\ p.a7 \in DOMAIN p.mem /\ p.mem[p.a7] = hi /\ ~Silent(p.a7)
                         /\ Plus(p.a7, 2) \in DOMAIN p.mem /\ p.mem[Plus(p.a7, 2)] = lo
                         /\ ~Silent(Plus(p.a7, 2))
    BY <1>1, <1>2, <1>3, PushTwo DEF push32
  <1>5. Sound(p) /\ p.a7 = Plus(s, -4) BY <1>2, <1>4 DEF Pushes, Keeps
  <1> HIDE DEF p, hi, lo, w
  <1>6. /\ Pushes(p, e, Plus(p.a7, -2), 1)
        /\ ~Thrown(e) => /\ e.a7 \in DOMAIN e.mem /\ e.mem[e.a7] = w /\ ~Silent(e.a7)
                         /\ \A a \in DOMAIN p.mem : a # e.a7 => a \in DOMAIN e.mem /\ e.mem[a] = p.mem[a]
    BY <1>3, <1>5, Push16
  <1>7. Keeps(b, e) /\ Keeps(b, p) /\ Level(b, p) BY <1>4, <1>6, KeepsOn DEF Pushes
  <1>8. /\ Sound(e) /\ Undisturbed(c, e) /\ e.sr = new /\ e.otherSp = Usp(c)
        /\ e.instructionPc = c.instructionPc /\ e.stopped = c.stopped /\ e.halted = c.halted
        /\ e.frame = c.frame /\ e.pc = c.pc /\ e.inAddressError = c.inAddressError
    BY <1>1, <1>4, <1>2, <1>6, <1>7 DEF Keeps, Undisturbed, Pushes
  <1>9. Plus(p.a7, -2) = Plus(s, -6)
    <2>1. Plus(Plus(s, -4), -2) = Plus(s, -4 + (-2)) BY <1>0, PlusPlus
    <2>2. -4 + (-2) = -6 OBVIOUS
    <2> QED BY <2>1, <2>2, <1>5
  <1>10. /\ Odd(e.a7) <=> Odd(s)
         /\ Odd(s) => Thrown(e) /\ ~Panicked(e)
         /\ ~Odd(s) => Panicked(e) \/ ~Thrown(e)
         /\ ~Thrown(e) => ~Thrown(p) /\ ~Odd(s) /\ e.a7 = Plus(s, -6)
    BY <1>2, <1>4, <1>6, <1>7, <1>9, Errors DEF Level, Pushes
  <1>11. ASSUME ~Odd(s), RoomBelow(s, 6) PROVE ~Thrown(e)
    <2>1. Answered(Plus(s, -4), 2) /\ Answered(Plus(s, -6), 1)
      <3>1. 4 \in 1 .. 6 /\ 6 \in 1 .. 6 /\ 2 * 2 <= 4 /\ 2 * 1 <= 6 /\ 1 \in Nat /\ 2 \in Nat /\ 6 \in Nat
        OBVIOUS
      <3> QED BY <1>0, <1>11, <3>1, RoomAnswered
    <2>2. ~Thrown(p) /\ ~Odd(p.a7) BY <1>2, <1>4, <1>7, <1>11, <2>1 DEF Pushes, Level
    <2> QED BY <1>6, <1>9, <2>1, <2>2 DEF Pushes
  <1> HIDE DEF e
  <1>12. CASE Thrown(e)
    <2>1. g = e BY <1>12 DEF Stacked
    <2> QED BY <2>1, <1>8, <1>10, <1>11, <1>12 DEF s, e, p, b, w, Stacks
  <1>13. CASE ~Thrown(e)
    <2>1. g = [e EXCEPT !.frame = f] BY <1>13 DEF Stacked
    <2> HIDE DEF f, g
    <2>2. /\ Sound(g) /\ Undisturbed(c, g) /\ g.sr = new /\ g.pc = c.pc /\ g.otherSp = Usp(c)
          /\ g.instructionPc = c.instructionPc /\ g.stopped = c.stopped /\ g.halted = c.halted
          /\ g.inAddressError = c.inAddressError
          /\ g.frame = f /\ g.a7 = e.a7 /\ g.mem = e.mem /\ g.fault = e.fault
      BY <2>1, <1>8 DEF Sound, Fields, Undisturbed
    <2>3. e.a7 = Plus(s, -6) /\ ~Odd(s) /\ ~Thrown(p) BY <1>10, <1>13
    <2>4. Plus(e.a7, 2) = p.a7
      <3>1. Plus(Plus(s, -6), 2) = Plus(s, -6 + 2) BY <1>0, PlusPlus
      <3>2. -6 + 2 = -4 OBVIOUS
      <3> QED BY <3>1, <3>2, <1>5, <2>3
    <2>5. Plus(e.a7, 4) = Plus(p.a7, 2) /\ Plus(p.a7, 2) = Plus(s, -2)
      <3>1. Plus(Plus(s, -6), 4) = Plus(s, -6 + 4) BY <1>0, PlusPlus
      <3>2. Plus(Plus(s, -4), 2) = Plus(s, -4 + 2) BY <1>0, PlusPlus
      <3>3. -6 + 4 = -2 /\ -4 + 2 = -2 OBVIOUS
      <3> QED BY <3>1, <3>2, <3>3, <1>5, <2>3
    <2>6. p.a7 # e.a7 /\ Plus(p.a7, 2) # e.a7
      <3>1. AddressSpace \in Int /\ AddressSpace >= 16 BY CpuAssumption
      <3>2. -6 < -4 /\ -6 < -2 /\ -4 - (-6) < AddressSpace /\ -2 - (-6) < AddressSpace BY <3>1
      <3>3. Plus(s, -6) # Plus(s, -4) /\ Plus(s, -6) # Plus(s, -2) BY <1>0, <3>2, PlusApart
      <3> QED BY <3>3, <1>5, <2>3, <2>5
    <2>7. HeldIn(f, e.mem)
      <3>1. f.at = e.a7 /\ f.pc = pc /\ f.sr = c.sr BY DEF f
      <3>2. /\ e.a7 \in DOMAIN e.mem /\ e.mem[e.a7] = w /\ ~Silent(e.a7)
            /\ p.a7 \in DOMAIN e.mem /\ e.mem[p.a7] = hi /\ ~Silent(p.a7)
            /\ Plus(p.a7, 2) \in DOMAIN e.mem /\ e.mem[Plus(p.a7, 2)] = lo /\ ~Silent(Plus(p.a7, 2))
        BY <1>4, <1>6, <1>13, <2>3, <2>6
      <3> QED BY <3>1, <3>2, <2>4, <2>5 DEF HeldIn, Extent, w, hi, lo
    <2>8. ~Thrown(g) BY <1>13, <2>2 DEF Thrown
    <2>9. f = [at |-> Plus(s, -6), pc |-> pc, sr |-> c.sr] BY <2>3 DEF f
    <2>10. Enters(c, g, 6) BY <2>2, <2>3, <2>7, <2>8, <2>9 DEF Enters, s
    <2>11. Odd(g.a7) <=> Odd(s) BY <1>10, <2>2
    <2> QED BY <2>2, <2>3, <2>10, <2>11 DEF s, g, e, p, b, w, Stacks
  <1> QED BY <1>12, <1>13

\* A group 1 or 2 exception, or an interrupt: the frame, or an error.
Excepts(c, e) ==
  /\ Sound(e) /\ e.sr.s /\ e.inAddressError = c.inAddressError
  /\ Odd(e.a7) <=> Odd(Ssp(c))
  /\ Stacks(c, e, 6)

LEMMA JumpExcepts ==
  ASSUME NEW c, NEW g, NEW v \in Addresses, Excepts(c, g)
  PROVE  Excepts(c, JumpTo(g, v))
  <1> DEFINE e == JumpTo(g, v)
  <1>1. /\ Keeps(g, e) /\ e.a7 = g.a7 /\ e.fault = g.fault /\ e.mem = g.mem /\ e.wrote = g.wrote
    BY JumpKeeps DEF Excepts
  <1> HIDE DEF e
  <1>2. /\ Sound(e) /\ e.sr = g.sr /\ e.otherSp = g.otherSp /\ e.frame = g.frame
        /\ e.stopped = g.stopped /\ e.halted = g.halted /\ e.inAddressError = g.inAddressError
        /\ Undisturbed(c, g) => Undisturbed(c, e)
    BY <1>1 DEF Keeps, Undisturbed
  <1>3. Enters(c, g, 6) => Enters(c, e, 6) BY <1>1, <1>2 DEF Enters, Thrown
  <1>4. (Thrown(e) <=> Thrown(g)) /\ (Panicked(e) <=> Panicked(g)) BY <1>1 DEF Thrown, Panicked
  <1> QED BY <1>1, <1>2, <1>3, <1>4 DEF Excepts, Stacks, e

LEMMA ExceptionExcepts ==
  ASSUME NEW c, Sound(c), ~Thrown(c), NEW pc \in Addresses, NEW e \in exception(c, pc)
  PROVE  Excepts(c, e)
  <1> DEFINE new == [c.sr EXCEPT !.s = TRUE, !.t = FALSE]
             g == Stacked(c, push16(push32(set_sr(c, new), pc), [is |-> "sr", sr |-> c.sr]), pc)
  <1>1. new \in SrValues /\ new.s /\ ~new.t BY DEF Sound, SrValues
  <1>2. PICK v \in Targets : e = JumpTo(g, v) BY DEF exception
  <1> HIDE DEF new
  <1>3. Excepts(c, g) BY <1>1, FrameStacked DEF Excepts, g
  <1>4. v \in Addresses BY CpuAssumption
  <1> HIDE DEF g
  <1> QED BY <1>2, <1>3, <1>4, JumpExcepts

LEMMA InterruptExcepts ==
  ASSUME NEW c, Sound(c), ~Thrown(c), NEW level \in Levels, NEW e \in take_interrupt(c, level)
  PROVE  Excepts(c, e)
  <1> DEFINE new == [s |-> TRUE, t |-> FALSE, mask |-> level]
             g == Stacked(c, push16(push32(set_sr(c, new), c.pc), [is |-> "sr", sr |-> c.sr]), c.pc)
  <1>1. new \in SrValues /\ new.s /\ ~new.t BY DEF SrValues
  <1>2. PICK v \in Targets : e = JumpTo(g, v) BY DEF take_interrupt
  <1>3. c.pc \in Addresses BY DEF Sound
  <1> HIDE DEF new
  <1>4. Excepts(c, g) BY <1>1, <1>3, FrameStacked DEF Excepts, g
  <1>5. v \in Addresses BY CpuAssumption
  <1> HIDE DEF g
  <1> QED BY <1>2, <1>4, <1>5, JumpExcepts

\* A double bus fault or a BusError.
Halts(e) == Sound(e) /\ ~Thrown(e) /\ Halted(e)

\* The CPU stacks an address error, or halts when it cannot: by a double bus
\* fault only on an odd stack, or when inAddressError was left set.
LEMMA AddressErrorEnters ==
  ASSUME NEW c, Sound(c), Thrown(c), NEW e \in address_error(c)
  PROVE  /\ \/ Enters(c, e, 14)
            \/ Halts(e) /\ (e.halted = "DoubleBusFault" => Odd(Ssp(c)) \/ c.inAddressError)
         /\ ~Odd(Ssp(c)) /\ ~c.inAddressError /\ RoomBelow(Ssp(c), 14) => Enters(c, e, 14)
  <1> DEFINE caught == [c EXCEPT !.fault = None]
             new == [c.sr EXCEPT !.s = TRUE, !.t = FALSE]
             pc == IF c.fault.fetch THEN c.pc ELSE Plus(c.instructionPc, 2)
             w == [is |-> "sr", sr |-> c.sr]
             g == Stacked(caught, push16(push32(set_sr(caught, new), pc), w), pc)
             h == push16(g, Unknown)
             i == PushData(h)
             whole == push16(i, Unknown)
             s == Ssp(c)
             again == [caught EXCEPT !.inAddressError = FALSE, !.halted = "DoubleBusFault"]
             panic == [whole EXCEPT !.fault = None, !.inAddressError = TRUE, !.halted = "BusError"]
             dead == [whole EXCEPT !.fault = None, !.stopped = TRUE, !.halted = "DoubleBusFault"]
  <1>1. \/ c.inAddressError /\ e = again
        \/ ~c.inAddressError /\ Panicked(whole) /\ e = panic
        \/ ~c.inAddressError /\ ~Panicked(whole) /\ Thrown(whole) /\ e = dead
        \/ ~c.inAddressError /\ ~Thrown(whole) /\ \E v \in Targets : e = JumpTo(whole, v)
    <2> HIDE DEF again, panic, dead
    <2>1. e \in (IF c.inAddressError THEN {again} ELSE IF Panicked(whole) THEN {panic}
                 ELSE IF Thrown(whole) THEN {dead} ELSE {JumpTo(whole, v) : v \in Targets})
      BY DEF address_error, again, panic, dead
    <2> HIDE DEF whole
    <2>2. c.inAddressError \in BOOLEAN BY DEF Sound
    <2> QED BY <2>1, <2>2, Errors
  <1>2. /\ Sound(caught) /\ ~Thrown(caught) /\ caught.sr = c.sr /\ Ssp(caught) = s /\ Usp(caught) = Usp(c)
        /\ caught.stopped = c.stopped /\ caught.halted = c.halted /\ caught.frame = c.frame
        /\ caught.mem = c.mem /\ caught.wrote = c.wrote /\ caught.inAddressError = c.inAddressError
    <2>1. /\ caught = [f \in Fields |-> caught[f]] /\ caught.fault = None /\ caught.sr = c.sr
          /\ caught.a7 = c.a7 /\ caught.otherSp = c.otherSp /\ caught.pc = c.pc
          /\ caught.instructionPc = c.instructionPc /\ caught.ipl = c.ipl
          /\ caught.stopped = c.stopped /\ caught.halted = c.halted /\ caught.frame = c.frame
          /\ caught.mem = c.mem /\ caught.wrote = c.wrote /\ caught.inAddressError = c.inAddressError
      BY DEF Sound, Fields
    <2> HIDE DEF caught
    <2>2. Sound(caught) BY <2>1 DEF Sound
    <2> QED BY <2>1, <2>2 DEF Thrown, Ssp, Usp
  <1>3. new \in SrValues /\ new.s /\ ~new.t BY DEF Sound, SrValues
  <1>4. pc \in Addresses
    <2>1. c.instructionPc \in Int BY CpuAssumption DEF Sound, Addresses
    <2>2. Plus(c.instructionPc, 2) \in Addresses BY <2>1, PlusType
    <2> QED BY <2>2 DEF Sound
  <1>5. s \in Addresses /\ s \in Int BY CpuAssumption DEF Sound, Ssp, Addresses
  <1>6. Unknown \in Contents BY PushedWords
  <1> HIDE DEF caught, new, pc, s
  <1>7. /\ Sound(g) /\ Undisturbed(caught, g) /\ g.sr = new /\ (Odd(g.a7) <=> Odd(s))
        /\ Stacks(caught, g, 6)
    BY <1>2, <1>3, <1>4, FrameStacked
  <1> HIDE DEF g, w
  <1>8. /\ Pushes(g, h, Plus(g.a7, -2), 1)
        /\ ~Thrown(h) => \A a \in DOMAIN g.mem : a # h.a7 => a \in DOMAIN h.mem /\ h.mem[a] = g.mem[a]
    BY <1>6, <1>7, Push16
  <1>9. Sound(h) /\ Keeps(g, h) /\ Level(g, h) BY <1>8 DEF Keeps, Pushes
  <1> HIDE DEF h
  <1>10. /\ Pushes(h, i, Plus(h.a7, -4), 2)
         /\ ~Thrown(i) => \A a \in DOMAIN h.mem : a # i.a7 /\ a # Plus(i.a7, 2) =>
                            a \in DOMAIN i.mem /\ i.mem[a] = h.mem[a]
    BY <1>6, <1>9, PushTwo DEF PushData
  <1>11. Sound(i) /\ Keeps(h, i) /\ Level(h, i) BY <1>10 DEF Keeps, Pushes
  <1> HIDE DEF i
  <1>12. /\ Pushes(i, whole, Plus(i.a7, -2), 1)
         /\ ~Thrown(whole) => \A a \in DOMAIN i.mem : a # whole.a7 => a \in DOMAIN whole.mem /\ whole.mem[a] = i.mem[a]
    BY <1>6, <1>11, Push16
  <1> HIDE DEF whole
  <1>13. Keeps(g, whole) BY <1>9, <1>11, <1>12, KeepsOn DEF Pushes
  <1>14. Sound(whole) /\ Undisturbed(c, whole) /\ whole.frame = g.frame /\ whole.sr = new
         /\ whole.otherSp = g.otherSp /\ whole.stopped = g.stopped /\ whole.halted = g.halted
         /\ whole.inAddressError = g.inAddressError
    BY <1>2, <1>7, <1>13 DEF Keeps, Undisturbed
  <1>15. Odd(s) => Thrown(whole) /\ ~Panicked(whole)
    BY <1>2, <1>7, <1>8, <1>10, <1>12 DEF Stacks, Pushes
  <1>16. ~Odd(s) => Panicked(whole) \/ ~Thrown(whole)
    <2> SUFFICES ASSUME ~Odd(s) PROVE Panicked(whole) \/ ~Thrown(whole)
      OBVIOUS
    <2>1. ~Odd(g.a7) /\ ~Odd(h.a7) /\ ~Odd(i.a7) BY <1>7, <1>9, <1>11 DEF Level
    <2>2. Panicked(g) \/ ~Thrown(g) BY <1>2, <1>7 DEF Stacks, Enters
    <2>3. Panicked(h) \/ ~Thrown(h) BY <1>8, <2>1, <2>2, Errors DEF Pushes
    <2>4. Panicked(i) \/ ~Thrown(i) BY <1>10, <2>1, <2>3, Errors DEF Pushes
    <2> QED BY <1>12, <2>1, <2>4, Errors DEF Pushes
  <1>17. ~Thrown(g) => ~Odd(s) /\ Enters(caught, g, 6) /\ g.a7 = Plus(s, -6)
    BY <1>2, <1>7, Errors DEF Stacks, Enters
  <1>18. ~Thrown(g) => Plus(g.a7, -2) = Plus(s, -8)
    <2>1. Plus(Plus(s, -6), -2) = Plus(s, -6 + (-2)) BY <1>5, PlusPlus
    <2>2. -6 + (-2) = -8 OBVIOUS
    <2> QED BY <2>1, <2>2, <1>17
  <1>19. ~Thrown(h) => ~Thrown(g) /\ h.a7 = Plus(s, -8) BY <1>8, <1>18 DEF Pushes
  <1>20. ~Thrown(h) => Plus(h.a7, -4) = Plus(s, -12)
    <2>1. Plus(Plus(s, -8), -4) = Plus(s, -8 + (-4)) BY <1>5, PlusPlus
    <2>2. -8 + (-4) = -12 OBVIOUS
    <2> QED BY <2>1, <2>2, <1>19
  <1>21. ~Thrown(i) => ~Thrown(h) /\ i.a7 = Plus(s, -12) BY <1>10, <1>20 DEF Pushes
  <1>22. ~Thrown(i) => Plus(i.a7, -2) = Plus(s, -14) /\ Plus(i.a7, 2) = Plus(s, -10)
    <2>1. Plus(Plus(s, -12), -2) = Plus(s, -12 + (-2)) BY <1>5, PlusPlus
    <2>2. -12 + (-2) = -14 /\ -12 + 2 = -10 OBVIOUS
    <2>3. Plus(Plus(s, -12), 2) = Plus(s, -12 + 2) BY <1>5, PlusPlus
    <2> QED BY <2>1, <2>2, <2>3, <1>21
  <1>23. ~Thrown(whole) => ~Thrown(i) /\ whole.a7 = Plus(s, -14) BY <1>12, <1>22 DEF Pushes
  <1>24. ASSUME ~Odd(s), RoomBelow(s, 14) PROVE ~Thrown(whole)
    <2>1. Answered(Plus(s, -8), 1) /\ Answered(Plus(s, -12), 2) /\ Answered(Plus(s, -14), 1)
      <3>1. /\ 8 \in 1 .. 14 /\ 12 \in 1 .. 14 /\ 14 \in 1 .. 14 /\ 14 \in Nat /\ 1 \in Nat /\ 2 \in Nat
            /\ 2 * 1 <= 8 /\ 2 * 2 <= 12 /\ 2 * 1 <= 14
        OBVIOUS
      <3> QED BY <1>5, <1>24, <3>1, RoomAnswered
    <2>2. RoomBelow(s, 6) BY <1>24 DEF RoomBelow
    <2>3. ~Odd(g.a7) /\ ~Odd(h.a7) /\ ~Odd(i.a7) BY <1>7, <1>9, <1>11, <1>24 DEF Level
    <2>4. ~Thrown(g) BY <1>2, <1>7, <1>24, <2>2 DEF Stacks, Enters
    <2>5. ~Thrown(h) BY <1>8, <1>18, <2>1, <2>3, <2>4 DEF Pushes
    <2>6. ~Thrown(i) BY <1>10, <1>20, <2>1, <2>3, <2>5 DEF Pushes
    <2> QED BY <1>12, <1>22, <2>1, <2>3, <2>6 DEF Pushes
  <1>25. CASE c.inAddressError
    <2>1. e = again BY <1>1, <1>25
    <2>2. Halts(e)
      <3>1. /\ again = [f \in Fields |-> again[f]] /\ again.fault = None /\ again.halted = "DoubleBusFault"
            /\ again.sr = caught.sr /\ again.a7 = caught.a7 /\ again.otherSp = caught.otherSp
            /\ again.pc = caught.pc /\ again.instructionPc = caught.instructionPc /\ again.ipl = caught.ipl
            /\ again.mem = caught.mem /\ again.inAddressError = FALSE
        <4>1. Sound(caught) /\ again = [caught EXCEPT !.inAddressError = FALSE, !.halted = "DoubleBusFault"]
          BY <1>2
        <4> HIDE DEF again
        <4> QED BY <4>1, <1>2 DEF Sound, Fields, Thrown
      <3> HIDE DEF again
      <3> QED BY <3>1, <1>2, <2>1 DEF Halts, Halted, Sound, Thrown
    <2> QED BY <2>2, <1>25
  <1>26. CASE ~c.inAddressError /\ Thrown(whole)
    <2>1. \/ Panicked(whole) /\ e = panic
          \/ ~Panicked(whole) /\ e = dead
      BY <1>1, <1>26
    <2>2. CASE Panicked(whole) /\ e = panic
      <3>1. /\ panic = [f \in Fields |-> panic[f]] /\ panic.fault = None /\ panic.halted = "BusError"
            /\ panic.sr = whole.sr /\ panic.a7 = whole.a7 /\ panic.otherSp = whole.otherSp
            /\ panic.pc = whole.pc /\ panic.instructionPc = whole.instructionPc /\ panic.ipl = whole.ipl
            /\ panic.mem = whole.mem /\ panic.inAddressError = TRUE
        BY <1>14 DEF Sound, Fields
      <3> HIDE DEF panic
      <3>2. Halts(e) BY <3>1, <1>14, <2>2 DEF Halts, Halted, Sound, Thrown
      <3> QED BY <3>1, <3>2, <1>24, <1>26, <2>2 DEF s
    <2>3. CASE ~Panicked(whole) /\ e = dead
      <3>1. /\ dead = [f \in Fields |-> dead[f]] /\ dead.fault = None /\ dead.halted = "DoubleBusFault"
            /\ dead.sr = whole.sr /\ dead.a7 = whole.a7 /\ dead.otherSp = whole.otherSp
            /\ dead.pc = whole.pc /\ dead.instructionPc = whole.instructionPc /\ dead.ipl = whole.ipl
            /\ dead.mem = whole.mem /\ dead.inAddressError = whole.inAddressError
        BY <1>14 DEF Sound, Fields
      <3> HIDE DEF dead
      <3>2. Halts(e) BY <3>1, <1>14, <2>3 DEF Halts, Halted, Sound, Thrown
      <3>3. Odd(s) BY <1>16, <1>26, <2>3
      <3> QED BY <3>2, <3>3, <2>3 DEF s
    <2> QED BY <2>1, <2>2, <2>3
  <1>27. CASE ~c.inAddressError /\ ~Thrown(whole)
    <2>1. /\ ~Thrown(i) /\ ~Thrown(h) /\ ~Thrown(g) /\ Enters(caught, g, 6) /\ ~Odd(s)
          /\ g.a7 = Plus(s, -6) /\ h.a7 = Plus(s, -8) /\ i.a7 = Plus(s, -12)
          /\ Plus(i.a7, 2) = Plus(s, -10) /\ whole.a7 = Plus(s, -14)
      BY <1>17, <1>19, <1>21, <1>22, <1>23, <1>27
    <2>8. PICK v \in Targets : e = JumpTo(whole, v) BY <1>1, <1>27, Errors
    <2>9. v \in Addresses BY CpuAssumption
    <2>10. /\ Keeps(whole, e) /\ e.a7 = whole.a7 /\ e.fault = whole.fault /\ e.mem = whole.mem
           /\ e.wrote = whole.wrote
      BY <2>8, <2>9, <1>14, JumpKeeps
    <2>11. HeldIn(e.frame, e.mem)
      <3> DEFINE f == g.frame
                 m == g.mem
      <3>1. HeldIn(f, m) /\ f.at = Plus(s, -6) BY <2>1, <1>2 DEF Enters
      <3>2. Plus(f.at, 2) = Plus(s, -4) /\ Plus(f.at, 4) = Plus(s, -2)
        <4>1. Plus(Plus(s, -6), 2) = Plus(s, -6 + 2) BY <1>5, PlusPlus
        <4>2. Plus(Plus(s, -6), 4) = Plus(s, -6 + 4) BY <1>5, PlusPlus
        <4>3. -6 + 2 = -4 /\ -6 + 4 = -2 OBVIOUS
        <4> QED BY <4>1, <4>2, <4>3, <3>1
      <3>3. ASSUME NEW j \in {-6, -4, -2}, NEW k \in {-14, -12, -10, -8}
            PROVE  Plus(s, j) # Plus(s, k)
        <4>1. AddressSpace \in Int /\ AddressSpace >= 16 BY CpuAssumption
        <4>2. k < j /\ j - k < AddressSpace /\ j \in Int /\ k \in Int BY <4>1
        <4>3. Plus(s, k) # Plus(s, j) BY <1>5, <4>2, PlusApart
        <4> QED BY <4>3
      <3>4. \A a \in Extent(f) : a \notin {h.a7, i.a7, Plus(i.a7, 2), whole.a7}
        BY <3>1, <3>2, <3>3, <2>1 DEF Extent
      <3> HIDE DEF f, m
      <3>5. \A a \in Extent(f) : a \in DOMAIN whole.mem /\ whole.mem[a] = m[a]
        BY <3>1, <3>4, <2>1, <1>27, <1>8, <1>10, <1>12 DEF HeldIn, m
      <3>6. HeldIn(f, whole.mem) BY <3>1, <3>5 DEF HeldIn, Extent
      <3>7. e.frame = f BY <1>14, <2>10 DEF Keeps, f
      <3> QED BY <3>6, <3>7, <2>10
    <2>12. /\ Sound(e) /\ ~Thrown(e) /\ Undisturbed(c, e) /\ e.sr = new /\ e.otherSp = g.otherSp
           /\ e.stopped = g.stopped /\ e.halted = g.halted /\ e.frame = g.frame
           /\ e.inAddressError = g.inAddressError
      BY <1>14, <1>27, <2>10 DEF Keeps, Undisturbed, Thrown
    <2>13. /\ g.stopped = c.stopped /\ g.halted = c.halted /\ g.otherSp = Usp(c)
           /\ g.inAddressError = c.inAddressError
           /\ \E p \in Addresses : g.frame = [at |-> Plus(s, -6), pc |-> p, sr |-> c.sr]
      BY <1>2, <2>1 DEF Enters
    <2>14. Enters(c, e, 14) BY <1>3, <2>1, <2>10, <2>11, <2>12, <2>13 DEF Enters, s
    <2> QED BY <2>14
  <1> QED BY <1>25, <1>26, <1>27

\* A BusError ends in the CPU that the machine halts.
LEMMA PanicHalts ==
  ASSUME NEW c, Sound(c), Panicked(c), NEW e \in Caught(c)
  PROVE  Halts(e) /\ e.halted = "BusError"
  <1> DEFINE dead == [c EXCEPT !.fault = None, !.halted = "BusError"]
  <1>1. e = dead BY DEF Caught
  <1>2. /\ dead = [f \in Fields |-> dead[f]] /\ dead.fault = None /\ dead.halted = "BusError"
        /\ dead.sr = c.sr /\ dead.a7 = c.a7 /\ dead.otherSp = c.otherSp
        /\ dead.pc = c.pc /\ dead.instructionPc = c.instructionPc /\ dead.ipl = c.ipl
        /\ dead.mem = c.mem /\ dead.inAddressError = c.inAddressError
    BY DEF Sound, Fields
  <1> HIDE DEF dead
  <1> QED BY <1>1, <1>2 DEF Halts, Halted, Sound, Thrown

-----------------------------------------------------------------------------
(* The instructions.                                                       *)

\* What instructions only a supervisor may run do to the stack pointers.
Supervises(b, c) ==
  /\ b.sr.s /\ Sound(c) /\ ~Thrown(c) /\ Undisturbed(b, c)
  /\ c.halted = b.halted /\ c.frame = b.frame
  /\ \/ Usp(c) = Usp(b) /\ (Odd(Ssp(c)) <=> Odd(Ssp(b)))
     \/ c.sr.s /\ Ssp(c) = Ssp(b)
     \/ c.sr.s /\ Ssp(c) = Usp(b) /\ Usp(c) = Usp(b)

Runs(b, c) ==
  \/ Keeps(b, c)
  \/ \E d : Keeps(b, d) /\ Level(b, d) /\ ~Thrown(d) /\ Excepts(d, c)
  \/ Supervises(b, c)

\* In supervisor mode it leaves the parity of A7, or it loads A7.
Straight(b, c) ==
  /\ Keeps(b, c) => Level(b, c) \/ Loads(b, c)
  /\ Supervises(b, c) => (Odd(Ssp(c)) <=> Odd(Ssp(b))) \/ Loads(b, c)

LEMMA KeepsStraight ==
  ASSUME NEW b, NEW c, Keeps(b, c), Level(b, c) \/ Loads(b, c)
  PROVE  Runs(b, c) /\ Straight(b, c)
  BY DEF Runs, Straight, Supervises, Keeps, Level, Loads, Ssp

LEMMA ExceptionRuns ==
  ASSUME NEW b, NEW d, Keeps(b, d), Level(b, d), ~Thrown(d), NEW pc \in Addresses, NEW c \in exception(d, pc)
  PROVE  Runs(b, c) /\ Straight(b, c)
  <1>1. Sound(d) BY DEF Keeps
  <1>2. Excepts(d, c) BY <1>1, ExceptionExcepts
  <1>3. d.sr = b.sr /\ d.otherSp = b.otherSp /\ (Odd(d.a7) <=> Odd(b.a7)) BY DEF Keeps, Level
  <1>5. c.sr.s /\ (Odd(c.a7) <=> Odd(Ssp(d))) BY <1>2 DEF Excepts
  <1>6. Keeps(b, c) => Level(b, c) BY <1>3, <1>5 DEF Keeps, Level, Ssp
  <1>7. Supervises(b, c) => (Odd(Ssp(c)) <=> Odd(Ssp(b))) BY <1>3, <1>5 DEF Supervises, Ssp
  <1> QED BY <1>2, <1>6, <1>7 DEF Runs, Straight

LEMMA PrivilegedRuns ==
  ASSUME NEW b, Sound(b), ~Thrown(b), NEW outcomes, NEW c \in Privileged(b, outcomes),
         b.sr.s /\ c \in outcomes => Runs(b, c) /\ Straight(b, c)
  PROVE  Runs(b, c) /\ Straight(b, c)
  <1>1. b.instructionPc \in Addresses BY DEF Sound
  <1>2. b.sr.s \/ c \in exception(b, b.instructionPc) BY DEF Privileged, privilege_violation
  <1>3. CASE c \in exception(b, b.instructionPc) BY <1>1, <1>3, ExceptionRuns, KeepsSelf
  <1> QED BY <1>2, <1>3 DEF Privileged

LEMMA Chain ==
  ASSUME NEW b, NEW c, NEW d, Keeps(b, c), Level(b, c), Keeps(c, d), Level(c, d)
  PROVE  Keeps(b, d) /\ Level(b, d)
  BY KeepsOn, LevelOn

LEMMA ControlOperands ==
  /\ ControlAddress \in SUBSET Operands /\ ControlAlterAddress \in SUBSET Operands
  /\ WordSource \in SUBSET Operands
  <1>1. {4} \in SUBSET Sizes /\ {2} \in SUBSET Sizes /\ "address" \in Dos /\ "read" \in Dos
    BY DEF Sizes, Dos
  <1> QED BY <1>1, OperandType DEF ControlAddress, ControlAlterAddress, WordSource

LEMMA ComputeRuns ==
  ASSUME NEW b, Sound(b), NEW c \in UNION {Operate(b, f) : f \in DataInstructions}
  PROVE  Runs(b, c) /\ Straight(b, c)
  BY DataInstructionsRegular, OperateKeeps, KeepsStraight

LEMMA MovemRuns ==
  ASSUME NEW b, Sound(b), ~Thrown(b), NEW c \in op_movem(b)
  PROVE  Runs(b, c) /\ Straight(b, c)
  <1> DEFINE d == FetchWords(b, 1)
  <1>1. PICK n \in MovemCounts, z \in {2, 4} : c \in Movem(d, n, z) BY DEF op_movem
  <1>2. Keeps(b, d) /\ Level(b, d) BY FetchKeeps
  <1>3. Sound(d) BY <1>2 DEF Keeps
  <1> HIDE DEF d
  <1> DEFINE count == (n * z) \div 2
             words == Unknowns(count)
             low   == Plus(d.a7, -2 * count)
             saved == WriteWords(d, low, words)
             Loaded(e) == IF n > 0 THEN LoadA(Reach(e.cpu, e.at, count)) ELSE {e.cpu}
             Located(operands) == UNION {decode_ea(d, x) : x \in operands}
             s == IF Thrown(saved) THEN saved ELSE [saved EXCEPT !.a7 = low]
             l == Popped(d, count)
             W == {WriteWords(e.cpu, e.at, words) : e \in Located(ControlAlterAddress)}
             U == UNION {Loaded(e) : e \in Located(ControlAddress)}
  <1>4. count \in Nat /\ -2 * count \in Int /\ (-2 * count) % 2 = 0
    <2>1. n \in Nat BY CpuAssumption
    <2>2. CASE z = 2 BY <2>1, <2>2
    <2>3. CASE z = 4 BY <2>1, <2>3
    <2> QED BY <2>1, <2>2, <2>3
  <1> HIDE DEF count
  <1>5. words \in Seq(Contents) BY <1>4, PushedWords DEF Unknowns
  <1>6. d.a7 \in Int BY <1>3, CpuAssumption DEF Sound, Addresses
  <1>7. low \in Addresses /\ (Odd(low) <=> Odd(d.a7)) BY <1>4, <1>6, PlusType, PlusEven
  <1>8. c = s \/ c = l \/ c \in W \/ c \in U
    <2>1. Movem(d, n, z) = {s, l} \cup W \cup U BY DEF Movem, count
    <2> HIDE DEF s, l, W, U
    <2> QED BY <2>1, <1>1
  <1> HIDE DEF words, low
  <1>9. Keeps(d, s) /\ Level(d, s)
    <2>1. Keeps(d, saved) /\ Level(d, saved) BY <1>3, <1>5, <1>7, WriteKeeps
    <2>2. Sound(saved) BY <2>1 DEF Keeps
    <2> DEFINE m == [saved EXCEPT !.a7 = low]
    <2> HIDE DEF saved
    <2>3. Keeps(saved, m) /\ m.a7 = low BY <2>2, <1>7, MoveA7
    <2> HIDE DEF m
    <2>4. Keeps(d, m) /\ Level(d, m) BY <2>1, <2>3, <1>7, KeepsOn DEF Level
    <2>5. s = saved \/ s = m BY DEF m
    <2> HIDE DEF s
    <2> QED BY <2>1, <2>4, <2>5
  <1>10. Keeps(d, l) /\ Level(d, l) BY <1>3, <1>4, PoppedKeeps
  <1>11. \A e \in Located(ControlAddress) \cup Located(ControlAlterAddress) :
            Keeps(d, e.cpu) /\ Level(d, e.cpu) /\ e.at \in Addresses \cup {-1}
    BY <1>3, ControlOperands, DecodeKeeps
  <1>12. \A e \in Located(ControlAlterAddress) : e.at \in Addresses
    <2>1. EaControlAlterable \subseteq {"(An)", "d16(An)", "d8(An,Xn)", "abs.W", "abs.L"}
      BY DEF EaControlAlterable, EaControl, EaAlterable, EaAll
    <2>2. \A h \in Shapes("(An)", 4) : h.via # "register" BY DEF Shapes
    <2>3. ASSUME NEW m \in {"d16(An)", "d8(An,Xn)", "abs.W"}, NEW h \in Shapes(m, 4)
          PROVE  h.via # "register"
      <3>1. m \notin {"Dn", "An", "(An)", "(An)+", "-(An)", "abs.L", "#imm"} OBVIOUS
      <3>2. Shapes(m, 4) = {[via |-> "memory", ext |-> 1]} BY <3>1 DEF Shapes
      <3>3. h = [via |-> "memory", ext |-> 1] BY <3>2
      <3> QED BY <3>3
    <2>4. \A h \in Shapes("abs.L", 4) : h.via # "register" BY DEF Shapes
    <2>5. \A m \in EaControlAlterable : \A h \in Shapes(m, 4) : h.via # "register"
      BY <2>1, <2>2, <2>3, <2>4
    <2>6. \A x \in ControlAlterAddress : x.via # "register"
      BY <2>5 DEF ControlAlterAddress, Operand
    <2> QED BY <2>6, <1>3, ControlOperands, DecodeKeeps
  <1>13. \A e \in W : Keeps(d, e) /\ Level(d, e)
    <2> SUFFICES ASSUME NEW e \in Located(ControlAlterAddress)
                 PROVE  Keeps(d, WriteWords(e.cpu, e.at, words)) /\ Level(d, WriteWords(e.cpu, e.at, words))
      OBVIOUS
    <2>1. Keeps(d, e.cpu) /\ Level(d, e.cpu) /\ e.at \in Addresses BY <1>11, <1>12
    <2>2. Sound(e.cpu) BY <2>1 DEF Keeps
    <2>3. /\ Keeps(e.cpu, WriteWords(e.cpu, e.at, words))
          /\ Level(e.cpu, WriteWords(e.cpu, e.at, words))
      BY <1>5, <2>1, <2>2, WriteKeeps
    <2> QED BY <2>1, <2>3, KeepsOn, LevelOn
  <1>14. \A e \in U : Keeps(d, e) /\ (Level(d, e) \/ Loads(d, e))
    <2> SUFFICES ASSUME NEW e \in Located(ControlAddress), NEW g \in Loaded(e)
                 PROVE  Keeps(d, g) /\ (Level(d, g) \/ Loads(d, g))
      OBVIOUS
    <2>1. Keeps(d, e.cpu) /\ Level(d, e.cpu) BY <1>11
    <2>2. Sound(e.cpu) BY <2>1 DEF Keeps
    <2> DEFINE h == Reach(e.cpu, e.at, count)
    <2>3. Keeps(e.cpu, h) /\ Level(e.cpu, h) BY <2>2, ReachKeeps
    <2>4. g \in LoadA(h) \/ g = e.cpu OBVIOUS
    <2> HIDE DEF h
    <2>5. CASE g = e.cpu BY <2>1, <2>5
    <2>6. CASE g \in LoadA(h)
      <3>1. Keeps(d, h) /\ Level(d, h) /\ Sound(h) BY <2>1, <2>3, Chain DEF Keeps
      <3>2. Keeps(h, g) /\ (Level(h, g) \/ Loads(h, g)) BY <2>6, <3>1, LoadAKeeps
      <3> QED BY <3>1, <3>2, KeepsOn, LevelOn DEF Loads
    <2> QED BY <2>4, <2>5, <2>6
  <1> HIDE DEF s, l, W, U
  <1>15. Keeps(d, c) /\ (Level(d, c) \/ Loads(d, c)) BY <1>8, <1>9, <1>10, <1>13, <1>14
  <1>16. Keeps(b, c) /\ (Level(b, c) \/ Loads(b, c)) BY <1>2, <1>15, KeepsOn, LevelOn DEF Loads
  <1> QED BY <1>16, KeepsStraight

\* LINK pushes a long and moves A7 by the displacement.
Links(b, c) == ~Thrown(c) /\ \E n \in Displacements : c.a7 = Plus(b.a7, n - 4)

LEMMA PushDataKeeps ==
  ASSUME NEW c, Sound(c)
  PROVE  /\ Keeps(c, PushData(c)) /\ Level(c, PushData(c))
         /\ ~Thrown(c) => PushData(c).a7 = Plus(c.a7, -4)
         /\ Thrown(c) => PushData(c) = c
  BY PushTwo, PushedWords DEF PushData, Pushes

LEMMA Push32Keeps ==
  ASSUME NEW c, Sound(c), NEW pc \in Addresses
  PROVE  Keeps(c, push32(c, pc)) /\ Level(c, push32(c, pc))
  BY PushTwo, PushedWords DEF push32, Pushes

LEMMA PushAddressRuns ==
  ASSUME NEW b, Sound(b), ~Thrown(b), NEW c \in op_pea(b) \cup op_link(b)
  PROVE  Keeps(b, c) /\ (Level(b, c) \/ Links(b, c))
  <1>1. CASE c \in op_pea(b)
    <2>1. PICK d \in Accessed(b, ControlAddress) : c = PushData(d) BY <1>1 DEF op_pea
    <2>2. Keeps(b, d) /\ Level(b, d) BY ControlOperands, AccessedKeeps
    <2>3. Sound(d) BY <2>2 DEF Keeps
    <2>4. Keeps(d, c) /\ Level(d, c) BY <2>1, <2>3, PushDataKeeps
    <2> QED BY <2>2, <2>4, Chain
  <1>2. CASE c \in op_link(b)
    <2> DEFINE d == FetchWords(b, 1)
               p == PushData(d)
    <2>1. PICK n \in Displacements : c = IF Thrown(p) THEN p ELSE [p EXCEPT !.a7 = Plus(@, n)]
      BY <1>2 DEF op_link
    <2>2. Keeps(b, d) /\ Level(b, d) /\ d.a7 = b.a7 BY FetchKeeps
    <2>3. Sound(d) BY <2>2 DEF Keeps
    <2> HIDE DEF d
    <2>4. Keeps(d, p) /\ Level(d, p) /\ (~Thrown(p) => p.a7 = Plus(b.a7, -4)) BY <2>2, <2>3, PushDataKeeps
    <2>5. Sound(p) /\ Keeps(b, p) /\ Level(b, p) BY <2>2, <2>4, Chain DEF Keeps
    <2> HIDE DEF p
    <2>6. CASE Thrown(p) BY <2>1, <2>5, <2>6
    <2>7. CASE ~Thrown(p)
      <3> DEFINE v == Plus(p.a7, n)
      <3>1. n \in Int /\ b.a7 \in Int /\ p.a7 \in Int
        <4>1. b.a7 \in Addresses /\ p.a7 \in Addresses BY <2>5 DEF Sound
        <4>2. Displacements \subseteq Int BY CpuAssumption
        <4>3. \A a \in Addresses : a \in Int BY CpuAssumption DEF Addresses
        <4> QED BY <4>1, <4>2, <4>3
      <3>2. v \in Addresses BY <3>1, PlusType
      <3>3. v = Plus(b.a7, n - 4)
        <4> DEFINE k == -4
        <4>3. k \in Int OBVIOUS
        <4>2. k + n = n - 4 BY <3>1
        <4> HIDE DEF k
        <4>4. Plus(Plus(b.a7, k), n) = Plus(b.a7, k + n) BY <3>1, <4>3, PlusPlus
        <4>1. Plus(Plus(b.a7, -4), n) = Plus(b.a7, k + n) BY <4>4 DEF k
        <4> QED BY <4>1, <4>2, <2>4, <2>7
      <3>4. c = [p EXCEPT !.a7 = v] BY <2>1, <2>7
      <3> HIDE DEF v
      <3>5. Keeps(p, c) /\ c.a7 = v /\ c.fault = p.fault BY <3>2, <3>4, <2>5, MoveA7
      <3> QED BY <3>3, <3>5, <2>5, <2>7, KeepsOn DEF Links, Thrown
    <2> QED BY <2>6, <2>7
  <1> QED BY <1>1, <1>2

\* UNLK loads A7 before it reads through it.
LEMMA UnlinkRuns ==
  ASSUME NEW b, Sound(b), ~Thrown(b), NEW c \in op_unlk(b)
  PROVE  Runs(b, c) /\ (~Thrown(c) => Straight(b, c) \/ (Keeps(b, c) /\ ~Odd(c.a7)))
  <1> DEFINE popped(v) == pop32([b EXCEPT !.a7 = v])
             U == UNION {{p.cpu : p \in popped(v)} : v \in Pointers}
             V == UNION {LoadA(p.cpu) : p \in popped(b.a7)}
  <1>1. c \in U \/ c \in V
    <2>1. op_unlk(b) = U \cup V BY DEF op_unlk
    <2> HIDE DEF U, V
    <2> QED BY <2>1
  <1>2. ASSUME NEW v \in Addresses, NEW p \in popped(v)
        PROVE  Keeps(b, p.cpu) /\ (Odd(p.cpu.a7) <=> Odd(v)) /\ (~Thrown(p.cpu) => ~Odd(v))
    <2> DEFINE d == [b EXCEPT !.a7 = v]
    <2>1. Keeps(b, d) /\ d.a7 = v /\ d.fault = b.fault BY MoveA7
    <2>2. Sound(d) /\ ~Thrown(d) BY <2>1 DEF Keeps, Thrown
    <2>3. p \in pop32(d) OBVIOUS
    <2> HIDE DEF d
    <2>4. Keeps(d, p.cpu) /\ Level(d, p.cpu) /\ p.cpu = Popped(d, 2) BY <2>2, <2>3, Pop32
    <2>5. Throws(d, p.cpu, d.a7, 2) BY <2>2, <2>4, PoppedKeeps
    <2> QED BY <2>1, <2>2, <2>4, <2>5, KeepsOn DEF Level, Throws
  <1> HIDE DEF popped
  <1>3. CASE c \in U
    <2>1. PICK v \in Pointers : \E p \in popped(v) : c = p.cpu BY <1>3
    <2>2. v \in Addresses BY CpuAssumption
    <2> QED BY <2>1, <2>2, <1>2 DEF Runs
  <1>4. CASE c \in V
    <2>1. PICK p \in popped(b.a7) : c \in LoadA(p.cpu) BY <1>4
    <2>2. b.a7 \in Addresses BY DEF Sound
    <2>3. Keeps(b, p.cpu) /\ Level(b, p.cpu) BY <2>2, <1>2 DEF Level
    <2>4. Sound(p.cpu) BY <2>3 DEF Keeps
    <2>5. Keeps(p.cpu, c) /\ (Level(p.cpu, c) \/ Loads(p.cpu, c)) BY <2>1, <2>4, LoadAKeeps
    <2>6. Keeps(b, c) /\ (Level(b, c) \/ Loads(b, c)) BY <2>3, <2>5, KeepsOn, LevelOn DEF Loads
    <2> QED BY <2>6, KeepsStraight
  <1> QED BY <1>1, <1>3, <1>4

LEMMA BranchRuns ==
  ASSUME NEW b, Sound(b), ~Thrown(b),
         NEW c \in op_bcc(b) \cup op_dbcc(b) \cup op_jmp(b) \cup op_jsr(b) \cup op_rts(b) \cup op_rtr(b)
  PROVE  Keeps(b, c) /\ Level(b, c)
  <1>0. Targets \subseteq Addresses BY CpuAssumption
  <1>1. ASSUME NEW d, Keeps(b, d), Level(b, d), NEW t \in Addresses
        PROVE  /\ Keeps(b, JumpTo(d, t)) /\ Level(b, JumpTo(d, t))
               /\ Keeps(b, JumpTo(push32(d, d.pc), t)) /\ Level(b, JumpTo(push32(d, d.pc), t))
    <2>1. Sound(d) /\ d.pc \in Addresses BY <1>1 DEF Keeps, Sound
    <2> DEFINE p == push32(d, d.pc)
    <2>2. Keeps(d, p) /\ Level(d, p) BY <2>1, Push32Keeps
    <2> HIDE DEF p
    <2>3. Sound(p) BY <2>2 DEF Keeps
    <2>4. Keeps(p, JumpTo(p, t)) /\ Level(p, JumpTo(p, t)) BY <2>3, JumpKeeps
    <2>5. Keeps(d, JumpTo(d, t)) /\ Level(d, JumpTo(d, t)) BY <2>1, JumpKeeps
    <2> QED BY <1>1, <2>2, <2>4, <2>5, KeepsOn, LevelOn DEF p
  <1>2. \A n \in {0, 1} : Keeps(b, FetchWords(b, n)) /\ Level(b, FetchWords(b, n)) BY FetchKeeps
  <1>3. CASE c \in op_bcc(b)
    <2>1. PICK n \in {0, 1} :
            LET d == FetchWords(b, n)
            IN c = d \/ \E t \in Targets : c = JumpTo(d, t) \/ c = JumpTo(push32(d, d.pc), t)
      BY <1>3 DEF op_bcc
    <2> QED BY <2>1, <1>0, <1>1, <1>2
  <1>4. CASE c \in op_dbcc(b)
    <2>1. LET d == FetchWords(b, 1) IN c = d \/ \E t \in Targets : c = JumpTo(d, t)
      BY <1>4 DEF op_dbcc
    <2> QED BY <2>1, <1>0, <1>1, <1>2
  <1>5. \A d \in Accessed(b, ControlAddress) : Keeps(b, d) /\ Level(b, d)
    BY ControlOperands, AccessedKeeps
  <1>6. CASE c \in op_jmp(b)
    <2>1. PICK d \in Accessed(b, ControlAddress), t \in Targets : c = JumpTo(d, t) BY <1>6 DEF op_jmp
    <2> QED BY <2>1, <1>0, <1>1, <1>5
  <1>7. CASE c \in op_jsr(b)
    <2>1. PICK d \in Accessed(b, ControlAddress), t \in Targets : c = JumpTo(push32(d, d.pc), t)
      BY <1>7 DEF op_jsr
    <2> QED BY <2>1, <1>0, <1>1, <1>5
  <1>8. CASE c \in op_rts(b)
    <2>1. PICK p \in pop32(b) : c = JumpTo(p.cpu, p.value) BY <1>8 DEF op_rts
    <2>2. Keeps(b, p.cpu) /\ Level(b, p.cpu) /\ p.value \in Addresses BY Pop32
    <2> QED BY <2>1, <2>2, <1>1
  <1>9. CASE c \in op_rtr(b)
    <2>1. PICK p \in pop16(b) : \E q \in pop32(p.cpu) : c = JumpTo(q.cpu, q.value) BY <1>9 DEF op_rtr
    <2>2. PICK q \in pop32(p.cpu) : c = JumpTo(q.cpu, q.value) BY <2>1
    <2>3. Keeps(b, p.cpu) /\ Level(b, p.cpu) BY Pop16
    <2>4. Sound(p.cpu) BY <2>3 DEF Keeps
    <2>5. Keeps(p.cpu, q.cpu) /\ Level(p.cpu, q.cpu) /\ q.value \in Addresses BY <2>4, Pop32
    <2>6. Keeps(b, q.cpu) /\ Level(b, q.cpu) BY <2>3, <2>5, Chain
    <2> QED BY <2>2, <2>5, <2>6, <1>1
  <1> QED BY <1>3, <1>4, <1>6, <1>7, <1>8, <1>9

LEMMA TrapRuns ==
  ASSUME NEW b, Sound(b), ~Thrown(b),
         NEW c \in op_trap(b) \cup op_trapv(b) \cup op_illegal(b) \cup op_chk(b) \cup op_div(b)
  PROVE  Runs(b, c) /\ Straight(b, c)
  <1>1. b.pc \in Addresses /\ b.instructionPc \in Addresses BY DEF Sound
  <1>2. Keeps(b, b) /\ Level(b, b) BY KeepsSelf
  <1>3. CASE c \in exception(b, b.pc) \/ c \in exception(b, b.instructionPc)
    BY <1>1, <1>2, <1>3, ExceptionRuns
  <1>4. CASE c = b BY <1>2, <1>4, KeepsStraight
  <1>5. CASE c \in Checked(b)
    <2>1. PICK d \in Accessed(b, WordSource) :
            c \in IF Thrown(d) THEN {d} ELSE {d} \cup exception(d, d.pc)
      BY <1>5 DEF Checked
    <2>2. Keeps(b, d) /\ Level(b, d) BY ControlOperands, AccessedKeeps
    <2>3. d.pc \in Addresses BY <2>2 DEF Keeps, Sound
    <2>4. CASE c = d BY <2>2, <2>4, KeepsStraight
    <2>5. CASE ~Thrown(d) /\ c \in exception(d, d.pc) BY <2>2, <2>3, <2>5, ExceptionRuns
    <2> QED BY <2>1, <2>4, <2>5
  <1> QED BY <1>3, <1>4, <1>5 DEF op_trap, op_trapv, op_illegal, op_chk, op_div

\* A write to SR by a supervisor, once the stack is where the instruction leaves it.
LEMMA SrSupervises ==
  ASSUME NEW b, b.sr.s, NEW d, Keeps(b, d), Level(b, d), ~Thrown(d), NEW new \in SrValues
  PROVE  LET c == set_sr(d, new)
         IN Supervises(b, c) /\ Usp(c) = Usp(b) /\ (Odd(Ssp(c)) <=> Odd(Ssp(b)))
  <1> DEFINE c == set_sr(d, new)
  <1>1. Sound(d) BY DEF Keeps
  <1>2. /\ Sound(c) /\ c.sr = new /\ Usp(c) = Usp(d) /\ Ssp(c) = Ssp(d) /\ c.halted = d.halted
        /\ c.frame = d.frame /\ c.fault = d.fault /\ c.mem = d.mem /\ c.wrote = d.wrote
    BY <1>1, SetSr
  <1> HIDE DEF c
  <1>3. Usp(d) = Usp(b) /\ (Odd(Ssp(d)) <=> Odd(Ssp(b))) BY DEF Keeps, Level, Usp, Ssp
  <1>4. Supervises(b, c) BY <1>2, <1>3 DEF Supervises, Keeps, Thrown, Undisturbed
  <1> QED BY <1>2, <1>3, <1>4 DEF c

LEMMA SupervisesRuns ==
  ASSUME NEW b, NEW c, Supervises(b, c), Odd(Ssp(c)) <=> Odd(Ssp(b))
  PROVE  Runs(b, c) /\ Straight(b, c)
  BY DEF Runs, Straight, Supervises, Keeps, Level, Ssp

LEMMA RteRuns ==
  ASSUME NEW b, Sound(b), ~Thrown(b), NEW c \in op_rte(b)
  PROVE  Runs(b, c) /\ Straight(b, c)
  <1> DEFINE outcomes == UNION {{IF Thrown(q.cpu) THEN q.cpu ELSE [set_sr(q.cpu, p.value) EXCEPT !.pc = q.value] :
                                 q \in pop32(p.cpu)} : p \in pop16(b)}
  <1>1. c \in Privileged(b, outcomes) BY DEF op_rte
  <1>2. ASSUME b.sr.s, c \in outcomes PROVE Runs(b, c) /\ Straight(b, c)
    <2>1. PICK p \in pop16(b) : \E q \in pop32(p.cpu) :
            c = IF Thrown(q.cpu) THEN q.cpu ELSE [set_sr(q.cpu, p.value) EXCEPT !.pc = q.value]
      BY <1>2
    <2>8. PICK q \in pop32(p.cpu) :
            c = IF Thrown(q.cpu) THEN q.cpu ELSE [set_sr(q.cpu, p.value) EXCEPT !.pc = q.value]
      BY <2>1
    <2>2. Keeps(b, p.cpu) /\ Level(b, p.cpu) /\ p.value \in SrValues BY Pop16
    <2>3. Sound(p.cpu) BY <2>2 DEF Keeps
    <2>4. Keeps(p.cpu, q.cpu) /\ Level(p.cpu, q.cpu) /\ q.value \in Addresses BY <2>3, Pop32
    <2>5. Keeps(b, q.cpu) /\ Level(b, q.cpu) BY <2>2, <2>4, Chain
    <2>6. CASE Thrown(q.cpu) BY <2>8, <2>5, <2>6, KeepsStraight
    <2>7. CASE ~Thrown(q.cpu)
      <3> DEFINE e == set_sr(q.cpu, p.value)
      <3>1. Supervises(b, e) /\ Usp(e) = Usp(b) /\ (Odd(Ssp(e)) <=> Odd(Ssp(b)))
        BY <1>2, <2>2, <2>5, <2>7, SrSupervises
      <3>2. c = [e EXCEPT !.pc = q.value] BY <2>8, <2>7
      <3> HIDE DEF e
      <3>3. Sound(e) BY <3>1 DEF Supervises
      <3>4. /\ Keeps(e, c) /\ c.a7 = e.a7 /\ c.fault = e.fault /\ c.mem = e.mem /\ c.wrote = e.wrote
        BY <2>4, <3>2, <3>3, MovePc
      <3>5. c.sr = e.sr /\ c.otherSp = e.otherSp /\ c.halted = e.halted /\ c.frame = e.frame /\ Sound(c)
        BY <3>4 DEF Keeps
      <3>6. Usp(c) = Usp(e) /\ Ssp(c) = Ssp(e) BY <3>4, <3>5 DEF Usp, Ssp
      <3>7. Supervises(b, c) BY <3>1, <3>4, <3>5, <3>6 DEF Supervises, Thrown, Undisturbed
      <3> QED BY <3>1, <3>6, <3>7, SupervisesRuns
    <2> QED BY <2>6, <2>7
  <1> HIDE DEF outcomes
  <1> QED BY <1>1, <1>2, PrivilegedRuns

\* The system instructions, of which MOVE USP may load SSP from USP (Copies).
Copies(b, c) == ~Thrown(c) /\ b.sr.s /\ c.sr.s /\ Ssp(c) = Usp(b)

LEMMA SystemRuns ==
  ASSUME NEW b, Sound(b), ~Thrown(b),
         NEW c \in op_move_to_sr(b) \cup op_move_usp(b) \cup op_logic_to_sr(b) \cup op_stop(b) \cup op_reset(b)
  PROVE  Runs(b, c) /\ (Straight(b, c) \/ Copies(b, c))
  <1>0. SrWrites \subseteq SrValues BY CpuAssumption
  <1>1. CASE c \in op_move_to_sr(b)
    <2> DEFINE outcomes == {IF Thrown(d) THEN d ELSE set_sr(d, v) : d \in Accessed(b, WordSource), v \in SrWrites}
    <2>1. c \in Privileged(b, outcomes) BY <1>1 DEF op_move_to_sr
    <2>2. ASSUME b.sr.s, c \in outcomes PROVE Runs(b, c) /\ Straight(b, c)
      <3>1. PICK d \in Accessed(b, WordSource), v \in SrWrites : c = IF Thrown(d) THEN d ELSE set_sr(d, v)
        BY <2>2
      <3>2. Keeps(b, d) /\ Level(b, d) BY ControlOperands, AccessedKeeps
      <3>3. CASE Thrown(d) BY <3>1, <3>2, <3>3, KeepsStraight
      <3>4. CASE ~Thrown(d)
        <4>1. c = set_sr(d, v) /\ v \in SrValues BY <1>0, <3>1, <3>4
        <4> QED BY <2>2, <3>2, <3>4, <4>1, SrSupervises, SupervisesRuns
      <3> QED BY <3>3, <3>4
    <2> HIDE DEF outcomes
    <2> QED BY <2>1, <2>2, PrivilegedRuns
  <1>2. CASE c \in op_move_usp(b)
    <2> DEFINE in  == [b EXCEPT !.a7 = b.otherSp]
               out == [b EXCEPT !.otherSp = b.a7]
               any == {[b EXCEPT !.otherSp = v] : v \in Pointers}
    <2>1. c \in Privileged(b, {b, in, out} \cup any) BY <1>2 DEF op_move_usp
    <2>2. ASSUME b.sr.s, c \in {b, in, out} \cup any PROVE Runs(b, c) /\ (Straight(b, c) \/ Copies(b, c))
      <3>1. CASE c = b BY <3>1, KeepsSelf, KeepsStraight
      <3>2. CASE c = in
        <4>1. b.otherSp \in Addresses BY DEF Sound
        <4>2. Keeps(b, in) /\ in.a7 = b.otherSp /\ in.fault = b.fault BY <4>1, MoveA7
        <4> QED BY <2>2, <3>2, <4>2 DEF Runs, Copies, Keeps, Ssp, Usp, Thrown
      <3>3. CASE \E v \in Addresses : c = [b EXCEPT !.otherSp = v]
        <4>1. PICK v \in Addresses : c = [b EXCEPT !.otherSp = v] BY <3>3
        <4>2. /\ Sound(c) /\ c.a7 = b.a7 /\ c.sr = b.sr /\ c.halted = b.halted /\ c.frame = b.frame
              /\ c.fault = b.fault /\ c.mem = b.mem /\ c.wrote = b.wrote
          BY <4>1 DEF Sound, Fields
        <4>3. Supervises(b, c) BY <2>2, <4>2 DEF Supervises, Undisturbed, Ssp, Thrown
        <4>4. Ssp(c) = Ssp(b) BY <2>2, <4>2 DEF Ssp
        <4> QED BY <4>3, <4>4, SupervisesRuns
      <3>4. b.a7 \in Addresses /\ Pointers \subseteq Addresses BY CpuAssumption DEF Sound
      <3> QED BY <2>2, <3>1, <3>2, <3>3, <3>4
    <2> HIDE DEF in, out, any
    <2>3. CASE b.sr.s BY <2>1, <2>2, <2>3 DEF Privileged
    <2>4. CASE ~b.sr.s BY <2>1, <2>4, PrivilegedRuns
    <2> QED BY <2>3, <2>4
  <1> DEFINE d == FetchWords(b, 1)
  <1>3. Keeps(b, d) /\ Level(b, d) BY FetchKeeps
  <1>4. Sound(d) /\ d.sr = b.sr BY <1>3 DEF Keeps
  <1> HIDE DEF d
  <1>5. ASSUME NEW outcomes, c \in Privileged(d, outcomes),
               ~Thrown(d) /\ b.sr.s /\ c \in outcomes => Runs(b, c) /\ Straight(b, c)
        PROVE  Runs(b, c) /\ Straight(b, c)
    <2>1. CASE Thrown(d) BY <1>3, <1>5, <2>1, KeepsStraight DEF Privileged
    <2>2. CASE ~Thrown(d) /\ b.sr.s BY <1>4, <1>5, <2>2 DEF Privileged
    <2>3. CASE ~Thrown(d) /\ ~b.sr.s
      <3>1. c \in exception(d, d.instructionPc) BY <1>4, <1>5, <2>3 DEF Privileged, privilege_violation
      <3>2. d.instructionPc \in Addresses BY <1>4 DEF Sound
      <3> QED BY <1>3, <2>3, <3>1, <3>2, ExceptionRuns
    <2> QED BY <2>1, <2>2, <2>3
  <1>6. CASE c \in op_logic_to_sr(b)
    <2> DEFINE outcomes == {set_sr(d, v) : v \in SrWrites}
    <2>1. c \in Privileged(d, outcomes) BY <1>6 DEF op_logic_to_sr, d
    <2>2. ASSUME ~Thrown(d), b.sr.s, c \in outcomes PROVE Runs(b, c) /\ Straight(b, c)
      BY <1>0, <1>3, <1>4, <2>2, SrSupervises, SupervisesRuns
    <2> HIDE DEF outcomes
    <2> QED BY <2>1, <2>2, <1>5
  <1>7. CASE c \in op_stop(b)
    <2> DEFINE outcomes == {[set_sr(d, v) EXCEPT !.stopped = TRUE] : v \in SrWrites}
    <2>1. c \in Privileged(d, outcomes) BY <1>7 DEF op_stop, d
    <2>2. ASSUME ~Thrown(d), b.sr.s, c \in outcomes PROVE Runs(b, c) /\ Straight(b, c)
      <3>1. PICK v \in SrWrites : c = [set_sr(d, v) EXCEPT !.stopped = TRUE] BY <2>2
      <3> DEFINE e == set_sr(d, v)
      <3>2. Supervises(b, e) /\ Usp(e) = Usp(b) /\ (Odd(Ssp(e)) <=> Odd(Ssp(b)))
        BY <1>0, <1>3, <1>4, <2>2, SrSupervises
      <3>3. c = [e EXCEPT !.stopped = TRUE] BY <3>1
      <3> HIDE DEF e
      <3>4. /\ Sound(c) /\ c.sr = e.sr /\ c.a7 = e.a7 /\ c.otherSp = e.otherSp /\ c.halted = e.halted
            /\ c.frame = e.frame /\ c.fault = e.fault /\ c.mem = e.mem /\ c.wrote = e.wrote
        BY <3>2, <3>3 DEF Supervises, Sound, Fields
      <3>5. Usp(c) = Usp(e) /\ Ssp(c) = Ssp(e) BY <3>4 DEF Usp, Ssp
      <3>6. Supervises(b, c) BY <3>2, <3>4, <3>5 DEF Supervises, Thrown, Undisturbed
      <3> QED BY <3>2, <3>5, <3>6, SupervisesRuns
    <2> HIDE DEF outcomes
    <2> QED BY <2>1, <2>2, <1>5
  <1>8. CASE c \in op_reset(b)
    <2>1. c \in Privileged(b, {b}) BY <1>8 DEF op_reset
    <2>2. c = b => Runs(b, c) /\ Straight(b, c) BY KeepsSelf, KeepsStraight
    <2> QED BY <2>1, <2>2, PrivilegedRuns
  <1> QED BY <1>1, <1>2, <1>6, <1>7, <1>8

-----------------------------------------------------------------------------
(* The steps.                                                              *)

\* The CPU that has stacked an exception in a step that began with b.
Entered(b, e) ==
  /\ Sound(e) /\ ~Thrown(e) /\ Undisturbed(b, e)
  /\ e.sr.s /\ ~e.sr.t /\ e.halted = b.halted /\ ~Odd(e.a7)
  /\ \E at \in Addresses, pc \in Addresses :
       /\ e.frame = [at |-> at, pc |-> pc, sr |-> b.sr] /\ ~Odd(at)
       /\ ~b.sr.s => at = Plus(Ssp(b), -6)
  /\ HeldIn(e.frame, e.mem)
  /\ b.sr.s => e.otherSp = Usp(b)
  /\ ~b.sr.s => \E n \in {6, 14} : e.a7 = Plus(Ssp(b), -n)

\* How a step that began with b may end.
Ends(b, e) ==
  \/ Keeps(b, e) /\ ~Thrown(e)
  \/ Entered(b, e)
  \/ Supervises(b, e)
  \/ Halts(e)

LEMMA EntersEntered ==
  ASSUME NEW b, NEW d, Keeps(b, d), NEW n \in {6, 14}, NEW e, Enters(d, e, n)
  PROVE  Entered(b, e)
  <1> DEFINE s == Ssp(d)
  <1>1. Sound(d) /\ d.sr = b.sr /\ d.otherSp = b.otherSp /\ d.halted = b.halted BY DEF Keeps
  <1>2. s \in Addresses /\ s \in Int BY <1>1, CpuAssumption DEF Sound, Ssp, Addresses
  <1>3. ~b.sr.s => s = Ssp(b) BY <1>1 DEF Ssp
  <1>4. b.sr.s => Usp(d) = Usp(b) BY <1>1 DEF Usp
  <1>5. PICK pc \in Addresses : e.frame = [at |-> Plus(s, -6), pc |-> pc, sr |-> b.sr]
    BY <1>1 DEF Enters
  <1>6. ~Odd(s) /\ e.a7 = Plus(s, -n) /\ e.otherSp = Usp(d) BY DEF Enters
  <1> HIDE DEF s
  <1>7. Plus(s, -6) \in Addresses /\ ~Odd(Plus(s, -6)) /\ ~Odd(Plus(s, -n))
    <2>1. -6 \in Int /\ (-6) % 2 = 0 OBVIOUS
    <2>2. -n \in Int /\ (-n) % 2 = 0 OBVIOUS
    <2>3. Odd(Plus(s, -6)) <=> Odd(s) BY <1>2, <2>1, PlusEven
    <2>4. Odd(Plus(s, -n)) <=> Odd(s) BY <1>2, <2>2, PlusEven
    <2>5. Plus(s, -6) \in Addresses BY <1>2, <2>1, PlusType
    <2> QED BY <1>6, <2>3, <2>4, <2>5
  <1>8. Undisturbed(b, e) BY DEF Undisturbed, Keeps, Enters
  <1>9. Sound(e) /\ ~Thrown(e) /\ e.sr.s /\ ~e.sr.t /\ e.halted = b.halted /\ HeldIn(e.frame, e.mem)
    BY <1>1 DEF Enters
  <1>10. ~b.sr.s => \E k \in {6, 14} : e.a7 = Plus(Ssp(b), -k) BY <1>3, <1>6
  <1> QED BY <1>3, <1>4, <1>5, <1>6, <1>7, <1>8, <1>9, <1>10 DEF Entered

\* Caught: what an error that was thrown leads to.
LEMMA FaultEnds ==
  ASSUME NEW b, NEW c, Keeps(b, c), Thrown(c), NEW e \in Caught(c)
  PROVE  /\ \/ Entered(b, e)
            \/ Halts(e) /\ (e.halted = "DoubleBusFault" => Odd(Ssp(c)) \/ b.inAddressError)
         /\ ~Panicked(c) /\ ~Odd(Ssp(c)) /\ ~b.inAddressError /\ RoomBelow(Ssp(c), 14) => Entered(b, e)
  <1>1. Sound(c) /\ c.inAddressError = b.inAddressError BY DEF Keeps
  <1>2. CASE Panicked(c)
    <2>1. Halts(e) /\ e.halted = "BusError" BY <1>1, <1>2, PanicHalts
    <2> QED BY <2>1, <1>2
  <1>3. CASE ~Panicked(c)
    <2>1. e \in address_error(c) BY <1>3 DEF Caught
    <2>2. /\ \/ Enters(c, e, 14)
             \/ Halts(e) /\ (e.halted = "DoubleBusFault" => Odd(Ssp(c)) \/ c.inAddressError)
          /\ ~Odd(Ssp(c)) /\ ~c.inAddressError /\ RoomBelow(Ssp(c), 14) => Enters(c, e, 14)
      BY <1>1, <2>1, AddressErrorEnters
    <2>3. Enters(c, e, 14) => Entered(b, e) BY EntersEntered
    <2> QED BY <1>1, <2>2, <2>3
  <1> QED BY <1>2, <1>3

LEMMA ExceptedEnds ==
  ASSUME NEW b, NEW d, Keeps(b, d), Level(b, d), ~Thrown(d), NEW c, Excepts(d, c), NEW e \in Caught(c)
  PROVE  /\ Entered(b, e) \/ (Halts(e) /\ (e.halted = "DoubleBusFault" => Odd(Ssp(b))))
         /\ ~Odd(Ssp(d)) /\ RoomBelow(Ssp(d), 6) => Entered(b, e)
  <1>0. Odd(Ssp(d)) <=> Odd(Ssp(b)) BY DEF Keeps, Level, Ssp
  <1>1. CASE Enters(d, c, 6)
    <2>1. e = c BY <1>1, Errors DEF Enters, Caught
    <2>2. Entered(b, e) BY <1>1, <2>1, EntersEntered
    <2> QED BY <2>2
  <1>2. CASE ~Odd(Ssp(d)) /\ ~Enters(d, c, 6)
    <2>1. Sound(c) /\ Panicked(c) /\ ~RoomBelow(Ssp(d), 6) BY <1>2 DEF Excepts, Stacks
    <2>2. Halts(e) /\ e.halted = "BusError" BY <2>1, PanicHalts
    <2> QED BY <2>1, <2>2
  <1>3. CASE Odd(Ssp(d))
    <2>1. Sound(c) /\ Thrown(c) /\ ~Panicked(c) /\ c.sr.s /\ Odd(c.a7) BY <1>3 DEF Excepts, Stacks
    <2>2. Odd(Ssp(c)) /\ e \in address_error(c) BY <2>1 DEF Ssp, Caught
    <2>3. Halts(e) BY <2>1, <2>2, AddressErrorEnters DEF Enters
    <2> QED BY <1>0, <1>3, <2>3
  <1> QED BY <1>1, <1>2, <1>3

\* How the CPU may halt: by a BusError, or by a double bus fault on an odd stack,
\* with inAddressError left set, or after a step that moves A7 by an odd number.
Stops(b, c, e) ==
  /\ Halts(e)
  /\ e.halted = "DoubleBusFault" => Odd(Ssp(b)) \/ b.inAddressError \/ (Thrown(c) /\ ~Straight(b, c))

LEMMA RunsEnd ==
  ASSUME NEW b, Sound(b), ~Thrown(b), NEW c, Runs(b, c), NEW e \in Caught(c)
  PROVE  /\ Ends(b, e)
         /\ \/ Entered(b, e)
            \/ Stops(b, c, e)
            \/ e = c /\ ~Thrown(c) /\ (Keeps(b, c) \/ Supervises(b, c))
  <1>0. ~Thrown(c) => e = c BY Errors DEF Caught
  <1>1. CASE Keeps(b, c) /\ Thrown(c)
    <2>1. \/ Entered(b, e)
          \/ Halts(e) /\ (e.halted = "DoubleBusFault" => Odd(Ssp(c)) \/ b.inAddressError)
      BY <1>1, FaultEnds
    <2>2. ASSUME Odd(Ssp(c)), ~Odd(Ssp(b)) PROVE ~Straight(b, c)
      BY <1>1, <2>2 DEF Straight, Loads, Level, Keeps, Ssp
    <2> QED BY <1>1, <2>1, <2>2 DEF Ends, Stops
  <1>2. CASE Keeps(b, c) /\ ~Thrown(c) BY <1>0, <1>2 DEF Ends
  <1>3. CASE \E d : Keeps(b, d) /\ Level(b, d) /\ ~Thrown(d) /\ Excepts(d, c)
    <2>1. Entered(b, e) \/ (Halts(e) /\ (e.halted = "DoubleBusFault" => Odd(Ssp(b)))) BY <1>3, ExceptedEnds
    <2> QED BY <2>1 DEF Ends, Stops
  <1>4. CASE Supervises(b, c) BY <1>0, <1>4 DEF Ends, Supervises
  <1> QED BY <1>1, <1>2, <1>3, <1>4 DEF Runs

FrameSpace == [at : Addresses, pc : Addresses, sr : SrValues]

\* Between steps the CPU has thrown nothing, and memory holds the pending frames, at even addresses.
IInv ==
  /\ Sound(cpu) /\ cpu.fault = None /\ cpu.wrote = {} /\ cpu.frame = None
  /\ \A f \in frames : f \in FrameSpace /\ ~Odd(f.at) /\ HeldIn(f, cpu.mem)

\* The CPU an instruction or an exception begins with.
Ready(b) ==
  /\ Sound(b) /\ ~Thrown(b)
  /\ b.sr = cpu.sr /\ b.a7 = cpu.a7 /\ b.otherSp = cpu.otherSp /\ b.halted = cpu.halted
  /\ b.inAddressError = cpu.inAddressError
  /\ b.mem = cpu.mem /\ b.wrote = cpu.wrote /\ b.frame = cpu.frame

\* The history after a step: a CPU that has halted forgets it.
Live(e) ==
  IF Halted(e) THEN {}
  ELSE {f \in frames : Extent(f) \cap e.wrote = {} /\ f.at >= Ssp(e)} \cup ({e.frame} \ {None})

LEMMA BecomesLeaves ==
  ASSUME NEW e, Sound(e), ~Thrown(e), Becomes(e)
  PROVE  /\ cpu' = [f \in Fields |-> cpu'[f]]
         /\ cpu'.sr = e.sr /\ cpu'.a7 = e.a7 /\ cpu'.otherSp = e.otherSp /\ cpu'.pc = e.pc
         /\ cpu'.ipl = e.ipl /\ cpu'.stopped = e.stopped /\ cpu'.halted = e.halted
         /\ cpu'.inAddressError = e.inAddressError
         /\ cpu'.instructionPc = 0 /\ cpu'.fault = None /\ cpu'.wrote = {} /\ cpu'.frame = None
         /\ Usp(cpu)' = Usp(e) /\ Ssp(cpu)' = Ssp(e)
         /\ frames' = Live(e)
         /\ cpu'.mem = [a \in UNION {Extent(f) : f \in frames'} |-> e.mem[a]]
  <1> DEFINE memory == [a \in UNION {Extent(f) : f \in Live(e)} |-> e.mem[a]]
  <1>1. /\ cpu' = [e EXCEPT !.frame = None, !.wrote = {}, !.instructionPc = 0, !.mem = memory]
        /\ frames' = Live(e)
    BY DEF Becomes, Live
  <1>2. e.fault = None BY DEF Thrown
  <1> HIDE DEF memory
  <1>3. /\ cpu' = [f \in Fields |-> cpu'[f]]
        /\ cpu'.sr = e.sr /\ cpu'.a7 = e.a7 /\ cpu'.otherSp = e.otherSp /\ cpu'.pc = e.pc
        /\ cpu'.ipl = e.ipl /\ cpu'.stopped = e.stopped /\ cpu'.halted = e.halted
        /\ cpu'.inAddressError = e.inAddressError
        /\ cpu'.instructionPc = 0 /\ cpu'.fault = None /\ cpu'.wrote = {} /\ cpu'.frame = None
        /\ cpu'.mem = memory
    BY <1>1, <1>2 DEF Sound, Fields
  <1>4. Usp(cpu)' = Usp(e) /\ Ssp(cpu)' = Ssp(e) BY <1>3 DEF Usp, Ssp
  <1> QED BY <1>1, <1>3, <1>4 DEF memory

LEMMA BecomesIInv ==
  ASSUME IInv, NEW b, Ready(b), NEW e, Ends(b, e), Becomes(e)
  PROVE  IInv'
  <1>1. Sound(e) /\ ~Thrown(e) /\ (Undisturbed(b, e) \/ Halted(e)) BY DEF Ends, Keeps, Entered, Supervises, Halts
  <1>2. ~Halted(e) /\ e.frame # None => e.frame \in FrameSpace /\ ~Odd(e.frame.at) /\ HeldIn(e.frame, e.mem)
    <2>1. CASE Entered(b, e)
      <3>1. HeldIn(e.frame, e.mem) BY <2>1 DEF Entered
      <3>2. PICK at \in Addresses, pc \in Addresses :
              e.frame = [at |-> at, pc |-> pc, sr |-> b.sr] /\ ~Odd(at)
        BY <2>1 DEF Entered
      <3>3. b.sr \in SrValues BY DEF Ready, Sound
      <3> QED BY <3>1, <3>2, <3>3 DEF FrameSpace
    <2>2. CASE ~Entered(b, e) /\ ~Halted(e)
      <3>1. e.frame = b.frame BY <2>2 DEF Ends, Keeps, Supervises, Halts
      <3> QED BY <3>1 DEF Ready, IInv
    <2> QED BY <2>1, <2>2
  <1>3. \A f \in frames' : f \in FrameSpace /\ ~Odd(f.at) /\ HeldIn(f, e.mem)
    <2> SUFFICES ASSUME NEW f \in frames' PROVE f \in FrameSpace /\ ~Odd(f.at) /\ HeldIn(f, e.mem)
      OBVIOUS
    <2>1. ~Halted(e) /\ ((f \in frames /\ Extent(f) \cap e.wrote = {}) \/ (f = e.frame /\ f # None))
      <3>1. frames' = Live(e) BY <1>1, BecomesLeaves
      <3> QED BY <3>1 DEF Live
    <2>2. CASE f \in frames /\ Extent(f) \cap e.wrote = {}
      <3>1. f \in FrameSpace /\ ~Odd(f.at) /\ HeldIn(f, b.mem) BY <2>2 DEF IInv, Ready
      <3>2. \A a \in Extent(f) : a \in DOMAIN e.mem /\ e.mem[a] = b.mem[a]
        BY <1>1, <2>1, <2>2, <3>1 DEF Undisturbed, HeldIn
      <3> QED BY <3>1, <3>2 DEF HeldIn, Extent
    <2> QED BY <1>2, <2>1, <2>2
  <1> DEFINE kept == UNION {Extent(f) : f \in frames'}
  <1>4. cpu'.mem = [a \in kept |-> e.mem[a]] BY <1>1, BecomesLeaves
  <1>5. \A f \in frames' : HeldIn(f, cpu'.mem)
    <2> SUFFICES ASSUME NEW f \in frames' PROVE HeldIn(f, cpu'.mem)
      OBVIOUS
    <2>1. Extent(f) \subseteq kept OBVIOUS
    <2> HIDE DEF kept
    <2>2. DOMAIN cpu'.mem = kept BY <1>4
    <2>3. \A a \in Extent(f) : cpu'.mem[a] = e.mem[a] BY <1>4, <2>1
    <2>4. HeldIn(f, e.mem) BY <1>3
    <2> QED BY <2>1, <2>2, <2>3, <2>4 DEF HeldIn, Extent
  <1>6. \A a \in DOMAIN cpu'.mem : cpu'.mem[a] \in Contents
    <2> SUFFICES ASSUME NEW a \in kept PROVE e.mem[a] \in Contents
      BY <1>4
    <2>1. PICK f \in frames' : a \in Extent(f) OBVIOUS
    <2>2. a \in DOMAIN e.mem BY <1>3, <2>1 DEF HeldIn
    <2> QED BY <1>1, <2>2 DEF Sound
  <1> HIDE DEF kept
  <1>7. Sound(cpu')
    <2>1. /\ cpu' = [f \in Fields |-> cpu'[f]]
          /\ cpu'.sr = e.sr /\ cpu'.a7 = e.a7 /\ cpu'.otherSp = e.otherSp /\ cpu'.pc = e.pc
          /\ cpu'.ipl = e.ipl /\ cpu'.instructionPc = 0 /\ cpu'.inAddressError = e.inAddressError
      BY <1>1, BecomesLeaves
    <2>2. 0 \in Addresses BY CpuAssumption DEF Addresses
    <2> QED BY <1>1, <1>6, <2>1, <2>2 DEF Sound
  <1>8. cpu'.fault = None /\ cpu'.wrote = {} /\ cpu'.frame = None BY <1>1, BecomesLeaves
  <1> QED BY <1>3, <1>5, <1>7, <1>8 DEF IInv

LEMMA InitIInv == Init => IInv
  <1> SUFFICES ASSUME Init PROVE IInv
    OBVIOUS
  <1>1. PICK sp \in Pointers \cap SystemStack, start \in Targets :
          cpu = [sr |-> [s |-> TRUE, t |-> FALSE, mask |-> 7], a7 |-> sp, otherSp |-> 0,
                 pc |-> start, instructionPc |-> 0, ipl |-> 0, nmiPending |-> FALSE,
                 stopped |-> FALSE, halted |-> "no", inAddressError |-> FALSE, mem |-> [a \in {} |-> Unknown],
                 fault |-> None, wrote |-> {}, frame |-> None]
    BY DEF Init
  <1>2. 0 \in Addresses /\ sp \in Addresses /\ start \in Addresses /\ 0 \in Levels /\ 7 \in Levels
    BY CpuAssumption DEF Addresses
  <1>3. cpu = [f \in Fields |-> cpu[f]] BY <1>1 DEF Fields
  <1>4. /\ cpu.sr = [s |-> TRUE, t |-> FALSE, mask |-> 7] /\ cpu.a7 = sp /\ cpu.otherSp = 0 /\ cpu.pc = start
        /\ cpu.instructionPc = 0 /\ cpu.ipl = 0 /\ cpu.mem = [a \in {} |-> Unknown]
        /\ cpu.fault = None /\ cpu.wrote = {} /\ cpu.frame = None /\ cpu.inAddressError = FALSE
    BY <1>1
  <1>5. cpu.sr \in SrValues BY <1>2, <1>4 DEF SrValues
  <1>6. \A a \in DOMAIN cpu.mem : cpu.mem[a] \in Contents BY <1>4
  <1>7. Sound(cpu) BY <1>2, <1>3, <1>4, <1>5, <1>6 DEF Sound
  <1> QED BY <1>4, <1>7 DEF IInv, Init

LEMMA FetchedReady ==
  ASSUME IInv
  PROVE  /\ Fetched.stopped = cpu.stopped
         /\ ~Thrown(Fetched) => Ready(Fetched)
  <1> DEFINE m == [cpu EXCEPT !.instructionPc = cpu.pc]
  <1>1. /\ Sound(m) /\ m.sr = cpu.sr /\ m.a7 = cpu.a7 /\ m.otherSp = cpu.otherSp /\ m.halted = cpu.halted
        /\ m.mem = cpu.mem /\ m.wrote = cpu.wrote /\ m.frame = cpu.frame /\ m.stopped = cpu.stopped
        /\ m.inAddressError = cpu.inAddressError
    BY DEF IInv, Sound, Fields
  <1> HIDE DEF m
  <1>2. LET d == FetchWords(m, 1)
        IN Keeps(m, d) /\ d.a7 = m.a7 /\ d.mem = m.mem /\ d.wrote = m.wrote
    BY <1>1, FetchKeeps
  <1> QED BY <1>1, <1>2 DEF Ready, Fetched, m, Keeps

\* What a step of an instruction, or of an interrupt, may do.
Does(b, c, e) ==
  /\ Runs(b, c) /\ Ends(b, e) /\ Becomes(e)
  /\ \/ Entered(b, e)
     \/ Stops(b, c, e)
     \/ e = c /\ ~Thrown(c) /\ (Keeps(b, c) \/ Supervises(b, c))

LEMMA SettleDoes ==
  ASSUME NEW b, Sound(b), ~Thrown(b), NEW outcomes, Settle(outcomes), \A c \in outcomes : Runs(b, c)
  PROVE  \E c \in outcomes : \E e : Does(b, c, e)
  <1>1. PICK c \in outcomes : \E e \in Caught(c) : Becomes(e) BY DEF Settle
  <1>2. PICK e \in Caught(c) : Becomes(e) BY <1>1
  <1>3. Runs(b, c) OBVIOUS
  <1>4. /\ Ends(b, e)
        /\ \/ Entered(b, e)
           \/ Stops(b, c, e)
           \/ e = c /\ ~Thrown(c) /\ (Keeps(b, c) \/ Supervises(b, c))
    BY <1>3, RunsEnd
  <1> QED BY <1>2, <1>3, <1>4 DEF Does

\* Every instruction runs, and straight but for LINK, UNLK and MOVE USP.
LEMMA InstructionDoes ==
  ASSUME IInv,
         Compute \/ Movems \/ PushAddress \/ Unlink \/ Branch \/ Trap \/ ReturnFromException \/ System
  PROVE  /\ ~Halted(cpu) /\ Ready(Fetched) /\ Fetched.stopped = cpu.stopped
         /\ \E c, e : /\ Does(Fetched, c, e)
                      /\ \/ Straight(Fetched, c)
                         \/ PushAddress /\ Links(Fetched, c) /\ Keeps(Fetched, c)
                         \/ Unlink /\ (Thrown(c) \/ (Keeps(Fetched, c) /\ ~Odd(c.a7)))
                         \/ System /\ Copies(Fetched, c)
  <1> DEFINE b == Fetched
             Odds(c) == \/ PushAddress /\ Links(b, c) /\ Keeps(b, c)
                        \/ Unlink /\ (Thrown(c) \/ (Keeps(b, c) /\ ~Odd(c.a7)))
                        \/ System /\ Copies(b, c)
  <1>0. ~Thrown(b) /\ ~Halted(cpu)
    BY DEF Compute, Movems, PushAddress, Unlink, Branch, Trap, ReturnFromException, System, Execute, Executing
  <1>1. Sound(b) /\ ~Thrown(b) /\ Ready(b) /\ b.stopped = cpu.stopped BY <1>0, FetchedReady DEF Ready
  <1> SUFFICES \E c, e : Does(b, c, e) /\ (Straight(b, c) \/ Odds(c))
    BY <1>0, <1>1
  <1>2. ASSUME NEW outcomes, Execute(outcomes),
               \A c \in outcomes : Runs(b, c) /\ (Straight(b, c) \/ Odds(c))
        PROVE  \E c, e : Does(b, c, e) /\ (Straight(b, c) \/ Odds(c))
    <2>1. Settle(outcomes) BY <1>2 DEF Execute
    <2> HIDE DEF b, Odds
    <2>2. \E c \in outcomes : \E e : Does(b, c, e) BY <1>1, <1>2, <2>1, SettleDoes
    <2> QED BY <1>2, <2>1, <2>2
  <1> HIDE DEF b
  <1>3. CASE Compute
    <2> DEFINE outcomes == UNION {Operate(b, f) : f \in DataInstructions}
    <2>1. Execute(outcomes) BY <1>3 DEF Compute, b
    <2>2. \A c \in outcomes : Runs(b, c) /\ Straight(b, c) BY <1>1, ComputeRuns
    <2> HIDE DEF outcomes, Odds
    <2>3. \E c, e : Does(b, c, e) /\ (Straight(b, c) \/ Odds(c)) BY <2>1, <2>2, <1>2
    <2> QED BY <2>3
  <1>4. CASE Movems
    <2>1. Execute(op_movem(b)) BY <1>4 DEF Movems, b
    <2>2. \A c \in op_movem(b) : Runs(b, c) /\ Straight(b, c) BY <1>1, MovemRuns
    <2> HIDE DEF Odds
    <2>3. \E c, e : Does(b, c, e) /\ (Straight(b, c) \/ Odds(c)) BY <2>1, <2>2, <1>2
    <2> QED BY <2>3
  <1>5. CASE PushAddress
    <2> DEFINE outcomes == op_pea(b) \cup op_link(b)
    <2>1. Execute(outcomes) BY <1>5 DEF PushAddress, b
    <2>2. \A c \in outcomes : Keeps(b, c) /\ (Level(b, c) \/ Links(b, c)) BY <1>1, PushAddressRuns
    <2>3. \A c \in outcomes : Runs(b, c) /\ (Straight(b, c) \/ Odds(c)) BY <1>5, <2>2, KeepsStraight DEF Runs
    <2> HIDE DEF outcomes, Odds
    <2>4. \E c, e : Does(b, c, e) /\ (Straight(b, c) \/ Odds(c)) BY <2>1, <2>3, <1>2
    <2> QED BY <2>4
  <1>6. CASE Unlink
    <2>1. Execute(op_unlk(b)) BY <1>6 DEF Unlink, b
    <2>2. \A c \in op_unlk(b) : Runs(b, c) /\ (~Thrown(c) => Straight(b, c) \/ (Keeps(b, c) /\ ~Odd(c.a7)))
      BY <1>1, UnlinkRuns
    <2>3. \A c \in op_unlk(b) : Runs(b, c) /\ (Straight(b, c) \/ Odds(c)) BY <1>6, <2>2
    <2> HIDE DEF Odds
    <2>4. \E c, e : Does(b, c, e) /\ (Straight(b, c) \/ Odds(c)) BY <2>1, <2>3, <1>2
    <2> QED BY <2>4
  <1>7. CASE Branch
    <2> DEFINE outcomes == op_bcc(b) \cup op_dbcc(b) \cup op_jmp(b) \cup op_jsr(b) \cup op_rts(b) \cup op_rtr(b)
    <2>1. Execute(outcomes) BY <1>7 DEF Branch, b
    <2>2. \A c \in outcomes : Keeps(b, c) /\ Level(b, c) BY <1>1, BranchRuns
    <2>3. \A c \in outcomes : Runs(b, c) /\ Straight(b, c) BY <2>2, KeepsStraight
    <2> HIDE DEF outcomes, Odds
    <2>4. \E c, e : Does(b, c, e) /\ (Straight(b, c) \/ Odds(c)) BY <2>1, <2>3, <1>2
    <2> QED BY <2>4
  <1>8. CASE Trap
    <2> DEFINE outcomes == op_trap(b) \cup op_trapv(b) \cup op_illegal(b) \cup op_chk(b) \cup op_div(b)
    <2>1. Execute(outcomes) BY <1>8 DEF Trap, b
    <2>2. \A c \in outcomes : Runs(b, c) /\ Straight(b, c) BY <1>1, TrapRuns
    <2> HIDE DEF outcomes, Odds
    <2>3. \E c, e : Does(b, c, e) /\ (Straight(b, c) \/ Odds(c)) BY <2>1, <2>2, <1>2
    <2> QED BY <2>3
  <1>9. CASE ReturnFromException
    <2>1. Execute(op_rte(b)) BY <1>9 DEF ReturnFromException, b
    <2>2. \A c \in op_rte(b) : Runs(b, c) /\ Straight(b, c) BY <1>1, RteRuns
    <2> HIDE DEF Odds
    <2>3. \E c, e : Does(b, c, e) /\ (Straight(b, c) \/ Odds(c)) BY <2>1, <2>2, <1>2
    <2> QED BY <2>3
  <1>10. CASE System
    <2> DEFINE outcomes == op_move_to_sr(b) \cup op_move_usp(b) \cup op_logic_to_sr(b) \cup op_stop(b)
                           \cup op_reset(b)
    <2>1. Execute(outcomes) BY <1>10 DEF System, b
    <2>2. \A c \in outcomes : Runs(b, c) /\ (Straight(b, c) \/ Copies(b, c)) BY <1>1, SystemRuns
    <2>3. \A c \in outcomes : Runs(b, c) /\ (Straight(b, c) \/ Odds(c)) BY <1>10, <2>2
    <2> HIDE DEF outcomes, Odds
    <2>4. \E c, e : Does(b, c, e) /\ (Straight(b, c) \/ Odds(c)) BY <2>1, <2>3, <1>2
    <2> QED BY <2>4
  <1> QED BY <1>3, <1>4, <1>5, <1>6, <1>7, <1>8, <1>9, <1>10

\* An interrupt, or an instruction that cannot be fetched, stacks an exception
\* or halts the CPU, and stacks it where the stack is even and answered.
LEMMA ExceptionalDoes ==
  ASSUME IInv, TakeInterrupt \/ FetchThrows
  PROVE  /\ ~Halted(cpu)
         /\ \E b, e :
              /\ Ready(b) /\ Becomes(e)
              /\ \/ Entered(b, e)
                 \/ Halts(e) /\ (e.halted = "DoubleBusFault" => Odd(Ssp(b)) \/ cpu.inAddressError)
              /\ TakeInterrupt /\ ~Odd(Ssp(b)) /\ RoomBelow(Ssp(b), 6) => Entered(b, e)
              /\ FetchThrows /\ Odd(cpu.pc) /\ ~Odd(Ssp(b)) /\ RoomBelow(Ssp(b), 14) /\ ~cpu.inAddressError =>
                   Entered(b, e)
  <1>1. CASE TakeInterrupt
    <2> DEFINE b == [cpu EXCEPT !.nmiPending = FALSE, !.stopped = FALSE]
               level == IF cpu.nmiPending THEN 7 ELSE cpu.ipl
    <2>1. /\ Sound(b) /\ b.sr = cpu.sr /\ b.a7 = cpu.a7 /\ b.otherSp = cpu.otherSp /\ b.halted = cpu.halted
          /\ b.mem = cpu.mem /\ b.wrote = cpu.wrote /\ b.frame = cpu.frame /\ b.fault = cpu.fault
          /\ b.inAddressError = cpu.inAddressError
      BY DEF IInv, Sound, Fields
    <2>2. level \in Levels BY CpuAssumption DEF IInv, Sound
    <2>3. Settle(take_interrupt(b, level)) /\ ~Halted(cpu) /\ ~FetchThrows
      BY <1>1 DEF TakeInterrupt, FetchThrows, Executing
    <2> HIDE DEF b, level
    <2>4. Ready(b) BY <2>1 DEF Ready, IInv, Thrown
    <2>5. PICK c \in take_interrupt(b, level) : \E e \in Caught(c) : Becomes(e) BY <2>3 DEF Settle
    <2>6. PICK e \in Caught(c) : Becomes(e) BY <2>5
    <2>7. Excepts(b, c) BY <2>2, <2>4, InterruptExcepts DEF Ready
    <2>8. Keeps(b, b) /\ Level(b, b) /\ ~Thrown(b) BY <2>4, KeepsSelf DEF Ready
    <2>9. /\ Entered(b, e) \/ (Halts(e) /\ (e.halted = "DoubleBusFault" => Odd(Ssp(b))))
          /\ ~Odd(Ssp(b)) /\ RoomBelow(Ssp(b), 6) => Entered(b, e)
      BY <2>7, <2>8, ExceptedEnds
    <2> QED BY <2>3, <2>4, <2>6, <2>9
  <1>2. CASE FetchThrows
    <2> DEFINE b == [cpu EXCEPT !.instructionPc = cpu.pc]
               c == FetchWords(b, 1)
    <2>1. /\ Sound(b) /\ b.sr = cpu.sr /\ b.a7 = cpu.a7 /\ b.otherSp = cpu.otherSp /\ b.halted = cpu.halted
          /\ b.mem = cpu.mem /\ b.wrote = cpu.wrote /\ b.frame = cpu.frame /\ b.fault = cpu.fault
          /\ b.inAddressError = cpu.inAddressError /\ b.pc = cpu.pc
      BY DEF IInv, Sound, Fields
    <2>2. Thrown(c) /\ Settle({c}) /\ ~Halted(cpu) /\ ~TakeInterrupt
      BY <1>2 DEF FetchThrows, Fetched, Executing, TakeInterrupt
    <2> HIDE DEF b
    <2>3. Ready(b) BY <2>1 DEF Ready, IInv, Thrown
    <2>4. Keeps(b, c) BY <2>1, FetchKeeps
    <2>5. Odd(cpu.pc) => ~Panicked(c)
      <3> SUFFICES ASSUME Odd(cpu.pc) PROVE ~Panicked(c)
        OBVIOUS
      <3>1. c = FetchFault(b) BY <2>1, <2>3 DEF FetchWords, fetch16, Ready
      <3>2. FetchFault(b).fault = [fetch |-> TRUE] BY <2>1 DEF FetchFault, Sound, Fields
      <3> QED BY <3>1, <3>2 DEF Panicked, BusError
    <2> HIDE DEF c
    <2>6. PICK e \in Caught(c) : Becomes(e) BY <2>2 DEF Settle
    <2>7. /\ \/ Entered(b, e)
             \/ Halts(e) /\ (e.halted = "DoubleBusFault" => Odd(Ssp(c)) \/ b.inAddressError)
          /\ ~Panicked(c) /\ ~Odd(Ssp(c)) /\ ~b.inAddressError /\ RoomBelow(Ssp(c), 14) => Entered(b, e)
      BY <2>2, <2>4, FaultEnds
    <2>8. Ssp(c) = Ssp(b)
      <3>1. c.a7 = b.a7 BY <2>1, FetchKeeps DEF c
      <3> QED BY <3>1, <2>4 DEF Keeps, Ssp
    <2> QED BY <2>1, <2>2, <2>3, <2>5, <2>6, <2>7, <2>8
  <1> QED BY <1>1, <1>2

LEMMA ResetLeaves ==
  ASSUME IInv, Reset
  PROVE  /\ IInv' /\ cpu'.sr.s /\ cpu'.a7 \in Pointers /\ cpu'.halted = "no"
  <1>1. PICK sp \in Pointers, pc \in Targets :
          /\ cpu' = [cpu EXCEPT !.sr = [s |-> TRUE, t |-> FALSE, mask |-> 7], !.stopped = FALSE,
                                !.halted = "no", !.a7 = sp, !.pc = pc,
                                !.mem = [a \in {} |-> Unknown]]
          /\ frames' = {}
    BY DEF Reset
  <1>2. /\ cpu' = [f \in Fields |-> cpu'[f]]
        /\ cpu'.sr = [s |-> TRUE, t |-> FALSE, mask |-> 7] /\ cpu'.a7 = sp /\ cpu'.pc = pc
        /\ cpu'.mem = [a \in {} |-> Unknown] /\ cpu'.halted = "no"
        /\ cpu'.inAddressError = cpu.inAddressError
        /\ cpu'.otherSp = cpu.otherSp /\ cpu'.instructionPc = cpu.instructionPc /\ cpu'.ipl = cpu.ipl
        /\ cpu'.fault = cpu.fault /\ cpu'.wrote = cpu.wrote /\ cpu'.frame = cpu.frame
    BY <1>1 DEF IInv, Sound, Fields
  <1>3. sp \in Addresses /\ pc \in Addresses /\ 7 \in Levels BY CpuAssumption
  <1>4. cpu'.sr \in SrValues BY <1>2, <1>3 DEF SrValues
  <1>5. \A a \in DOMAIN cpu'.mem : cpu'.mem[a] \in Contents BY <1>2
  <1>6. Sound(cpu') BY <1>2, <1>3, <1>4, <1>5 DEF IInv, Sound
  <1>7. IInv' BY <1>1, <1>2, <1>6 DEF IInv
  <1> QED BY <1>2, <1>7

LEMMA LevelLeaves ==
  ASSUME IInv, NEW level \in Levels, set_interrupt_level(level)
  PROVE  /\ IInv' /\ cpu'.sr = cpu.sr /\ cpu'.a7 = cpu.a7 /\ cpu'.otherSp = cpu.otherSp
         /\ cpu'.stopped = cpu.stopped /\ cpu'.halted = cpu.halted
  <1>1. /\ cpu' = [f \in Fields |-> cpu'[f]]
        /\ cpu'.sr = cpu.sr /\ cpu'.a7 = cpu.a7 /\ cpu'.pc = cpu.pc /\ cpu'.ipl = level
        /\ cpu'.mem = cpu.mem /\ cpu'.halted = cpu.halted /\ cpu'.stopped = cpu.stopped
        /\ cpu'.inAddressError = cpu.inAddressError
        /\ cpu'.otherSp = cpu.otherSp /\ cpu'.instructionPc = cpu.instructionPc
        /\ cpu'.fault = cpu.fault /\ cpu'.wrote = cpu.wrote /\ cpu'.frame = cpu.frame
    BY DEF IInv, Sound, Fields, set_interrupt_level
  <1>2. frames' = frames BY DEF set_interrupt_level
  <1>3. Sound(cpu') BY <1>1 DEF IInv, Sound
  <1>4. \A f \in frames' : f \in FrameSpace /\ ~Odd(f.at) /\ HeldIn(f, cpu'.mem)
    BY <1>1, <1>2 DEF IInv
  <1> QED BY <1>1, <1>3, <1>4 DEF IInv

LEMMA StepKeepsIInv == IInv /\ [Next]_vars => IInv'
  <1> SUFFICES ASSUME IInv, [Next]_vars PROVE IInv'
    OBVIOUS
  <1>1. CASE Compute \/ Movems \/ PushAddress \/ Unlink \/ Branch \/ Trap \/ ReturnFromException \/ System
    <2>1. PICK c, e : Does(Fetched, c, e) BY <1>1, InstructionDoes
    <2>2. Ready(Fetched) BY <1>1, InstructionDoes
    <2> QED BY <2>1, <2>2, BecomesIInv DEF Does
  <1>2. CASE TakeInterrupt \/ FetchThrows
    <2>1. PICK b, e : Ready(b) /\ Becomes(e) /\ (Entered(b, e) \/ Halts(e))
      BY <1>2, ExceptionalDoes
    <2>2. Ends(b, e) BY <2>1 DEF Ends
    <2> QED BY <2>1, <2>2, BecomesIInv
  <1>3. CASE Reset BY <1>3, ResetLeaves
  <1>4. CASE \E level \in Levels : set_interrupt_level(level) BY <1>4, LevelLeaves
  <1>5. CASE Idle \/ UNCHANGED vars
    <2>1. cpu' = cpu /\ frames' = frames BY <1>5 DEF Idle, vars
    <2> QED BY <2>1 DEF IInv
  <1> QED BY <1>1, <1>2, <1>3, <1>4, <1>5 DEF Next, Steps

\* The invariant the theorems rest on.
LEMMA IInvAlways == Spec => []IInv
  BY InitIInv, StepKeepsIInv, PTL DEF Spec

-----------------------------------------------------------------------------
(* The theorems.                                                           *)

\* No step of a CPU in user mode changes the system byte of SR or stops the
\* CPU, but a reset, a halt, or one that stacks the old SR just below SSP and
\* enters supervisor mode: Privileged
\* guards RTE, STOP and the writes of SR (cpu68000.cpp op_rte, op_stop,
\* op_move_to_sr, op_logic_to_sr), and exception, take_interrupt and
\* address_error take the copy of SR before they change it.
THEOREM UserContainedAlways == Spec => UserContained
  <1> DEFINE Contained ==
        ~cpu.sr.s =>
          \/ cpu'.sr = cpu.sr /\ cpu'.stopped = cpu.stopped
          \/ Halted(cpu')
          \/ cpu'.sr.s /\ ~cpu'.sr.t /\ \E f \in frames' : f.sr = cpu.sr /\ f.at = Plus(Ssp(cpu), -6)
          \/ Reset
  <1>1. ASSUME IInv, NEW b, Ready(b), NEW e, Becomes(e), Entered(b, e) \/ Halts(e), ~cpu.sr.s
        PROVE  Contained
    <2>1. Sound(e) /\ ~Thrown(e) BY <1>1 DEF Entered, Halts
    <2>2. CASE Halted(e)
      <3>1. Halted(cpu') BY <2>1, <2>2, <1>1, BecomesLeaves DEF Halted
      <3> QED BY <3>1
    <2>3. CASE Entered(b, e) /\ ~Halted(e)
      <3>1. ~b.sr.s /\ b.sr = cpu.sr /\ Ssp(b) = Ssp(cpu) BY <1>1 DEF Ready, Ssp
      <3>2. e.frame.at = Plus(Ssp(cpu), -6) /\ e.frame.sr = cpu.sr /\ e.frame # None
        BY <2>3, <3>1 DEF Entered, None
      <3>3. e.frame \in frames'
        <4>1. frames' = Live(e) BY <2>1, <1>1, BecomesLeaves
        <4> QED BY <4>1, <3>2, <2>3 DEF Live
      <3>4. cpu'.sr = e.sr BY <2>1, <1>1, BecomesLeaves
      <3> QED BY <3>2, <3>3, <3>4, <2>3 DEF Entered
    <2> QED BY <1>1, <2>2, <2>3 DEF Halts
  <1>2. ASSUME IInv, [Next]_vars PROVE [Contained]_vars
    <2>1. CASE Compute \/ Movems \/ PushAddress \/ Unlink \/ Branch \/ Trap \/ ReturnFromException \/ System
      <3>1. PICK c, e : Does(Fetched, c, e) BY <1>2, <2>1, InstructionDoes
      <3>2. Ready(Fetched) /\ Fetched.stopped = cpu.stopped BY <1>2, <2>1, InstructionDoes
      <3>3. CASE Keeps(Fetched, c) /\ ~Thrown(c) /\ e = c
        <4>1. Sound(c) /\ c.sr = cpu.sr /\ c.stopped = cpu.stopped BY <3>2, <3>3 DEF Keeps, Ready
        <4>2. cpu'.sr = c.sr /\ cpu'.stopped = c.stopped BY <3>1, <3>3, <4>1, BecomesLeaves DEF Does
        <4> QED BY <4>1, <4>2
      <3>4. CASE Supervises(Fetched, c) BY <3>2, <3>4 DEF Supervises, Ready
      <3>5. CASE Entered(Fetched, e) \/ Halts(e) BY <1>1, <1>2, <3>1, <3>2, <3>5 DEF Does, Stops
      <3> QED BY <3>1, <3>3, <3>4, <3>5 DEF Does, Stops
    <2>2. CASE TakeInterrupt \/ FetchThrows
      <3>1. PICK b, e : Ready(b) /\ Becomes(e) /\ (Entered(b, e) \/ Halts(e))
        BY <1>2, <2>2, ExceptionalDoes
      <3> QED BY <1>1, <1>2, <3>1
    <2>3. CASE Reset BY <2>3
    <2>4. CASE \E level \in Levels : set_interrupt_level(level) BY <1>2, <2>4, LevelLeaves
    <2>5. CASE Idle \/ UNCHANGED vars BY <2>5 DEF Idle
    <2> QED BY <1>2, <2>1, <2>2, <2>3, <2>4, <2>5 DEF Next, Steps
  <1>3. Spec => [][Contained]_vars BY <1>2, IInvAlways, PTL DEF Spec
  <1> QED BY <1>3 DEF UserContained

\* The A7 that set_sr exchanges with its shadow implements two stack pointers
\* (TwoStacks): a user step moves USP only, a supervisor step leaves USP to
\* MOVE USP and to changes of mode, and entering from user mode moves SSP by
\* the size of a frame, 6 bytes or 14 (exception, take_interrupt,
\* address_error).  A reset writes A7 without the exchange, and is apart.
THEOREM TwoStacksImplemented == Spec => ImplementsTwoStacks
  <1> DEFINE Mapped == Stacks2!Next \/ Halted(cpu') \/ Reset
  <1>0. ASSUME Usp(cpu)' = Usp(cpu), Ssp(cpu)' = Ssp(cpu), cpu'.sr.s = cpu.sr.s, cpu.sr.s \in BOOLEAN
        PROVE  Stacks2!Next
    BY <1>0 DEF Stacks2!Next, Stacks2!UserStep, Stacks2!SystemStep
  <1>1. ASSUME IInv, NEW b, Ready(b), NEW e, Becomes(e), Entered(b, e) \/ Halts(e)
        PROVE  Mapped
    <2>1. Sound(e) /\ ~Thrown(e) BY <1>1 DEF Entered, Halts
    <2>2. CASE Halts(e)
      <3>1. Halted(cpu') BY <2>1, <2>2, <1>1, BecomesLeaves DEF Halts, Halted
      <3> QED BY <3>1
    <2>3. CASE Entered(b, e)
      <3>1. cpu'.sr = e.sr /\ Usp(cpu)' = Usp(e) /\ Ssp(cpu)' = Ssp(e) BY <2>1, <1>1, BecomesLeaves
      <3>2. e.sr.s /\ Usp(e) = e.otherSp /\ Ssp(e) = e.a7 BY <2>3 DEF Entered, Usp, Ssp
      <3>3. b.sr = cpu.sr /\ Ssp(b) = Ssp(cpu) /\ Usp(b) = Usp(cpu) BY <1>1 DEF Ready, Ssp, Usp
      <3>4. CASE cpu.sr.s
        <4>1. Usp(cpu)' = Usp(cpu) BY <2>3, <3>1, <3>2, <3>3, <3>4 DEF Entered
        <4>2. Stacks2!SystemStep BY <3>1, <3>2, <3>4, <4>1 DEF Stacks2!SystemStep
        <4> QED BY <4>2 DEF Stacks2!Next
      <3>5. CASE ~cpu.sr.s
        <4>1. PICK n \in {6, 14} : e.a7 = Plus(Ssp(cpu), -n) BY <2>3, <3>3, <3>5 DEF Entered
        <4>2. Ssp(cpu) \in Int BY <1>1, CpuAssumption DEF IInv, Sound, Ssp, Addresses
        <4>3. Ssp(cpu) + (-n) = Ssp(cpu) - n BY <4>2
        <4>4. Ssp(cpu)' = (Ssp(cpu) - n) % AddressSpace BY <3>1, <3>2, <4>1, <4>3 DEF Plus
        <4>5. Stacks2!Enter BY <3>1, <3>2, <3>5, <4>4 DEF Stacks2!Enter
        <4> QED BY <4>5 DEF Stacks2!Next
      <3> QED BY <3>4, <3>5
    <2> QED BY <1>1, <2>2, <2>3
  <1>2. ASSUME IInv, [Next]_vars PROVE [Mapped]_vars
    <2>0. cpu.sr.s \in BOOLEAN BY <1>2 DEF IInv, Sound, SrValues
    <2>1. CASE Compute \/ Movems \/ PushAddress \/ Unlink \/ Branch \/ Trap \/ ReturnFromException \/ System
      <3>1. PICK c, e : Does(Fetched, c, e) BY <1>2, <2>1, InstructionDoes
      <3>2. Ready(Fetched) BY <1>2, <2>1, InstructionDoes
      <3>3. /\ Fetched.sr = cpu.sr /\ Ssp(Fetched) = Ssp(cpu) /\ Usp(Fetched) = Usp(cpu)
            /\ Fetched.otherSp = cpu.otherSp
        BY <3>2 DEF Ready, Ssp, Usp
      <3>4. CASE Keeps(Fetched, c) /\ ~Thrown(c) /\ e = c
        <4>1. Sound(c) /\ c.sr = cpu.sr /\ c.otherSp = cpu.otherSp BY <3>3, <3>4 DEF Keeps
        <4>2. cpu'.sr = c.sr /\ Usp(cpu)' = Usp(c) /\ Ssp(cpu)' = Ssp(c)
          BY <3>1, <3>4, <4>1, BecomesLeaves DEF Does
        <4>3. CASE cpu.sr.s
          <5>1. Usp(cpu)' = Usp(cpu) BY <4>1, <4>2, <4>3 DEF Usp
          <5>2. Stacks2!SystemStep BY <4>1, <4>2, <4>3, <5>1 DEF Stacks2!SystemStep
          <5> QED BY <5>2 DEF Stacks2!Next
        <4>4. CASE ~cpu.sr.s
          <5>1. Ssp(cpu)' = Ssp(cpu) BY <4>1, <4>2, <4>4 DEF Ssp
          <5>2. Stacks2!UserStep BY <4>1, <4>2, <4>4, <5>1 DEF Stacks2!UserStep
          <5> QED BY <5>2 DEF Stacks2!Next
        <4> QED BY <4>3, <4>4
      <3>5. CASE Supervises(Fetched, c) /\ e = c
        <4>1. Sound(c) /\ ~Thrown(c) BY <3>5 DEF Supervises
        <4>2. cpu'.sr = c.sr /\ Usp(cpu)' = Usp(c) /\ Ssp(cpu)' = Ssp(c)
          BY <3>1, <3>5, <4>1, BecomesLeaves DEF Does
        <4>3. CASE c.sr.s
          <5>1. Usp(cpu)' = Usp(cpu) \/ Ssp(cpu)' = Ssp(cpu) BY <3>3, <3>5, <4>2 DEF Supervises
          <5>2. Stacks2!SystemStep BY <3>3, <3>5, <4>2, <4>3, <5>1 DEF Stacks2!SystemStep, Supervises
          <5> QED BY <5>2 DEF Stacks2!Next
        <4>4. CASE ~c.sr.s
          <5>1. Usp(cpu)' = Usp(cpu) BY <3>3, <3>5, <4>2, <4>4 DEF Supervises
          <5>2. Stacks2!Leave BY <3>3, <3>5, <4>2, <4>4, <5>1 DEF Stacks2!Leave, Supervises
          <5> QED BY <5>2 DEF Stacks2!Next
        <4> QED BY <4>3, <4>4
      <3>6. CASE Entered(Fetched, e) \/ Halts(e) BY <1>1, <1>2, <3>1, <3>2, <3>6 DEF Does, Stops
      <3> QED BY <3>1, <3>4, <3>5, <3>6 DEF Does, Stops
    <2>2. CASE TakeInterrupt \/ FetchThrows
      <3>1. PICK b, e : Ready(b) /\ Becomes(e) /\ (Entered(b, e) \/ Halts(e))
        BY <1>2, <2>2, ExceptionalDoes
      <3> QED BY <1>1, <1>2, <3>1
    <2>3. CASE Reset BY <2>3
    <2>4. CASE \E level \in Levels : set_interrupt_level(level)
      <3>1. cpu'.sr = cpu.sr /\ cpu'.a7 = cpu.a7 /\ cpu'.otherSp = cpu.otherSp BY <1>2, <2>4, LevelLeaves
      <3>2. Usp(cpu)' = Usp(cpu) /\ Ssp(cpu)' = Ssp(cpu) BY <3>1 DEF Usp, Ssp
      <3> QED BY <1>0, <2>0, <3>1, <3>2
    <2>5. CASE Idle \/ UNCHANGED vars BY <2>5 DEF Idle
    <2> QED BY <1>2, <2>1, <2>2, <2>3, <2>4, <2>5 DEF Next, Steps
  <1>3. Spec => [][Mapped]_vars BY <1>2, IInvAlways, PTL DEF Spec
  <1> QED BY <1>3 DEF ImplementsTwoStacks

\* From an even SSP an instruction has no double bus fault, but UNLK or with
\* inAddressError left set; an interrupt and a jump to an odd address halt the
\* CPU only where nothing answers below SSP (take_interrupt, address_error);
\* and no step makes SSP odd but one that loads it: decode_ea steps A7 by
\* words for bytes too, and every push and pop is of words.
THEOREM StackStaysAlignedAlways == Spec => StackStaysAligned
  <1> DEFINE Even == Odd(Ssp(cpu')) =>
                       \/ Halted(cpu')
                       \/ Ssp(cpu') \in Pointers
                       \/ System /\ Ssp(cpu') = Usp(cpu)
                       \/ PushAddress /\ \E n \in Displacements : Ssp(cpu') = Plus(cpu.a7, n - 4)
             Single == cpu'.halted = "DoubleBusFault" => Halted(cpu) \/ Unlink \/ cpu.inAddressError
             Enough == /\ TakeInterrupt /\ Room(6) => ~Halted(cpu')
                       /\ FetchThrows /\ Odd(cpu.pc) /\ Room(14) /\ ~cpu.inAddressError => ~Halted(cpu')
             Aligned == ~Odd(Ssp(cpu)) =>
               /\ Single
               /\ TakeInterrupt /\ Room(6) => ~Halted(cpu')
               /\ FetchThrows /\ Odd(cpu.pc) /\ Room(14) /\ ~cpu.inAddressError => ~Halted(cpu')
               /\ Even
  <1>1. ASSUME IInv, NEW b, Ready(b), NEW e, Becomes(e), Entered(b, e), ~Halted(cpu)
        PROVE  ~Halted(cpu') /\ ~Odd(Ssp(cpu'))
    <2>1. Sound(e) /\ ~Thrown(e) /\ e.sr.s /\ ~Odd(e.a7) /\ e.halted = b.halted BY <1>1 DEF Entered
    <2>2. Ssp(cpu)' = Ssp(e) /\ cpu'.halted = e.halted BY <2>1, <1>1, BecomesLeaves
    <2>3. ~Odd(Ssp(cpu')) BY <2>1, <2>2 DEF Ssp
    <2>4. e.halted = cpu.halted BY <1>1, <2>1 DEF Ready
    <2> QED BY <1>1, <2>2, <2>3, <2>4 DEF Halted
  <1>2. ASSUME IInv, ~Odd(Ssp(cpu)), TakeInterrupt \/ FetchThrows PROVE Single /\ Enough /\ Even
    <2>1. ~Halted(cpu) BY <1>2, ExceptionalDoes
    <2>2. PICK b, e :
            /\ Ready(b) /\ Becomes(e)
            /\ \/ Entered(b, e)
               \/ Halts(e) /\ (e.halted = "DoubleBusFault" => Odd(Ssp(b)) \/ cpu.inAddressError)
            /\ TakeInterrupt /\ ~Odd(Ssp(b)) /\ RoomBelow(Ssp(b), 6) => Entered(b, e)
            /\ FetchThrows /\ Odd(cpu.pc) /\ ~Odd(Ssp(b)) /\ RoomBelow(Ssp(b), 14) /\ ~cpu.inAddressError =>
                 Entered(b, e)
      BY <1>2, ExceptionalDoes
    <2>3. Ssp(b) = Ssp(cpu) BY <2>2 DEF Ready, Ssp
    <2>4. \A n : Room(n) => RoomBelow(Ssp(cpu), n) BY DEF Room, RoomBelow
    <2>5. Entered(b, e) => ~Halted(cpu') /\ ~Odd(Ssp(cpu')) BY <1>1, <1>2, <2>1, <2>2
    <2>6. CASE Entered(b, e) BY <2>5, <2>6 DEF Halted
    <2>7. CASE ~Entered(b, e)
      <3>1. /\ Sound(e) /\ ~Thrown(e) /\ Halted(e)
            /\ e.halted = "DoubleBusFault" => cpu.inAddressError
        BY <1>2, <2>2, <2>3, <2>7 DEF Halts
      <3>2. cpu'.halted = e.halted BY <2>2, <3>1, BecomesLeaves
      <3>3. Single /\ Even BY <3>1, <3>2 DEF Halted
      <3>4. Enough BY <1>2, <2>2, <2>3, <2>4, <2>7
      <3> QED BY <3>3, <3>4
    <2> QED BY <2>6, <2>7
  <1>3. ASSUME IInv, [Next]_vars, ~Odd(Ssp(cpu)) PROVE (Single /\ Even) \/ UNCHANGED vars
    <2>1. CASE Compute \/ Movems \/ PushAddress \/ Unlink \/ Branch \/ Trap \/ ReturnFromException \/ System
      <3> DEFINE b == Fetched
      <3>1. ~Halted(cpu) /\ Ready(b) BY <1>3, <2>1, InstructionDoes
      <3>2. PICK c, e : /\ Does(b, c, e)
                        /\ \/ Straight(b, c)
                           \/ PushAddress /\ Links(b, c) /\ Keeps(b, c)
                           \/ Unlink /\ (Thrown(c) \/ (Keeps(b, c) /\ ~Odd(c.a7)))
                           \/ System /\ Copies(b, c)
        BY <1>3, <2>1, InstructionDoes
      <3> HIDE DEF b
      <3>4. /\ b.sr = cpu.sr /\ Ssp(b) = Ssp(cpu) /\ Usp(b) = Usp(cpu) /\ b.a7 = cpu.a7
            /\ b.otherSp = cpu.otherSp /\ b.halted = cpu.halted /\ b.inAddressError = cpu.inAddressError
        BY <3>1 DEF Ready, Ssp, Usp
      <3>5. CASE Entered(b, e)
        <4>1. ~Halted(cpu') /\ ~Odd(Ssp(cpu')) BY <1>1, <1>3, <3>1, <3>2, <3>5 DEF Does
        <4> QED BY <4>1 DEF Halted
      <3>6. CASE Stops(b, c, e)
        <4>1. Sound(e) /\ ~Thrown(e) /\ Halted(e) BY <3>6 DEF Stops, Halts
        <4>2. cpu'.halted = e.halted BY <3>2, <4>1, BecomesLeaves DEF Does
        <4>3. e.halted = "DoubleBusFault" => Unlink \/ cpu.inAddressError
          BY <1>3, <3>2, <3>4, <3>6 DEF Stops, Links, Copies
        <4> QED BY <4>1, <4>2, <4>3 DEF Halted
      <3>7. CASE e = c /\ ~Thrown(c) /\ (Keeps(b, c) \/ Supervises(b, c))
        <4>1. Sound(c) /\ c.halted = cpu.halted BY <3>4, <3>7 DEF Keeps, Supervises
        <4>2. Ssp(cpu)' = Ssp(c) /\ cpu'.halted = c.halted BY <3>2, <3>7, <4>1, BecomesLeaves DEF Does
        <4>0. Single BY <3>1, <4>1, <4>2 DEF Halted
        <4>3. CASE Straight(b, c)
          <5>1. Odd(Ssp(c)) => Ssp(c) \in Pointers
            BY <1>3, <3>4, <3>7, <4>3 DEF Straight, Keeps, Level, Loads, Ssp, Supervises
          <5> QED BY <4>0, <4>2, <5>1
        <4>4. CASE PushAddress /\ Links(b, c) /\ Keeps(b, c)
          <5>1. Odd(Ssp(c)) => \E n \in Displacements : Ssp(c) = Plus(cpu.a7, n - 4)
            BY <1>3, <3>4, <4>4 DEF Links, Keeps, Ssp
          <5> QED BY <4>0, <4>2, <4>4, <5>1
        <4>5. CASE Unlink /\ Keeps(b, c) /\ ~Odd(c.a7)
          <5>1. ~Odd(Ssp(c)) BY <1>3, <3>4, <4>5 DEF Keeps, Ssp
          <5> QED BY <4>0, <4>2, <5>1
        <4>6. CASE System /\ Copies(b, c)
          <5>1. Ssp(c) = Usp(cpu) BY <3>4, <4>6 DEF Copies
          <5> QED BY <4>0, <4>2, <4>6, <5>1
        <4> QED BY <3>2, <3>7, <4>3, <4>4, <4>5, <4>6
      <3> QED BY <3>2, <3>5, <3>6, <3>7 DEF Does
    <2>2. CASE TakeInterrupt \/ FetchThrows BY <1>2, <1>3, <2>2
    <2>3. CASE Reset
      <3>1. cpu'.sr.s /\ cpu'.a7 \in Pointers /\ cpu'.halted = "no" BY <1>3, <2>3, ResetLeaves
      <3> QED BY <3>1 DEF Ssp
    <2>4. CASE \E level \in Levels : set_interrupt_level(level)
      <3>1. /\ cpu'.sr = cpu.sr /\ cpu'.a7 = cpu.a7 /\ cpu'.otherSp = cpu.otherSp
            /\ cpu'.halted = cpu.halted
        BY <1>3, <2>4, LevelLeaves
      <3>2. Ssp(cpu') = Ssp(cpu) BY <3>1 DEF Ssp
      <3> QED BY <1>3, <3>1, <3>2 DEF Halted
    <2>5. CASE Idle \/ UNCHANGED vars BY <2>5 DEF Idle
    <2> QED BY <1>3, <2>1, <2>2, <2>3, <2>4, <2>5 DEF Next, Steps
  <1>4. ASSUME IInv, [Next]_vars PROVE [Aligned]_vars
    <2> SUFFICES ASSUME ~Odd(Ssp(cpu)), ~UNCHANGED vars PROVE Aligned
      OBVIOUS
    <2>1. Single /\ Even BY <1>3, <1>4
    <2>2. TakeInterrupt \/ FetchThrows => Enough BY <1>2, <1>4
    <2> HIDE DEF Single, Even
    <2> QED BY <2>1, <2>2
  <1>5. Spec => [][Aligned]_vars BY <1>4, IInvAlways, PTL DEF Spec
  <1> QED BY <1>5 DEF StackStaysAligned

\* RTE on a frame that is still pending goes back to the program counter and
\* the status register stacked by exception, take_interrupt or address_error,
\* and takes the whole frame off: what op_rte pops is what they pushed,
\* because the memory a pending frame covers has not been written since.
THEOREM ReturnsWhereItLeftAlways == Spec => ReturnsWhereItLeft
  <1> DEFINE Returns == \A f \in frames :
        cpu.sr.s /\ cpu.a7 = f.at /\ ReturnFromException =>
          cpu'.pc = f.pc /\ cpu'.sr = f.sr /\ Ssp(cpu') = Plus(f.at, 6)
  <1>1. ASSUME IInv, NEW f \in frames, cpu.sr.s, cpu.a7 = f.at, ReturnFromException
        PROVE  cpu'.pc = f.pc /\ cpu'.sr = f.sr /\ Ssp(cpu') = Plus(f.at, 6)
    <2> DEFINE b == Fetched
    <2>1. Ready(b) BY <1>1, InstructionDoes
    <2>2. Settle(op_rte(b)) BY <1>1 DEF ReturnFromException, Execute
    <2> HIDE DEF b
    <2>3. Sound(b) /\ ~Thrown(b) /\ b.sr = cpu.sr /\ b.a7 = f.at /\ b.mem = cpu.mem
      BY <1>1, <2>1 DEF Ready
    <2>4. f \in FrameSpace /\ ~Odd(f.at) /\ HeldIn(f, b.mem) BY <1>1, <2>3 DEF IInv
    <2>5. f.at \in Int BY <2>4, CpuAssumption DEF FrameSpace, Addresses
    <2>6. PICK c \in op_rte(b) : \E e \in Caught(c) : Becomes(e) BY <2>2 DEF Settle
    <2> DEFINE outcome(p, q) == IF Thrown(q.cpu) THEN q.cpu ELSE [set_sr(q.cpu, p.value) EXCEPT !.pc = q.value]
    <2>7. c \in UNION {{outcome(p, q) : q \in pop32(p.cpu)} : p \in pop16(b)}
      BY <1>1, <2>3, <2>6 DEF op_rte, Privileged
    <2> HIDE DEF outcome
    <2>8. PICK p \in pop16(b) : c \in {outcome(p, q) : q \in pop32(p.cpu)} BY <2>7
    <2>9. PICK q \in pop32(p.cpu) : c = outcome(p, q) BY <2>8
    <2>10. /\ Keeps(b, p.cpu) /\ ~Thrown(p.cpu) /\ p.cpu.a7 = Plus(f.at, 2) /\ p.cpu.mem = b.mem
           /\ p.value = f.sr
      <3>1. Holds(b, b.a7, "sr") /\ b.mem[b.a7].sr = f.sr BY <2>3, <2>4 DEF Holds, HeldIn, Extent
      <3>2. Keeps(b, p.cpu) /\ p.cpu = Popped(b, 1) /\ p.value = f.sr BY <2>3, <3>1, Pop16
      <3>3. Answered(f.at, 1) /\ f.at \in Addresses
        <4>1. f.at \in Addresses BY <2>4 DEF FrameSpace
        <4> QED BY <2>4, <4>1, OneWord DEF Answered, HeldIn, Extent
      <3>4. ~Thrown(p.cpu) BY <2>3, <2>4, <3>2, <3>3, PoppedKeeps DEF Throws
      <3>5. 2 * 1 = 2 /\ 1 \in Nat OBVIOUS
      <3>6. p.cpu.a7 = Plus(f.at, 2 * 1) /\ p.cpu.mem = b.mem BY <2>3, <3>2, <3>4, <3>5, PoppedKeeps
      <3> QED BY <3>2, <3>4, <3>5, <3>6
    <2>11. Sound(p.cpu) /\ ~Odd(p.cpu.a7) /\ p.cpu.sr = b.sr
      <3>1. 2 % 2 = 0 OBVIOUS
      <3>2. ~Odd(Plus(f.at, 2)) BY <2>4, <2>5, <3>1, PlusEven
      <3> QED BY <2>10, <3>2 DEF Keeps
    <2>12. LongsAt(p.cpu, p.cpu.a7) = {f.pc}
      <3>1. Plus(Plus(f.at, 2), 2) = Plus(f.at, 4) BY <2>5, PlusTwo
      <3> DEFINE m == b.mem
                 hi == Plus(f.at, 2)
                 lo == Plus(f.at, 4)
      <3>2. hi \in DOMAIN m /\ lo \in DOMAIN m /\ m[hi] = [is |-> "pcHi", pc |-> f.pc]
            /\ m[lo] = [is |-> "pcLo", pc |-> f.pc]
        BY <2>4 DEF HeldIn, Extent
      <3>3. p.cpu.mem = m /\ p.cpu.a7 = hi /\ Plus(hi, 2) = lo BY <2>10, <3>1
      <3> HIDE DEF m, hi, lo
      <3> QED BY <3>2, <3>3 DEF LongsAt, Holds
    <2>13. /\ Keeps(p.cpu, q.cpu) /\ ~Thrown(q.cpu) /\ q.value = f.pc
           /\ q.cpu.a7 = Plus(f.at, 6)
      <3> DEFINE v == Plus(f.at, 2)
      <3>1. Plus(v, 4) = Plus(f.at, 6) /\ Plus(v, 2) = Plus(f.at, 4) BY <2>5, PlusTwo
      <3>2. v \in Addresses BY <2>5, PlusType
      <3>3. ~Silent(v) /\ ~Silent(Plus(v, 2)) BY <2>4, <3>1 DEF HeldIn, Extent
      <3>4. p.cpu.a7 = v BY <2>10
      <3> HIDE DEF v
      <3>5. Answered(v, 2) BY <3>2, <3>3, TwoWords DEF Answered
      <3>6. Keeps(p.cpu, q.cpu) /\ q.cpu = Popped(p.cpu, 2) /\ q.value = f.pc BY <2>11, <2>12, Pop32
      <3>7. 2 * 2 = 4 /\ 2 \in Nat OBVIOUS
      <3>8. /\ Throws(p.cpu, q.cpu, v, 2)
            /\ ~Thrown(q.cpu) => q.cpu.a7 = Plus(v, 2 * 2)
        BY <2>11, <3>4, <3>6, <3>7, PoppedKeeps
      <3>9. ~Thrown(q.cpu) BY <2>10, <2>11, <3>4, <3>5, <3>8 DEF Throws
      <3> QED BY <3>1, <3>6, <3>7, <3>8, <3>9
    <2> DEFINE e == set_sr(q.cpu, f.sr)
    <2>14. /\ Sound(e) /\ e.sr = f.sr /\ Ssp(e) = Plus(f.at, 6) /\ ~Thrown(e)
      <3>1. Sound(q.cpu) /\ f.sr \in SrValues BY <2>4, <2>13 DEF Keeps, FrameSpace
      <3>2. Ssp(q.cpu) = q.cpu.a7 BY <1>1, <2>3, <2>11, <2>13 DEF Keeps, Ssp
      <3> QED BY <2>13, <3>1, <3>2, SetSr DEF Thrown
    <2>15. c = [e EXCEPT !.pc = f.pc] BY <2>9, <2>10, <2>13 DEF outcome
    <2> HIDE DEF e
    <2>16. f.pc \in Addresses BY <2>4 DEF FrameSpace
    <2>17. Keeps(e, c) /\ c.pc = f.pc /\ c.a7 = e.a7 /\ c.fault = e.fault
      BY <2>14, <2>15, <2>16, MovePc
    <2>18. Sound(c) /\ ~Thrown(c) /\ c.sr = f.sr /\ Ssp(c) = Plus(f.at, 6)
      BY <2>14, <2>17 DEF Keeps, Thrown, Ssp
    <2>19. Becomes(c) BY <2>6, <2>18, Errors DEF Caught
    <2> QED BY <2>17, <2>18, <2>19, BecomesLeaves
  <1>2. IInv => Returns BY <1>1
  <1>3. Spec => [][Returns]_vars BY <1>2, IInvAlways, PTL DEF Spec
  <1> QED BY <1>3 DEF ReturnsWhereItLeft
===========================================================================
