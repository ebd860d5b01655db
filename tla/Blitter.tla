------------------------------ MODULE Blitter ------------------------------
(***************************************************************************)
(* The blitter (blitter.cpp).  A blit runs to completion when it starts,   *)
(* so it is an operator: from the registers r and chip RAM to both after   *)
(* the blit.  A word is the set of its bits that are set, and addresses    *)
(* count words.  The references say what an area blit and a line are as a  *)
(* whole: bit strings shifted and combined, and a line rounded to pixels.  *)
(***************************************************************************)
EXTENDS Integers, Sequences, SequencesExt, FiniteSets

CONSTANTS
  WordBits,    (* 16 on the chip.                                          *)
  MemoryWords, (* Words of chip RAM; addresses wrap at it.                 *)
  HalfWords,   (* Words that the low half of a pointer tells apart.        *)
  MaxRows, MaxWidth   (* What a size of 0 stands for: 1024 and 64.         *)

Bits     == 0 .. WordBits - 1
Channels == {"A", "B", "C", "D"}
At(p)    == p % MemoryWords

Cleared ==
  [con0 |-> [ash |-> 0, use |-> {}, lf |-> {}],
   con1 |-> [bsh |-> 0, is |-> {}],
   afwm |-> Bits, alwm |-> Bits, height |-> 0, width |-> 0, error |-> 0, zero |-> FALSE, last |-> {},
   pt |-> [x \in Channels |-> 0], mod |-> [x \in Channels |-> 0], data |-> [x \in {"A", "B", "C"} |-> {}]]

\* BLTAPT, in line mode, is the error term: error stands for it.
write_register(r, w) ==
  CASE w.reg = "BLTCON0" -> [r EXCEPT !.con0 = w.value]
    [] w.reg = "BLTCON1" -> [r EXCEPT !.con1 = w.value]
    [] w.reg = "BLTAFWM" -> [r EXCEPT !.afwm = w.value]
    [] w.reg = "BLTALWM" -> [r EXCEPT !.alwm = w.value]
    [] w.reg = "BLTxPTH" -> [r EXCEPT !.pt[w.of] = At(w.value * HalfWords + (@ % HalfWords))]
    [] w.reg = "BLTxPTL" -> [r EXCEPT !.pt[w.of] = At(@ - (@ % HalfWords) + w.value)]
    [] w.reg = "BLTAPT"  -> [r EXCEPT !.error = w.value]
    [] w.reg = "BLTxMOD" -> [r EXCEPT !.mod[w.of] = w.value]
    [] w.reg = "BLTxDAT" -> [r EXCEPT !.data[w.of] = w.value]
    [] w.reg = "BLTSIZE" -> [r EXCEPT !.height = IF w.rows = 0 THEN MaxRows ELSE w.rows,
                                      !.width  = IF w.words = 0 THEN MaxWidth ELSE w.words]

-----------------------------------------------------------------------------
(* Area mode.                                                              *)

ShiftLeft(w, n)  == {b + n : b \in {k \in w : k + n < WordBits}}
ShiftRight(w, n) == {b - n : b \in {k \in w : k >= n}}

\* A mutant: what was shifted out is lost.
BarrelAlone(previous, current, shift, descending) ==
  IF descending THEN ShiftLeft(current, shift) ELSE ShiftRight(current, shift)
barrel(previous, current, shift, descending) ==
  IF descending THEN ShiftLeft(current, shift) \cup ShiftRight(previous, WordBits - shift)
  ELSE ShiftRight(current, shift) \cup ShiftLeft(previous, WordBits - shift)

BitOf(w, b)   == IF b \in w THEN 1 ELSE 0
minterm(lf, a, b, c) == {i \in Bits : 4 * BitOf(a, i) + 2 * BitOf(b, i) + BitOf(c, i) \in lf}

\* From the rightmost pixel leftwards, each set bit toggles the fill.
FillBit(exclusive, s, edge, i) ==
  LET carry == s.carry # edge
  IN [carry |-> carry,
      out |-> IF (IF exclusive THEN carry ELSE carry \/ edge) THEN s.out \cup {i} ELSE s.out]
Fill(d, exclusive, carry) ==
  FoldLeft(LAMBDA s, i : FillBit(exclusive, s, i \in d, i), [carry |-> carry, out |-> {}],
           [i \in 1 .. WordBits |-> i - 1])

Descending(r) == "DESC" \in r.con1.is
Filling(r)    == Descending(r) /\ r.con1.is \cap {"IFE", "EFE"} # {}
Step(r)       == IF Descending(r) THEN -1 ELSE 1
Uses(r, x)    == x \in r.con0.use

\* Masks: the first and the last word of a row, which may be the same.
Masked(r, w, word) == (IF word = 0 THEN r.afwm ELSE Bits) \cap (IF word = r.width - 1 THEN r.alwm ELSE Bits) \cap w

\* One word: s is the blit so far.  A and C stay in their data registers, B
\* does not, and a B that is not read is not shifted.
AreaWord(r, s, word) ==
  LET Source(x) == IF Uses(r, x) THEN s.mem[At(s.pt[x])] ELSE s.data[x]
      a == Masked(r, Source("A"), word)
      b == Source("B")
      c == Source("C")
      d == minterm(r.con0.lf, barrel(s.aPrevious, a, r.con0.ash, Descending(r)),
                   IF Uses(r, "B") THEN barrel(s.bPrevious, b, r.con1.bsh, Descending(r)) ELSE b, c)
      filled == Fill(d, "EFE" \in r.con1.is, s.carry)
      out    == IF Filling(r) THEN filled.out ELSE d
  IN [s EXCEPT !.mem  = IF Uses(r, "D") THEN [@ EXCEPT ![At(s.pt["D"])] = out] ELSE @,
               !.pt   = [x \in Channels |-> IF Uses(r, x) THEN @[x] + Step(r) ELSE @[x]],
               !.data = [@ EXCEPT !["A"] = Source("A"), !["C"] = c],
               !.aPrevious = a,
               !.bPrevious = IF Uses(r, "B") THEN b ELSE @,
               !.carry = IF Filling(r) THEN filled.carry ELSE @,
               !.anySet = @ \/ out # {}, !.last = out]

\* A mutant: the fill carries over to the next row.
RowCarriedOn(r, s) == s
RowStart(r, s) == [s EXCEPT !.carry = "FCI" \in r.con1.is]

AreaRow(r, s) ==
  LET done == FoldLeft(LAMBDA t, word : AreaWord(r, t, word), RowStart(r, s),
                       [i \in 1 .. r.width |-> i - 1])
  IN [done EXCEPT !.pt = [x \in Channels |-> IF Uses(r, x) THEN @[x] + Step(r) * r.mod[x] ELSE @[x]]]

run_area(r, memory) ==
  LET start == [mem |-> memory, pt |-> r.pt, data |-> r.data, aPrevious |-> {}, bPrevious |-> {},
                carry |-> FALSE, anySet |-> FALSE, last |-> r.last]
      s == FoldLeft(LAMBDA t, row : AreaRow(r, t), start, [i \in 1 .. r.height |-> i])
  IN [mem |-> s.mem,
      regs |-> [r EXCEPT !.pt = [x \in Channels |-> At(s.pt[x])], !.data = s.data,
                         !.zero = ~s.anySet, !.last = s.last]]

-----------------------------------------------------------------------------
(* Line mode.                                                              *)

\* A step to the left or right within the word, or to the next one.
StepX(s, left) ==
  IF left THEN IF s.shift = 0 THEN [s EXCEPT !.shift = WordBits - 1, !.address = @ - 1]
               ELSE [s EXCEPT !.shift = @ - 1]
  ELSE IF s.shift = WordBits - 1 THEN [s EXCEPT !.shift = 0, !.address = @ + 1]
  ELSE [s EXCEPT !.shift = @ + 1]
StepY(s, up, row) == [s EXCEPT !.address = IF up THEN @ - row ELSE @ + row, !.dotOnRow = FALSE]

RotateLeft(w)     == {(b + 1) % WordBits : b \in w}
RotateRight(w, n) == {(b - n) % WordBits : b \in w}

\* A mutant: the sometimes step is taken on a negative error.
SometimesWhenNegative(s) == s.sign
TakesSometimes(s) == ~s.sign

LinePixel(r, s) ==
  LET Is(flag)  == flag \in r.con1.is
      c    == s.mem[At(s.address)]
      dot  == minterm(r.con0.lf, ShiftRight(r.data["A"] \cap r.afwm, s.shift),
                      IF 0 \in s.texture THEN Bits ELSE {}, c)
      d    == IF Is("SING") /\ s.dotOnRow THEN c ELSE dot
      drawn == [s EXCEPT !.mem[At(s.dAddress)] = d, !.dotOnRow = TRUE, !.anySet = @ \/ d # {}, !.last = d]
      sometimes == IF ~TakesSometimes(s) THEN drawn
                   ELSE IF Is("SUD") THEN StepY(drawn, Is("SUL"), r.mod["C"]) ELSE StepX(drawn, Is("SUL"))
      always == IF Is("SUD") THEN StepX(sometimes, Is("AUL")) ELSE StepY(sometimes, Is("AUL"), r.mod["C"])
      error  == s.error + (IF s.sign THEN r.mod["B"] ELSE r.mod["A"])
  IN [always EXCEPT !.error = error, !.sign = error < 0, !.texture = RotateLeft(@),
                    !.address = At(@), !.dAddress = At(always.address)]

run_line(r, memory) ==
  LET start == [mem |-> memory, shift |-> r.con0.ash, texture |-> RotateRight(r.data["B"], r.con1.bsh),
                error |-> r.error, sign |-> "SIGN" \in r.con1.is, address |-> r.pt["C"], dAddress |-> r.pt["D"],
                dotOnRow |-> FALSE, anySet |-> FALSE, last |-> r.last]
      s == FoldLeft(LAMBDA t, i : LinePixel(r, t), start, [i \in 1 .. r.height |-> i])
  IN [mem |-> s.mem,
      regs |-> [r EXCEPT !.error = s.error, !.pt["C"] = s.address, !.pt["D"] = s.dAddress,
                         !.con0.ash = s.shift,
                         !.con1.is = (@ \ {"SIGN"}) \cup (IF s.sign THEN {"SIGN"} ELSE {}),
                         !.zero = ~s.anySet, !.last = s.last]]

run(r, memory) == IF "LINE" \in r.con1.is THEN run_line(r, memory) ELSE run_area(r, memory)

Programmed(writes) == FoldLeft(write_register, Cleared, writes)

-----------------------------------------------------------------------------
(* What an area blit is.  The words of a blit are numbered in the order     *)
(* they are done, and their bits in the order the blit walks: leftmost      *)
(* first ascending, rightmost first descending.                             *)

Words(r)      == 0 .. r.width * r.height - 1
Place(r, x, k) == At(r.pt[x] + Step(r) * (k + (k \div r.width) * r.mod[x]))
Walked(r, i)   == IF Descending(r) THEN i ELSE WordBits - 1 - i

\* The string of bits that channel x is, masked and then shifted as a whole.
Stream(r, memory, x, j) ==
  IF j < 0 THEN 0
  ELSE LET k == j \div WordBits
           w == IF Uses(r, x) THEN memory[Place(r, x, k)] ELSE r.data[x]
       IN BitOf(IF x = "A" THEN Masked(r, w, k % r.width) ELSE w, Walked(r, j % WordBits))
Combined(r, memory, j) ==
  4 * Stream(r, memory, "A", j - r.con0.ash)
  + 2 * Stream(r, memory, "B", IF Uses(r, "B") THEN j - r.con1.bsh ELSE j)
  + Stream(r, memory, "C", j) \in r.con0.lf

\* A fill's pixel is inside when an odd number of edges of its row precede it
\* or are it; an inclusive fill keeps the edges.
Result(r, memory, j) ==
  LET row   == r.width * WordBits
      edges == {i \in (j - (j % row)) .. j : Combined(r, memory, i)}
      inside == (Cardinality(edges) % 2 = 1) # ("FCI" \in r.con1.is)
  IN IF ~Filling(r) THEN Combined(r, memory, j)
     ELSE IF "EFE" \in r.con1.is THEN inside ELSE inside \/ j \in edges

\* No word is read after the blit has written it, or written twice.
NoHazard(r) ==
  Uses(r, "D") =>
    \A k, l \in Words(r) :
      k < l => \A x \in r.con0.use : Place(r, "D", k) # Place(r, x, l)

\* Blits between places that do not disturb each other, the overlapping ones
\* that walk the right way included, move and combine the strings of bits as
\* a whole; BZERO and the pointers say what was done.
AreaRight(r, memory) ==
  LET done == run_area(r, memory)
      Out(k) == {b \in Bits : Result(r, memory, k * WordBits + Walked(r, b))}
      end(x) == r.pt[x] + Step(r) * (r.width * r.height + r.height * r.mod[x])
  IN NoHazard(r) =>
       /\ \A a \in DOMAIN memory :
            done.mem[a] = IF Uses(r, "D") /\ \E k \in Words(r) : Place(r, "D", k) = a
                            THEN Out(CHOOSE k \in Words(r) : Place(r, "D", k) = a)
                            ELSE memory[a]
       /\ done.regs.zero = \A k \in Words(r) : Out(k) = {}
       /\ \A x \in Channels : done.regs.pt[x] = IF Uses(r, x) THEN At(end(x)) ELSE r.pt[x]

-----------------------------------------------------------------------------
(* What a line is: from pixel (x, y) of a bitmap with rows of mod["C"]      *)
(* words, major steps of 1 in one direction and minor steps in another.     *)

\* The registers for a line, as the Hardware Reference Manual programs them.
LineSetup(l) ==
  LET place == l.y * l.row + (l.x \div WordBits)
      flags == {"LINE"} \cup l.octant \cup (IF l.single THEN {"SING"} ELSE {})
               \cup (IF 4 * l.minor - 2 * l.major < 0 THEN {"SIGN"} ELSE {})
  IN << [reg |-> "BLTCON0", value |-> [ash |-> l.x % WordBits, use |-> {"A", "C", "D"}, lf |-> l.lf]],
        [reg |-> "BLTCON1", value |-> [bsh |-> l.bsh, is |-> flags]],
        [reg |-> "BLTAPT", value |-> 4 * l.minor - 2 * l.major],
        [reg |-> "BLTxMOD", of |-> "A", value |-> 4 * (l.minor - l.major)],
        [reg |-> "BLTxMOD", of |-> "B", value |-> 4 * l.minor],
        [reg |-> "BLTxMOD", of |-> "C", value |-> l.row],
        [reg |-> "BLTxMOD", of |-> "D", value |-> l.row],
        [reg |-> "BLTxDAT", of |-> "A", value |-> {WordBits - 1}],
        [reg |-> "BLTxDAT", of |-> "B", value |-> l.texture],
        [reg |-> "BLTxPTH", of |-> "C", value |-> place \div HalfWords],
        [reg |-> "BLTxPTL", of |-> "C", value |-> place % HalfWords],
        [reg |-> "BLTxPTH", of |-> "D", value |-> place \div HalfWords],
        [reg |-> "BLTxPTL", of |-> "D", value |-> place % HalfWords],
        [reg |-> "BLTSIZE", rows |-> (l.major + 1) % MaxRows, words |-> 2] >>

\* Pixel i of the ideal line, rounded; SUD, SUL and AUL say which octant.
Pixel(l, i) ==
  LET n == (2 * l.minor * i + l.major) \div (2 * l.major)
      Signed(m, flag) == IF flag \in l.octant THEN 0 - m ELSE m
  IN IF "SUD" \in l.octant THEN [x |-> l.x + Signed(i, "AUL"), y |-> l.y + Signed(n, "SUL")]
     ELSE [x |-> l.x + Signed(n, "SUL"), y |-> l.y + Signed(i, "AUL")]
Drawn(l, i) == ~l.single \/ i = 0 \/ Pixel(l, i).y # Pixel(l, i - 1).y

\* A line draws these pixels, each with its bit of the texture, and no other;
\* with one dot per row the first of each row.
LineRight(l, memory) ==
  LET r     == Programmed(LineSetup(l))
      done  == run(r, memory)
      After(x, y) ==
        LET was == BitOf(memory[At(y * l.row + (x \div WordBits))], WordBits - 1 - (x % WordBits))
            hit == {i \in 0 .. l.major : Drawn(l, i) /\ Pixel(l, i) = [x |-> x, y |-> y]}
            tex == {i \in hit : (l.bsh - i) % WordBits \in l.texture}
        IN (IF hit = {} THEN was ELSE 4 + (IF tex # {} THEN 2 ELSE 0) + was)
      Set(v) == v = 1 \/ (v >= 4 /\ v \in l.lf)
  IN /\ \A a \in DOMAIN memory, b \in Bits :
          b \in done.mem[a] <=> Set(After(WordBits * (a % l.row) + (WordBits - 1 - b), a \div l.row))
     \* Half of it and then, on the registers it leaves, the rest, is the whole.
     /\ l.texture = Bits /\ ~l.single =>
          LET half == l.major \div 2 + 1
              Sized(q, n) == [q EXCEPT !.height = n]
              first == run(Sized(r, half), memory)
          IN l.major + 1 > half =>
               run(Sized(first.regs, l.major + 1 - half), first.mem).mem = done.mem
=============================================================================
