------------------------------ MODULE Display ------------------------------
(***************************************************************************)
(* How a picture gets from chip RAM to the screen: the lines of a frame    *)
(* fetched by Agnus (agnus.hpp) and rendered by Denise (denise.cpp), with  *)
(* sprites over and under the playfields, and collisions.  Sprites come as *)
(* the starts that triggers() gives for the line (Sprites).  A word is the *)
(* set of its bits, a colour [r, g, b], addresses count words.             *)
(***************************************************************************)
EXTENDS Integers, Sequences, SequencesExt, FiniteSetsExt

CONSTANTS
  DmaBits,      (* Bits of a word: 16.                                     *)
  BitmapWords,  (* Words of chip RAM; pointers wrap at it.                 *)
  Columns,      (* kOutputWidth: 640, two to a lowres pixel.               *)
  FirstColumn,  (* kViewportStartH: the lowres position of column 0.       *)
  FirstRow, Rows, (* kViewportStartV and kDisplayLines.                    *)
  DdfMin, DdfMax  (* kDdfMin, kDdfMax.                                     *)

Planes  == 0 .. 5
Sprites8 == 0 .. 7
Groups  == 0 .. 3
Number(bits) == FoldSet(LAMBDA b, n : n + 2^b, 0, bits)

-----------------------------------------------------------------------------
(* Agnus.  g holds its registers; diw their bytes.                         *)

window(g) ==
  [hstart |-> g.diwstrt.h, hstop |-> 256 + g.diwstop.h,
   vstart |-> g.diwstrt.v, vstop |-> g.diwstop.v + (IF g.diwstop.v >= 128 THEN 0 ELSE 256)]

fetched_planes(g) == IF g.bpu > 6 THEN 0 ELSE IF g.hires /\ g.bpu > 4 THEN 4 ELSE g.bpu

DdfStart(g) == IF g.ddfstrt < DdfMin THEN DdfMin ELSE g.ddfstrt
DdfStop(g)  == IF g.ddfstop > DdfMax THEN DdfMax ELSE g.ddfstop

\* In units of half a word's lowres pixels: 8 color clocks for 16 bits.
fetch_words(g) ==
  LET unit  == DmaBits \div 2
      units == (DdfStop(g) - DdfStart(g) + unit - 1) \div unit + 1
  IN IF DdfStop(g) < DdfStart(g) THEN 0 ELSE IF g.hires THEN 2 * units ELSE units

first_pixel(g) == 2 * DdfStart(g) + IF g.hires THEN 9 ELSE 17

\* A mutant: the modulos the other way round.
OtherModulo(g, plane) == g.bplmod[2 - (plane % 2)]
Modulo(g, plane)      == g.bplmod[1 + (plane % 2)]

fetch_line(g, memory, vpos) ==
  LET diw    == window(g)
      inside == vpos >= diw.vstart /\ vpos < diw.vstop
      planes == IF inside /\ g.bplen THEN fetched_planes(g) ELSE 0
      words  == fetch_words(g)
      data   == [p \in Planes |-> [w \in 0 .. words - 1 |-> memory[(g.bplpt[p] + w) % BitmapWords]]]
  IN [out  |-> [vertical_window |-> inside, hires |-> g.hires, planes |-> planes, words |-> words,
                first_pixel |-> first_pixel(g), data |-> data],
      regs |-> [g EXCEPT !.bplpt =
                  [p \in Planes |-> IF p < planes THEN (@[p] + words + Modulo(g, p)) % BitmapWords ELSE @[p]]]]

-----------------------------------------------------------------------------
(* Denise: collisions.  CLXDAT is the set of its bits.                     *)

Odd  == {0, 2, 4}   \* planes 1, 3 and 5
Even == {1, 3, 5}
Pairs == <<{0, 1}, {0, 2}, {0, 3}, {1, 2}, {1, 3}, {2, 3}>>   \* bits 9 to 14

build_collision_tables(con) ==
  [plane_match |-> [planes \in SUBSET Planes |->
     {side \in {"odd", "even"} :
        \A p \in con.enbp \cap (IF side = "odd" THEN Odd ELSE Even) : p \in planes <=> p \in con.mvbp}],
   sprite_groups |-> [sprites \in SUBSET Sprites8 |->
     {k \in Groups : 2 * k \in sprites \/ (k \in con.ensp /\ 2 * k + 1 \in sprites)}],
   group_pairs |-> [groups \in SUBSET Groups |-> {8 + i : i \in {k \in 1 .. 6 : Pairs[k] \subseteq groups}}]]

\* A write to CLXCON rebuilds the tables; a mutant does not.
ClxConAlone(d, con)   == [d EXCEPT !.clxcon = con]
write_clxcon(d, con)  == [d EXCEPT !.clxcon = con, !.tables = build_collision_tables(con)]
Built(d)              == [d EXCEPT !.tables = build_collision_tables([ensp |-> {}, enbp |-> {}, mvbp |-> {}])]
read_collisions(d)    == [d EXCEPT !.clxdat = {}]

collisions(d, planes, sprites) ==
  LET match  == d.tables.plane_match[planes]
      groups == d.tables.sprite_groups[sprites]
  IN (IF match = {"odd", "even"} THEN {0} ELSE {})
     \cup (IF "odd" \in match THEN {1 + k : k \in groups} ELSE {})
     \cup (IF "even" \in match THEN {5 + k : k \in groups} ELSE {})
     \cup d.tables.group_pairs[groups]

\* Without a sprite only bit 0 can be set: skipped once it is.
Collided(d, planes, sprites) ==
  IF sprites # {} THEN d.clxdat \cup collisions(d, planes, sprites)
  ELSE IF 0 \notin d.clxdat /\ d.tables.plane_match[planes] = {"odd", "even"} THEN d.clxdat \cup {0}
  ELSE d.clxdat

-----------------------------------------------------------------------------
(* Denise: a line.                                                         *)

\* The bits of start t in column x: its pixels are one lowres position late.
StartBits(t, x) ==
  LET i == x \div 2 + FirstColumn - t.hstart - 1
      Has(word) == DmaBits - 1 - i \in word
  IN IF i \notin 0 .. DmaBits - 1 THEN {} ELSE (IF Has(t.data) THEN {0} ELSE {}) \cup (IF Has(t.datb) THEN {1} ELSE {})
OpaqueStarts(starts, x) == SelectSeq(starts, LAMBDA t : StartBits(t, x) # {})

is_attached(s) == IF s.starts = <<>> THEN s.attach ELSE \E i \in DOMAIN s.starts : s.starts[i].attached

\* The layer, painted from the last pair to the first: what is in column x.
PaintPair(sprites, x, layer, pair) ==
  LET even == OpaqueStarts(sprites[2 * pair].starts, x)
      odd  == OpaqueStarts(sprites[2 * pair + 1].starts, x)
      All(starts)   == UNION {StartBits(starts[i], x) : i \in DOMAIN starts}
      bits          == All(even) \cup {2 + b : b \in All(odd)}
      front         == StartBits(Last(IF even = <<>> THEN odd ELSE even), x)
      opaque        == (IF even = <<>> THEN {} ELSE {2 * pair}) \cup (IF odd = <<>> THEN {} ELSE {2 * pair + 1})
      marked        == [layer EXCEPT !.mask = @ \cup opaque]
  IN IF opaque = {} THEN layer
     ELSE IF is_attached(sprites[2 * pair + 1])
       THEN [marked EXCEPT !.color = 16 + Number(bits), !.pair = pair]
       ELSE [marked EXCEPT !.color = 16 + 4 * pair + Number(front), !.pair = pair]
NoSprite == [color |-> 0, pair |-> 0, mask |-> {}]
\* A mutant: painted from the first pair to the last.
PaintedForwards(sprites, x) == FoldLeft(LAMBDA l, pair : PaintPair(sprites, x, l, pair), NoSprite, <<0, 1, 2, 3>>)
SpriteLayer(sprites, x) == FoldLeft(LAMBDA l, pair : PaintPair(sprites, x, l, pair), NoSprite, <<3, 2, 1, 0>>)

\* The planes that are set in column x.
PlanesAt(d, fetch, x) ==
  LET delay(p) == d.bplcon1[1 + (p % 2)]
      i(p) == (x - 2 * (fetch.first_pixel + delay(p) - FirstColumn)) \div (IF fetch.hires THEN 1 ELSE 2)
  IN {p \in 0 .. fetch.planes - 1 :
        i(p) \in 0 .. fetch.words * DmaBits - 1
        /\ DmaBits - 1 - (i(p) % DmaBits) \in fetch.data[p][i(p) \div DmaBits]}

Half(c) == [r |-> c.r \div 2, g |-> c.g \div 2, b |-> c.b \div 2]

Pf1(bits) == Number({p \div 2 : p \in bits \cap Odd})
Pf2(bits) == Number({p \div 2 : p \in bits \cap Even})
LowBits(bits, n) == Number({p \in bits : p < n})

DualIndex(d, bits) ==
  LET pf1 == Pf1(bits)
      pf2 == Pf2(bits)
  IN IF d.pf2pri THEN IF pf2 # 0 THEN 8 + pf2 ELSE pf1
     ELSE IF pf1 # 0 THEN pf1 ELSE IF pf2 # 0 THEN 8 + pf2 ELSE 0

HamColor(d, bits, hold) ==
  LET data == LowBits(bits, 4)
  IN CASE {4, 5} \cap bits = {}     -> d.color[data]
       [] {4, 5} \cap bits = {4}    -> [hold EXCEPT !.b = data]
       [] {4, 5} \cap bits = {5}    -> [hold EXCEPT !.r = data]
       [] {4, 5} \cap bits = {4, 5} -> [hold EXCEPT !.g = data]

IsHam(d, fetch)       == d.homod /\ ~fetch.hires /\ fetch.planes >= 5 /\ ~d.dblpf
IsHalfBrite(d, fetch) == fetch.planes = 6 /\ ~d.dblpf /\ ~IsHam(d, fetch)

InFront(d, bits, s) ==
  LET pf1 == bits \cap Odd # {}
      pf2 == bits \cap Even # {}
      priority == IF ~d.dblpf \/ (pf2 /\ (~pf1 \/ d.pf2pri)) THEN d.pf2p ELSE d.pf1p
  IN bits = {} \/ s.pair < priority

\* One column: s is [d, ham, out].
Column(fetch, diw, sprites, s, x) ==
  LET d        == s.d
      position == FirstColumn + x \div 2
      bits     == PlanesAt(d, fetch, x)
      sprite   == SpriteLayer(sprites, x)
      ham      == IF IsHam(d, fetch) THEN HamColor(d, bits, s.ham) ELSE s.ham
      playfield == IF d.dblpf THEN d.color[DualIndex(d, bits)]
                   ELSE IF IsHam(d, fetch) THEN ham
                   ELSE IF IsHalfBrite(d, fetch) /\ 5 \in bits THEN Half(d.color[LowBits(bits, 5)])
                   ELSE d.color[LowBits(bits, 5)]
  IN IF position < diw.hstart \/ position >= diw.hstop
       THEN [s EXCEPT !.out = Append(@, d.color[0]), !.ham = d.color[0]]
     ELSE [d   |-> [d EXCEPT !.clxdat = Collided(d, bits, sprite.mask)],
           ham |-> ham,
           out |-> Append(s.out, IF sprite.color # 0 /\ InFront(d, bits, sprite) THEN d.color[sprite.color]
                                 ELSE playfield)]

render_line(d, fetch, diw, sprites) ==
  IF ~fetch.vertical_window THEN [d |-> d, out |-> [x \in 1 .. Columns |-> d.color[0]]]
  ELSE LET s == FoldLeft(LAMBDA t, x : Column(fetch, diw, sprites, t, x),
                         [d |-> d, ham |-> d.color[0], out |-> <<>>], [x \in 1 .. Columns |-> x - 1])
       IN [d |-> s.d, out |-> s.out]

\* Chipset::render_line for line vpos of a frame f = [g, d, screen], after
\* what software does before it: a write to CLXCON or a read of CLXDAT.
ChipsetLine(f, memory, sprites, does, vpos) ==
  LET fetched == fetch_line(f.g, memory, vpos)
      d == CASE does.what = "nothing" -> f.d
             [] does.what = "read"    -> read_collisions(f.d)
             [] does.what = "write"   -> write_clxcon(f.d, does.con)
      shown == render_line(d, fetched.out, window(f.g), sprites)
  IN IF vpos \notin FirstRow .. FirstRow + Rows - 1 THEN [f EXCEPT !.g = fetched.regs, !.d = d]
     ELSE [g |-> fetched.regs, d |-> shown.d, screen |-> Append(f.screen, shown.out)]

\* Lines FirstRow - 1 up to the one below the viewport.
Lines == [i \in 1 .. Rows + 2 |-> FirstRow - 2 + i]
FrameOf(p) ==
  FoldLeft(LAMBDA f, vpos : ChipsetLine(f, p.memory, p.sprites, p.does[vpos], vpos),
           [g |-> p.g, d |-> write_clxcon(Built(p.d), p.clxcon), screen |-> <<>>], Lines)

-----------------------------------------------------------------------------
(* What the screen should be.                                              *)

\* The bitmap's planes at column x of line v: rows are what a line fetches
\* and the modulo apart, from the first line fetched on.
BitmapAt(p, x, v) ==
  LET g     == p.g
      first == Max({window(g).vstart, FirstRow - 1})
      words == fetch_words(g)
      modulo(q) == g.bplmod[IF q \in Odd THEN 1 ELSE 2]
      left(q) == first_pixel(g) + p.d.bplcon1[1 + (q % 2)]
      dot(q)  == IF g.hires THEN x + 2 * (FirstColumn - left(q))
                 ELSE x \div 2 + FirstColumn - left(q)
      bit(q)  == DmaBits * (v - first) * (words + modulo(q)) + dot(q)
  IN {q \in Planes : /\ g.bplen /\ q < fetched_planes(g) /\ dot(q) \in 0 .. DmaBits * words - 1
                     /\ DmaBits - 1 - (bit(q) % DmaBits) \in p.memory[(g.bplpt[q] + bit(q) \div DmaBits) % BitmapWords]}

Visible(p, x, v) ==
  LET w == window(p.g)
  IN v >= w.vstart /\ v < w.vstop /\ FirstColumn + x \div 2 \in w.hstart .. w.hstop - 1

\* The sprite numbers that are opaque there, and the colour of the first.
OpaqueAt(p, x) == {n \in Sprites8 : OpaqueStarts(p.sprites[n].starts, x) # <<>>}
SpriteIndex(p, x) ==
  LET n     == Min(OpaqueAt(p, x))
      even  == 2 * (n \div 2)
      At(k) == OpaqueStarts(p.sprites[k].starts, x)
      Or(k) == Number(UNION {StartBits(At(k)[i], x) : i \in DOMAIN At(k)})
  IN IF is_attached(p.sprites[even + 1]) THEN 16 + Or(even) + 4 * Or(even + 1)
     ELSE 16 + 4 * (n \div 2) + Number(StartBits(Last(At(n)), x))

\* The playfield that shows, 0 when none does: its colours and its priority.
ShownPlayfield(d, bits) ==
  LET has(k) == bits \cap (IF k = 1 THEN Odd ELSE Even) # {}
      order  == IF d.pf2pri THEN <<2, 1>> ELSE <<1, 2>>
  IN IF has(order[1]) THEN order[1] ELSE IF has(order[2]) THEN order[2] ELSE 0

\* HAM: a component is what the last pixel of the line that sets it says.
HamAt(p, x, v) ==
  LET ctl(k) == BitmapAt(p, k, v) \cap {4, 5}
      Sets(control) == {k \in 0 .. x : Visible(p, k, v) /\ ctl(k) \in {{}, control}}
      Comp(control, of(_)) ==
        IF Sets(control) = {} THEN of(p.d.color[0])
        ELSE LET k == Max(Sets(control))
                 data == LowBits(BitmapAt(p, k, v), 4)
             IN IF ctl(k) = {} THEN of(p.d.color[data]) ELSE data
  IN [r |-> Comp({5}, LAMBDA c : c.r), g |-> Comp({4, 5}, LAMBDA c : c.g), b |-> Comp({4}, LAMBDA c : c.b)]

PlayfieldAt(p, x, v) ==
  LET bits   == BitmapAt(p, x, v)
      planes == IF p.g.bplen THEN fetched_planes(p.g) ELSE 0
      dual   == CASE ShownPlayfield(p.d, bits) = 0 -> 0
                  [] ShownPlayfield(p.d, bits) = 1 -> Pf1(bits)
                  [] OTHER                         -> 8 + Pf2(bits)
  IN IF p.d.dblpf THEN p.d.color[dual]
     ELSE IF p.d.homod /\ planes >= 5 /\ ~p.g.hires THEN HamAt(p, x, v)
     ELSE IF planes = 6 /\ 5 \in bits THEN Half(p.d.color[LowBits(bits, 5)])
     ELSE p.d.color[LowBits(bits, 5)]

SpriteShows(p, x, bits) ==
  LET pair == Min(OpaqueAt(p, x)) \div 2
  IN /\ OpaqueAt(p, x) # {}
     /\ \/ bits = {}
        \/ pair < (IF p.d.dblpf /\ ShownPlayfield(p.d, bits) = 1 THEN p.d.pf1p ELSE p.d.pf2p)

ShownAt(p, x, v) ==
  IF ~Visible(p, x, v) THEN p.d.color[0]
  ELSE IF SpriteShows(p, x, BitmapAt(p, x, v)) THEN p.d.color[SpriteIndex(p, x)]
  ELSE PlayfieldAt(p, x, v)

\* CLXCON as last written before line v, and the pixels since CLXDAT was read.
ConAt(p, v) ==
  LET writes == {u \in FirstRow - 1 .. v : p.does[u].what = "write"}
  IN IF writes = {} THEN p.clxcon ELSE p.does[Max(writes)].con
SinceRead(p) ==
  LET reads == {u \in DOMAIN p.does : p.does[u].what = "read"}
  IN {v \in FirstRow .. FirstRow + Rows - 1 : \A u \in reads : v >= u}

Touching(con, bits, sprites) ==
  LET Match(side) == \A q \in side \cap con.enbp : q \in bits <=> q \in con.mvbp
      InGroup(k)  == 2 * k \in sprites \/ (2 * k + 1 \in sprites /\ k \in con.ensp)
  IN {b \in 0 .. 14 :
        CASE b = 0        -> Match(Odd) /\ Match(Even)
          [] b \in 1 .. 4 -> Match(Odd) /\ InGroup(b - 1)
          [] b \in 5 .. 8 -> Match(Even) /\ InGroup(b - 5)
          [] OTHER        -> \A k \in Pairs[b - 8] : InGroup(k)}

\* The screen shows the bitmap, pixel by pixel, in its mode, with the first
\* opaque sprite over the playfield that shows if its priority says so, and
\* COLOR00 outside the window; CLXDAT is what has touched since it was read,
\* each line by the CLXCON of its time.
ScreenRight(p) ==
  LET f == FrameOf(p)
  IN /\ \A v \in 1 .. Rows, x \in 0 .. Columns - 1 : f.screen[v][x + 1] = ShownAt(p, x, FirstRow + v - 1)
     /\ f.d.clxdat = UNION {Touching(ConAt(p, v), BitmapAt(p, x, v), OpaqueAt(p, x)) :
                             <<x, v>> \in {q \in (0 .. Columns - 1) \X SinceRead(p) : Visible(p, q[1], q[2])}}
=============================================================================
