---------------------------- MODULE MCAlgorithms ----------------------------
(* Probes of the operators that have no state of their own between calls:  *)
(* one module at a time, any of its inputs after any other.                *)
EXTENDS Alu68000, Blitter, Display, MemoryBus

VARIABLES unit, probe

F == {[x |-> x, n |-> FALSE, z |-> z, v |-> TRUE, c |-> FALSE] : x \in BOOLEAN, z \in BOOLEAN}
AluProbes == [a : 0 .. 99, f : F]

Memories == {[a \in 0 .. MemoryWords - 1 |-> {b \in Bits : (a * a + 3 * b + a * b + k) % 5 < 2}] : k \in 0 .. 1}
Cookie == {1, 3, 6, 7}
Xor    == {1, 3, 5, 6}
Copy   == {4, 5, 6, 7}

AreaProbes ==
  [ash : {0, 1, 3}, bsh : {0, 2}, lf : {Cookie, {2, 3, 4, 5}},
   use : {{"A", "D"}, {"B", "D"}, {"A", "B", "C", "D"}, {"A", "C"}},
   is : {{}, {"DESC"}, {"DESC", "IFE"}, {"DESC", "EFE", "FCI"}, {"IFE", "FCI"}},
   masks : {<<Bits, Bits>>, <<{0, 1, 2}, {1, 3}>>},
   size : {<<1, 1>>, <<2, 2>>, <<1, 3>>, <<0, 0>>}, mod : {-1, 0, 1}, d : {1, 3, 12}, mem : Memories]
AreaSetup(p) ==
  << [reg |-> "BLTCON0", value |-> [ash |-> p.ash, use |-> p.use, lf |-> p.lf]],
     [reg |-> "BLTCON1", value |-> [bsh |-> p.bsh, is |-> p.is]],
     [reg |-> "BLTAFWM", value |-> p.masks[1]], [reg |-> "BLTALWM", value |-> p.masks[2]] >>
  \o [i \in 1 .. 3 |-> [reg |-> "BLTxDAT", of |-> <<"A", "B", "C">>[i], value |-> {i, 0}]]
  \o [i \in 1 .. 4 |-> [reg |-> "BLTxMOD", of |-> <<"A", "B", "C", "D">>[i], value |-> p.mod]]
  \o [i \in 1 .. 4 |-> [reg |-> "BLTxPTL", of |-> <<"A", "B", "C", "D">>[i], value |-> <<2, 6, 9, p.d>>[i] % HalfWords]]
  \o [i \in 1 .. 4 |-> [reg |-> "BLTxPTH", of |-> <<"A", "B", "C", "D">>[i], value |-> <<2, 6, 9, p.d>>[i] \div HalfWords]]
  \o << [reg |-> "BLTSIZE", rows |-> p.size[1], words |-> p.size[2]] >>

LineProbes ==
  {l \in [x : {3, 4}, y : {3}, row : {2}, major : 1 .. 3, minor : 0 .. 3, octant : SUBSET {"SUD", "SUL", "AUL"},
          single : BOOLEAN, bsh : {0, 1}, texture : {Bits, {0, 1}}, lf : {Cookie, Xor}, mem : Memories] :
     l.minor <= l.major}

\* A frame of some mode: the same bitmap, colours and sprites differently shown.
Palette == [i \in 0 .. 31 |-> [r |-> (5 * i) % 16, g |-> i % 16, b |-> i \div 2]]
Modes ==
  {<<bpu, hires, dbl, ham>> \in (2 .. 7) \X BOOLEAN \X BOOLEAN \X BOOLEAN :
     (hires => bpu \in {2, 5}) /\ ~(dbl /\ ham) /\ (ham => bpu >= 5)}
Start(h, k, attached) == [hstart |-> FirstColumn + h, data |-> {0, k}, datb |-> {1, k, k + 1}, attached |-> attached]
SpriteSets ==
  {[n \in 0 .. 7 |-> [starts |-> <<>>, attach |-> n = 1]],
   [n \in 0 .. 7 |-> [starts |-> IF n \in {0, 1, 3} THEN <<Start(n, 1, FALSE)>> ELSE <<>>, attach |-> FALSE]],
   [n \in 0 .. 7 |-> [starts |-> IF n \in {2, 3, 5, 6} THEN <<Start(0, n % 3, n = 3), Start(2, 2, FALSE)>> ELSE <<>>,
                     attach |-> n = 5]]}
ClxCons == {[ensp |-> {}, enbp |-> {}, mvbp |-> {}], [ensp |-> {0, 1}, enbp |-> {0, 1, 3}, mvbp |-> {1}],
         [ensp |-> {1, 2}, enbp |-> {0, 4}, mvbp |-> {0, 4}]}
Nothing == [what |-> "nothing"]
Idle == [v \in FirstRow - 1 .. FirstRow + Rows |-> Nothing]
Busy == [v \in FirstRow - 1 .. FirstRow + Rows |->
            IF v = FirstRow THEN [what |-> "write", con |-> [ensp |-> {0, 2}, enbp |-> {1, 2, 3}, mvbp |-> {2, 3}]]
            ELSE IF v = FirstRow + 1 THEN [what |-> "read"] ELSE Nothing]
Collisions == {<<Idle, con>> : con \in ClxCons} \cup {<<Busy, con>> : con \in ClxCons}
MCBitmaps == {[a \in 0 .. BitmapWords - 1 |-> {b \in 0 .. DmaBits - 1 : (a * a * 7 + 3 * b + a * b + a) % 5 < 2}]}
ScreenProbes ==
  {[memory |-> m, sprites |-> s, does |-> does, clxcon |-> con,
    g |-> [bpu |-> mode[1], hires |-> mode[2], bplen |-> dma[3], ddfstrt |-> ddf[1], ddfstop |-> ddf[2],
           diwstrt |-> [h |-> FirstColumn + 1, v |-> rows[1]], diwstop |-> [h |-> 2, v |-> rows[2]],
           bplpt |-> [p \in 0 .. 5 |-> 3 * p], bplmod |-> dma],
    d |-> [color |-> Palette, bplcon1 |-> <<0, 1>>, clxcon |-> 0, clxdat |-> {}, tables |-> 0, dblpf |-> mode[3],
           homod |-> mode[4], pf1p |-> prio[1], pf2p |-> prio[2], pf2pri |-> prio[3]]] :
     m \in MCBitmaps, s \in SpriteSets, <<does, con>> \in Collisions, mode \in Modes,
     ddf \in {<<117, 121>>, <<120, 123>>}, rows \in {<<FirstRow - 1, 255>>, <<FirstRow + 1, 1>>},
     dma \in {<<0, 0, TRUE>>, <<1, -1, TRUE>>, <<0, 0, FALSE>>},
     prio \in {<<0, 2, FALSE>>, <<4, 1, TRUE>>, <<1, 2, TRUE>>}}

\* Both sides of every border of the map.
Borders == {0, 3, 7, 8, 31, 32, 190, 191, 192, 199, 200, 223, 224, 231, 232, 247, 248, 251, 252, 255}
MCAccesses == {[bytes |-> n, a |-> (b * BankBytes) + k, write |-> w] :
                 n \in {1, 2, 4}, b \in Borders, k \in 0 .. BankBytes - 1, w \in BOOLEAN}

Init == unit = "none" /\ probe = 0 /\ BusInit

Probe(which, inputs) == unit = "none" /\ unit' = which /\ probe' \in inputs /\ UNCHANGED busVars
Probed == unit \notin {"none", "bus"} /\ unit' = "none" /\ probe' = 0 /\ UNCHANGED busVars

Next ==
  \/ Probe("alu", AluProbes)
  \/ Probe("area", AreaProbes)
  \/ Probe("line", LineProbes)
  \/ Probe("screen", ScreenProbes)
  \/ Probed
  \/ unit \in {"none", "bus"} /\ unit' = "bus" /\ BusNext /\ UNCHANGED probe
Spec == Init /\ [][Next]_<<unit, probe, busVars>>

\* Arithmetic, shifts, multiplication, division and BCD of the 68000, with their flags, and DBcc's count are what
\* the mathematics of the operands says, at every operand (the op_ and helper functions of cpu68000.cpp).
AluRight == unit = "alu" => AluIsArithmetic(probe.a, 3, probe.f)

\* An area blit (run_area) combines and moves each channel as one string of bits, whatever the masks, shifts,
\* modulos and direction; a line (run_line) draws the points of Bresenham's line with the texture, and no others.
BlitsRight ==
  /\ unit = "area" => AreaRight(Programmed(AreaSetup(probe)), probe.mem)
  /\ unit = "line" => LineRight(probe, probe.mem)

\* The pixels of a frame (Agnus::fetch_line, Denise::render_line) show the bitmap and the sprites in front as the
\* mode says, and CLXDAT what has touched under the CLXCON of its line.
ScreenShowsBitmap == unit = "screen" => ScreenRight(probe)
=============================================================================
