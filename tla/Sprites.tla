------------------------------ MODULE Sprites ------------------------------
(***************************************************************************)
(* The hardware sprites (sprites.hpp), driven by Chipset::tick: their DMA,  *)
(* and the display of a line by replaying the log of the register writes    *)
(* made during it.  The CPU, or the Copper, writes between color clocks.    *)
(*                                                                         *)
(* Chip RAM is addressed in pairs of words.  A pair of data words is named  *)
(* by its address; a control pair is any, as software may rewrite it.       *)
(***************************************************************************)
EXTENDS Integers, Sequences

CONSTANTS
  SpriteCount,       (* kCount: 8.                                         *)
  LineClocks, Lines, (* 227 by 313.                                        *)
  FirstDmaLine,      (* kFirstDmaLine: 25.                                 *)
  DmaHpos,           (* kDmaHpos: $15.                                     *)
  MaxEvents,         (* kMaxEvents: 128 writes logged per line.            *)
  MaxTriggers,       (* kMaxTriggers: 16 starts of a sprite per line.      *)
  RamPairs,          (* Chip RAM; the CPU's own data is named RamPairs.    *)
  V8,                (* 256: the weight of VSTART's bit in CTL.            *)
  PosWords, CtlWords, (* Values of POS and CTL.                            *)
  ControlPairs,      (* What chip RAM holds where sprites fetch them ...   *)
  SpriteWrites          (* ... and what programs write in the registers.      *)

SpriteIds  == 0 .. SpriteCount - 1
SpriteData == 0 .. RamPairs

ASSUME SpritesAssumption ==
  /\ SpriteCount \in Nat \ {0}
  /\ LineClocks \in Nat \ {0} /\ Lines \in Nat \ {0} /\ RamPairs \in Nat \ {0} /\ V8 \in Nat
  /\ FirstDmaLine \in 0 .. Lines - 1 /\ DmaHpos \in 1 .. LineClocks - 2
  /\ MaxEvents \in Nat /\ MaxTriggers \in Nat
  /\ PosWords \subseteq [h : 0 .. 255, v : Nat]
  /\ CtlWords \subseteq [h0 : 0 .. 1, v8 : 0 .. 1, vstop : Nat, attach : BOOLEAN]
  /\ ControlPairs \subseteq [n : SpriteIds, pos : PosWords, ctl : CtlWords]
  /\ SpriteWrites \subseteq ([n : SpriteIds, reg : {"POS"}, value : PosWords]
                          \cup [n : SpriteIds, reg : {"CTL"}, value : CtlWords]
                          \cup [n : SpriteIds, reg : {"DATA", "DATB"}, value : SpriteData]
                          \cup [n : SpriteIds, reg : {"pointer"}, value : 0 .. RamPairs - 1])

VARIABLES
  sprites, line_start, events,
  vpos, hpos,   (* Agnus' beam: the color clock that comes next.           *)
  lost,         (* History: the log of this line was full for a write.     *)
  seen,         (* History: the starts the beam has come to on this line.  *)
  image         (* History, per sprite: the address after its control pair, *)
                (* fetched in this frame and undisturbed since, or -1.     *)

spriteVars == <<sprites, line_start, events, vpos, hpos, lost, seen, image>>

hstart(s) == 2 * s.pos.h + s.ctl.h0
vstart(s) == s.pos.v + V8 * s.ctl.v8

-----------------------------------------------------------------------------
(* Registers and their log.  g is [sprites, events, lost].                 *)

\* apply: CTL disarms, DATA arms.
apply(s, reg, value) ==
  CASE reg = "POS"  -> [s EXCEPT !.pos = value]
    [] reg = "CTL"  -> [s EXCEPT !.ctl = value, !.armed = FALSE]
    [] reg = "DATA" -> [s EXCEPT !.data = value, !.armed = TRUE]
    [] reg = "DATB" -> [s EXCEPT !.datb = value]

set(g, n, reg, value) ==
  LET full == Len(g.events) >= MaxEvents
  IN [sprites |-> [g.sprites EXCEPT ![n] = apply(@, reg, value)],
      events  |-> IF full THEN g.events
                  ELSE Append(g.events, [hpos |-> hpos, sprite |-> n, reg |-> reg, value |-> value]),
      lost    |-> g.lost \/ full]

-----------------------------------------------------------------------------
(* DMA.  control is the pair of words at the sprite's pointer.             *)

Advance(g, n) == [g EXCEPT !.sprites[n].pointer = (@ + 1) % RamPairs]

fetch_control(g, n, control) ==
  LET f == Advance(set(set(g, n, "POS", control.pos), n, "CTL", control.ctl), n)
      s == f.sprites[n]
  IN [f EXCEPT !.sprites[n].dma = IF s.ctl.vstop > vstart(s) THEN "WaitStart" ELSE "Idle"]

fetch_data(g, n) ==
  LET p == g.sprites[n].pointer
  IN Advance(set(set(g, n, "DATB", p), n, "DATA", p), n)

Begun(g, n) ==
  LET s == g.sprites[n]
  IN IF s.dma = "WaitStart" /\ vpos = vstart(s) THEN [g EXCEPT !.sprites[n].dma = "Active"] ELSE g

\* A mutant: one line late.
EndsLate(g, n) == g.sprites[n].dma = "Active" /\ vpos > g.sprites[n].ctl.vstop

Ends(g, n) == g.sprites[n].dma = "Active" /\ vpos = g.sprites[n].ctl.vstop

\* dma_line, for one sprite.
SpriteDma(g, n, control) ==
  LET restarted == IF vpos = FirstDmaLine THEN fetch_control(g, n, control) ELSE g
      begun     == Begun(restarted, n)
      chained   == IF Ends(begun, n) THEN Begun(fetch_control(begun, n, control), n) ELSE begun
  IN IF chained.sprites[n].dma = "Active" THEN fetch_data(chained, n) ELSE chained

FetchesControl(g, n) == vpos = FirstDmaLine \/ Ends(Begun(g, n), n)

\* One sprite after the other.
dma_line(g, controls) ==
  LET after[n \in 0 .. SpriteCount] ==
        IF n = 0 THEN g ELSE SpriteDma(after[n - 1], n - 1, controls[n - 1])
  IN  after[SpriteCount]

-----------------------------------------------------------------------------
(* The display of a line: triggers() and active_on_line().                 *)

active_on_line == events # <<>> \/ \E n \in SpriteIds : line_start[n].armed

Trigger(s) == [hstart |-> hstart(s), data |-> s.data, datb |-> s.datb, attached |-> s.ctl.attach]

\* The start, if any, before the next event; the beam has passed r.position.
Start(r, ends) ==
  LET h == hstart(r.state)
  IN IF r.state.armed /\ h >= r.position /\ h < ends
       THEN [r EXCEPT !.position = h + 1,
                      !.out = IF Len(@) < MaxTriggers THEN Append(@, Trigger(r.state)) ELSE @]
       ELSE r

\* A mutant: the beam does not get to where the event is.
ApplyEventInPlace(r, e) == [Start(r, 2 * e.hpos) EXCEPT !.state = apply(@, e.reg, e.value)]

ApplyEvent(r, e) ==
  LET s == Start(r, 2 * e.hpos)
  IN [s EXCEPT !.position = IF 2 * e.hpos > @ THEN 2 * e.hpos ELSE @,
               !.state = apply(@, e.reg, e.value)]

\* ~0u in the code, no next event: HSTART, of nine bits, is always before it.
\* It may be past the line all the same, where a beam never comes.
Never == 512

\* The line up to the last event of sprite n.
Replay(n, start, log) ==
  LET after[k \in 0 .. Len(log)] ==
        IF k = 0 THEN [state |-> start[n], position |-> 0, out |-> <<>>]
        ELSE IF log[k].sprite = n THEN ApplyEvent(after[k - 1], log[k]) ELSE after[k - 1]
  IN  after[Len(log)]

triggers(n, start, log) == Start(Replay(n, start, log), Never).out

-----------------------------------------------------------------------------
(* Steps.                                                                  *)

WriteSprite(w) ==
  /\ image' = [image EXCEPT ![w.n] = -1]
  /\ IF w.reg = "pointer"
       THEN /\ sprites' = [sprites EXCEPT ![w.n].pointer = w.value]
            /\ UNCHANGED <<events, lost>>
       ELSE LET g == set([sprites |-> sprites, events |-> events, lost |-> lost], w.n, w.reg, w.value)
            IN sprites' = g.sprites /\ events' = g.events /\ lost' = g.lost
  /\ UNCHANGED <<line_start, vpos, hpos, seen>>

\* The beam passes the two lowres positions of this color clock.
Passed(n, s, before) ==
  before \o (IF s.armed /\ hstart(s) \in {2 * hpos, 2 * hpos + 1} THEN <<Trigger(s)>> ELSE <<>>)

\* Chipset::tick's part for the sprites, the beam's move included.
SpritesTick(enabled) ==
  LET begin == hpos = 0
      g     == [sprites |-> sprites, events |-> IF begin THEN <<>> ELSE events,
                lost |-> lost /\ ~begin]
      dma   == hpos = DmaHpos /\ enabled /\ vpos >= FirstDmaLine
      last  == hpos = LineClocks - 1
      newFrame == last /\ vpos = Lines - 1
      fetching == {n \in SpriteIds : dma /\ FetchesControl(g, n)}
  IN \E controls \in [fetching -> ControlPairs] :
       LET done == IF dma THEN dma_line(g, controls) ELSE g
       IN /\ \A n \in fetching : controls[n].n = n
          /\ sprites' = done.sprites /\ events' = done.events /\ lost' = done.lost
          /\ line_start' = IF begin THEN sprites ELSE line_start
          /\ seen' = [n \in SpriteIds |-> Passed(n, done.sprites[n], IF begin THEN <<>> ELSE seen[n])]
          /\ image' = [n \in SpriteIds |->
                         IF newFrame \/ (hpos = DmaHpos /\ ~dma) THEN -1
                         ELSE IF n \in fetching THEN (sprites[n].pointer + 1) % RamPairs
                         ELSE image[n]]
          /\ hpos' = IF last THEN 0 ELSE hpos + 1
          /\ vpos' = IF newFrame THEN 0 ELSE IF last THEN vpos + 1 ELSE vpos

SpritesInit ==
  /\ sprites \in {[n \in SpriteIds |->
                     [pointer |-> 0, pos |-> [h |-> 0, v |-> 0],
                      ctl |-> [h0 |-> 0, v8 |-> 0, vstop |-> 0, attach |-> FALSE],
                      data |-> 0, datb |-> 0, armed |-> FALSE, dma |-> "Idle"]]}
  /\ line_start = sprites /\ events = <<>>
  /\ vpos = 0 /\ hpos = 0 /\ lost = FALSE
  /\ seen = [n \in SpriteIds |-> <<>>] /\ image = [n \in SpriteIds |-> -1]

SpritesNext == (\E w \in SpriteWrites : WriteSprite(w)) \/ \E enabled \in BOOLEAN : SpritesTick(enabled)
SpritesSpec == SpritesInit /\ [][SpritesNext]_spriteVars

-----------------------------------------------------------------------------
(* Properties.                                                             *)

\* The starts that fit.
Fitting(starts) == SubSeq(starts, 1, IF Len(starts) < MaxTriggers THEN Len(starts) ELSE MaxTriggers)

\* The start past the line that the replay of sprite s ends with, if any.
Stray(s) == IF s.armed /\ hstart(s) >= 2 * LineClocks THEN <<Trigger(s)>> ELSE <<>>

\* A line shows what a beam that meets the registers as they are at each
\* position would show, however often they are rewritten: sprites moved ahead
\* of the beam show again, those moved behind it do not, and each start has
\* the data of its moment.  A sprite left armed with an HSTART past the line
\* adds that start, and it comes last: no column shows it (NoStartUnmet has
\* what it does).  Only a line that overflowed the log is excused, and the
\* line after it is exact again.
LineShowsWhatTheBeamMeets ==
  [][hpos = LineClocks - 1 /\ vpos' # vpos /\ ~lost' =>
       \A n \in SpriteIds :
         (IF active_on_line THEN triggers(n, line_start', events') ELSE <<>>)
         = Fitting(seen'[n] \o Stray(sprites'[n]))]_spriteVars

\* Violated.  sprites.hpp:32-33: a trigger is when the beam reaches HSTART.  An
\* armed sprite whose HSTART is past the line has one as well, and its ATTACH
\* is then looked at for the whole line (is_attached, denise.cpp:71-77).
NoStartUnmet ==
  [][hpos = LineClocks - 1 /\ vpos' # vpos /\ ~lost' =>
       \A n \in SpriteIds : active_on_line =>
         \A k \in 1 .. Len(triggers(n, line_start', events')) :
           triggers(n, line_start', events')[k].hstart < 2 * LineClocks]_spriteVars

\* Between its control pair's fetch and VSTOP, a sprite that software leaves
\* alone shows the pair of words that belongs to the line; past VSTOP it
\* fetches no data.  Rewriting VSTOP, or switching DMA off, can break this for
\* a frame at most: the pair fetched on the first DMA line restores it.
ImageInPlace ==
  \A n \in SpriteIds :
    LET s    == sprites[n]
        line == IF hpos > DmaHpos THEN vpos ELSE vpos - 1
        row  == line - vstart(s)
    IN image[n] # -1 /\ s.dma = "Active" =>
         /\ row >= 0 /\ line < s.ctl.vstop
         /\ s.armed /\ s.data = (image[n] + row) % RamPairs /\ s.datb = s.data
         /\ s.pointer = (image[n] + row + 1) % RamPairs
=============================================================================
