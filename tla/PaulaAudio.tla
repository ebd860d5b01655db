----------------------------- MODULE PaulaAudio -----------------------------
(***************************************************************************)
(* Paula's audio channels (paula_audio.hpp): DMA from a latched buffer, the *)
(* CPU's own words ("manual" mode), interrupts, and the idle fast path.     *)
(* Registers are written between color clocks.  Volume only scales the      *)
(* output and is left out; a sample is a number.                            *)
(***************************************************************************)
EXTENDS Integers, Sequences

CONSTANTS
  Channels,   (* 0 .. 3 on the chip.                                       *)
  ChipRam,    (* Words of chip RAM.                                        *)
  Wrap,       (* 65536: what a length or a period of 0 stands for.         *)
  Samples,    (* Values of a byte, 0 among them.                           *)
  DmaSets,    (* Sets of channels that DMACON may have on.                 *)
  AudioWrites   (* What programs write: channel, register, value.            *)

Addresses == 0 .. ChipRam - 1
SampleWords == [hi : Samples, lo : Samples]

ASSUME AudioAssumption ==
  /\ ChipRam \in Nat \ {0} /\ Wrap \in Nat \ {0}
  /\ Samples \subseteq Int /\ 0 \in Samples
  /\ \A on \in DmaSets : on \subseteq Channels
  /\ AudioWrites \subseteq ([x : Channels, reg : {"location"}, value : Addresses]
                          \cup [x : Channels, reg : {"length", "period"}, value : 0 .. Wrap - 1]
                          \cup [x : Channels, reg : {"data"}, value : SampleWords])

VARIABLES
  channels, idle,
  requests,   (* The channels that raised their interrupt in the last clock. *)
  sounding    (* History, per channel with DMA on: the buffers announced by  *)
              (* an interrupt and not played to their end, the word of the   *)
              (* first of them that sounds, where it came from, and whether  *)
              (* it began in this clock, as the first since DMA went on.     *)

audioVars == <<channels, idle, requests, sounding>>

NoSound == [buffers |-> <<>>, k |-> 0, from |-> 0, fresh |-> FALSE, first |-> FALSE]

period_of(ch) == IF ch.period = 0 THEN Wrap ELSE ch.period
length_of(ch) == IF ch.length = 0 THEN Wrap ELSE ch.length
Buffer(ch)    == [location |-> ch.location, length |-> length_of(ch)]

-----------------------------------------------------------------------------
(* A channel's clock.  r is [ch, irq, sounding]; word is what chip RAM has   *)
(* at the pointer, any word.                                                 *)

LatchBuffer(ch) == [ch EXCEPT !.pointer = ch.location, !.remaining = length_of(ch)]

start_buffer(r) ==
  [ch |-> LatchBuffer(r.ch), irq |-> TRUE,
   sounding |-> [r.sounding EXCEPT !.buffers = Append(@, Buffer(r.ch))]]

\* History: the next word of the first buffer begins to sound, or, when that
\* has been played, the first word of the next.
WordAfter(s, from) ==
  IF s.k < Head(s.buffers).length THEN [s EXCEPT !.k = @ + 1, !.from = from, !.fresh = TRUE]
  ELSE [s EXCEPT !.buffers = Tail(@), !.k = 1, !.from = from, !.fresh = TRUE]

ReadWord(ch, word) ==
  [ch EXCEPT !.data = word, !.pointer = (@ + 1) % ChipRam, !.remaining = @ - 1]
PlayWord(ch, word) ==
  [ch EXCEPT !.low_byte = FALSE, !.countdown = period_of(ch), !.output = word.hi]

\* A mutant: the count is tested before the word is counted.
FetchPast(r, word) ==
  LET next == [ch |-> ReadWord(r.ch, word), irq |-> r.irq,
               sounding |-> WordAfter(r.sounding, r.ch.pointer)]
      done == IF r.ch.remaining = 0 THEN start_buffer(next) ELSE next
  IN [done EXCEPT !.ch = PlayWord(@, word)]

fetch(r, word) ==
  LET next == [ch |-> ReadWord(r.ch, word), irq |-> r.irq,
               sounding |-> WordAfter(r.sounding, r.ch.pointer)]
      done == IF next.ch.remaining = 0 THEN start_buffer(next) ELSE next
  IN [done EXCEPT !.ch = PlayWord(@, word)]

SwitchOn(ch, word) ==
  fetch(start_buffer([ch |-> [ch EXCEPT !.dma = TRUE, !.manual = FALSE], irq |-> FALSE,
                      sounding |-> [NoSound EXCEPT !.first = TRUE]]), word)

SwitchOff(ch) ==
  [ch |-> [ch EXCEPT !.dma = FALSE, !.output = 0], irq |-> FALSE, sounding |-> NoSound]

\* The second sample of a word, the next word, or the CPU's word once more.
SampleDone(ch, s, word) ==
  LET r == [ch |-> [ch EXCEPT !.countdown = period_of(ch)], irq |-> FALSE, sounding |-> s]
  IN IF ~ch.low_byte THEN [r EXCEPT !.ch.low_byte = TRUE, !.ch.output = ch.data.lo]
     ELSE IF ch.dma THEN fetch(r, word)
     ELSE [r EXCEPT !.ch = PlayWord(ch, ch.data), !.irq = TRUE]

\* The body of tick()'s loop.
Clocked(x, dma, word) ==
  LET ch == channels[x]
      s  == [sounding[x] EXCEPT !.fresh = FALSE, !.first = FALSE]
  IN IF dma /\ ~ch.dma THEN SwitchOn(ch, word)
     ELSE IF ~dma /\ ch.dma THEN SwitchOff(ch)
     ELSE IF ~ch.dma /\ ~ch.manual THEN [ch |-> ch, irq |-> FALSE, sounding |-> s]
     ELSE IF ch.countdown > 1
       THEN [ch |-> [ch EXCEPT !.countdown = @ - 1], irq |-> FALSE, sounding |-> s]
     ELSE SampleDone(ch, s, word)

\* A mutant: the CPU's own word is forgotten.
SilentWithoutDma(ch) == ~ch.dma /\ ch.output = 0

Silent(ch) == ~ch.dma /\ ~ch.manual /\ ch.output = 0

-----------------------------------------------------------------------------
(* Steps.                                                                  *)

\* tick(): on are the channels that DMACON has on, none without its master bit.
AudioTick(on) ==
  IF idle /\ on = {}
    THEN requests' = {} /\ UNCHANGED <<channels, idle, sounding>>
    ELSE \E words \in [on -> SampleWords] :
           LET done == [x \in Channels |-> Clocked(x, x \in on, words[x])]
           IN /\ channels' = [x \in Channels |-> done[x].ch]
              /\ requests' = {x \in Channels : done[x].irq}
              /\ sounding' = [x \in Channels |-> done[x].sounding]
              /\ idle' = \A x \in Channels : Silent(done[x].ch)

\* AUDxDAT with DMA off plays the word at once.
Manual(ch, word) == PlayWord([ch EXCEPT !.data = word, !.manual = TRUE], word)

write_audio(w) ==
  LET ch == channels[w.x]
      manual == w.reg = "data" /\ ~ch.dma
  IN /\ channels' = [channels EXCEPT ![w.x] =
                       CASE w.reg = "location" -> [ch EXCEPT !.location = w.value]
                         [] w.reg = "length"   -> [ch EXCEPT !.length = w.value]
                         [] w.reg = "period"   -> [ch EXCEPT !.period = w.value]
                         [] w.reg = "data"     -> IF manual THEN Manual(ch, w.value)
                                                  ELSE [ch EXCEPT !.data = w.value]]
     /\ idle' = (idle /\ ~manual)
     /\ UNCHANGED <<requests, sounding>>

AudioInit ==
  /\ channels = [x \in Channels |->
                   [location |-> 0, length |-> 0, period |-> 0, data |-> [hi |-> 0, lo |-> 0],
                    pointer |-> 0, remaining |-> 0, countdown |-> 1, output |-> 0,
                    low_byte |-> FALSE, dma |-> FALSE, manual |-> FALSE]]
  /\ idle = TRUE /\ requests = {} /\ sounding = [x \in Channels |-> NoSound]

AudioNext == (\E on \in DmaSets : AudioTick(on)) \/ \E w \in AudioWrites : write_audio(w)
AudioSpec == AudioInit /\ [][AudioNext]_audioVars

-----------------------------------------------------------------------------
(* Properties.                                                             *)

\* The idle fast path is exact: in any clock that takes it, the loop it skips
\* would have changed no channel and raised no interrupt.
IdlePathIsExact ==
  idle => \A x \in Channels, word \in SampleWords :
            LET done == Clocked(x, FALSE, word) IN done.ch = channels[x] /\ ~done.irq

\* With DMA on, whatever software rewrites meanwhile, buffers are played whole
\* and one after the other: each word that sounds is the next of the first
\* buffer announced; a buffer is announced, by an interrupt, when the last word
\* of the one before begins, or DMA, and at no other time.
BuffersPlayWhole ==
  \A x \in Channels :
    LET ch == channels[x]
        s  == sounding[x]
        first == Head(s.buffers)
        last  == s.k = first.length
    IN ch.dma =>
         /\ Len(s.buffers) = IF last THEN 2 ELSE 1
         /\ s.k \in 1 .. first.length
         /\ s.from = (first.location + s.k - 1) % ChipRam
         /\ IF last THEN ch.pointer = s.buffers[2].location /\ ch.remaining = s.buffers[2].length
            ELSE ch.pointer = (s.from + 1) % ChipRam /\ ch.remaining = first.length - s.k
         /\ s.fresh => (x \in requests <=> (last \/ s.first))
=============================================================================
