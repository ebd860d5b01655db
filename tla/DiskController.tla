--------------------------- MODULE DiskController ---------------------------
(***************************************************************************)
(* Paula's disk controller (disk_controller.hpp) as tick_chipset of        *)
(* machine.cpp feeds it: per color clock at most one word off the turning  *)
(* disk, and with the turbo one more while a transfer runs.  A word is     *)
(* shifted in bit by bit, each bit a step of its own during which nothing  *)
(* else moves; whether the last bits equal DSKSYNC is the disk's choice.   *)
(***************************************************************************)
EXTENDS Integers

CONSTANTS
  WordBits,     (* Bits of a word (16).                                    *)
  MaxLength,    (* Largest length DSKLEN holds ($3FFF).                    *)
  RamWords,     (* Words of chip RAM the pointer wraps at.                 *)
  WarpHold      (* kWarpHoldFrames.                                        *)

ASSUME DiskControllerAssumption ==
  /\ WordBits \in Nat \ {0} /\ RamWords \in Nat \ {0}
  /\ MaxLength \in Nat /\ WarpHold \in Nat

VARIABLES
  armed,               (* DSKLEN was written once with DMAEN.              *)
  active,              (* A transfer runs,                                 *)
  waiting,             (* but stores nothing before the sync word.         *)
  remaining,           (* Words it has still to store,                     *)
  pointer,             (* the next one here.                               *)
  bits,                (* Bits since the last word boundary.               *)
  byteReady, wordEqual (* DSKBYTR's status bits.                           *)

VARIABLES
  wordSync,            (* ADKCON WORDSYNC.                                 *)
  dmaEnabled,          (* DMACON DSKEN, with the master bit.               *)
  blk                  (* INTREQ DSKBLK.                                   *)

VARIABLES              (* Machine::tick_chipset:                           *)
  phase,               (* "cpu", or "clock" between the two feeds.         *)
  left,                (* Bits left of the word being shifted in.          *)
  seen, quiet          (* A transfer ran, this many frames ago (capped).   *)

VARIABLES              (* History of the transfer last started:            *)
  asked, stored,       (* Words it was to store, and has.                  *)
  synced,              (* Sync passed since, or it did not wait for it.    *)
  sinceSync            (* Bits since a sync under WORDSYNC, modulo a word; *)
                       (* -1 when WORDSYNC has been switched since.        *)

transfer == <<armed, active, waiting, remaining>>
status   == <<byteReady, wordEqual>>
switches == <<wordSync, dmaEnabled>>
machine  == <<phase, left, seen, quiet>>
history  == <<asked, stored, synced, sinceSync>>
vars     == <<transfer, pointer, bits, status, switches, blk, machine, history>>

Init ==
  /\ armed = FALSE /\ active = FALSE /\ waiting = FALSE
  /\ remaining = 0 /\ pointer = 0 /\ bits = 0
  /\ byteReady = FALSE /\ wordEqual = FALSE
  /\ wordSync = FALSE /\ dmaEnabled = FALSE /\ blk = FALSE
  /\ phase = "cpu" /\ left = 0 /\ seen = FALSE /\ quiet = 0
  /\ asked = 0 /\ stored = 0 /\ synced = TRUE /\ sinceSync = -1

\* Between two color clocks, with the last word shifted in.
AtRest == phase = "cpu" /\ left = 0

-----------------------------------------------------------------------------
(* The program: register accesses between color clocks.                    *)

\* write_dsklen: DMAEN clear stops; the first write with it arms.
ZeroRuns(write, length) == ~write  \* a mutant: a length of 0 starts a transfer
Runs(write, length)     == ~write /\ length # 0

WaitsNever(on) == FALSE  \* a mutant: a transfer starts without the wait
Waits(on)      == on

StopTransfer ==
  /\ active' = FALSE /\ armed' = FALSE
  /\ UNCHANGED <<waiting, remaining, blk, history>>

ArmTransfer ==
  /\ ~armed
  /\ armed' = TRUE
  /\ UNCHANGED <<active, waiting, remaining, blk, history>>

\* The second write: a write or an empty transfer ends at once.
StartTransfer(write, length) ==
  /\ armed
  /\ armed' = FALSE
  /\ remaining' = length
  /\ active' = Runs(write, length)
  /\ IF Runs(write, length)
     THEN waiting' = Waits(wordSync) /\ UNCHANGED blk
     ELSE blk' = TRUE /\ UNCHANGED waiting
  /\ asked' = (IF write THEN 0 ELSE length)
  /\ stored' = 0
  /\ synced' = ~wordSync
  /\ UNCHANGED sinceSync

WriteDskLen ==
  /\ AtRest
  /\ \/ StopTransfer
     \/ ArmTransfer
     \/ \E write \in BOOLEAN, length \in 0 .. MaxLength : StartTransfer(write, length)
  /\ UNCHANGED <<pointer, bits, status, switches, machine>>

WriteAdkCon(on) ==
  /\ AtRest
  /\ wordSync' = on
  /\ sinceSync' = IF on = wordSync THEN sinceSync ELSE -1
  /\ UNCHANGED <<transfer, pointer, bits, status, dmaEnabled, blk, machine, asked, stored, synced>>

WriteDmaCon ==
  /\ AtRest
  /\ dmaEnabled' = ~dmaEnabled
  /\ UNCHANGED <<transfer, pointer, bits, status, wordSync, blk, machine, history>>

WriteDskPt(word) ==
  /\ AtRest
  /\ pointer' = word
  /\ UNCHANGED <<transfer, bits, status, switches, blk, machine, history>>

\* INTREQ with SET/CLR clear.
ClearDskBlk ==
  /\ AtRest /\ blk
  /\ blk' = FALSE
  /\ UNCHANGED <<transfer, pointer, bits, status, switches, machine, history>>

ReadDskBytR ==
  /\ AtRest /\ byteReady
  /\ byteReady' = FALSE
  /\ UNCHANGED <<transfer, pointer, bits, wordEqual, switches, blk, machine, history>>

-----------------------------------------------------------------------------
(* The color clock.                                                        *)

\* feed_disk(df0.tick()): a word, when the disk turns under a selected drive.
ColorClock(word) ==
  /\ AtRest
  /\ phase' = "clock"
  /\ left' = IF word THEN WordBits ELSE 0
  /\ UNCHANGED <<transfer, pointer, bits, status, switches, blk, seen, quiet, history>>

\* A transfer that runs keeps the front end warping.
StampsAlways == TRUE  \* a mutant: a turning disk alone counts as busy
Reading      == active /\ dmaEnabled

\* feed_disk(df0.next_word()): with the turbo the drive gives one more word.
TurboWord(word) ==
  /\ phase = "clock" /\ left = 0
  /\ phase' = "cpu"
  /\ word => Reading
  /\ left' = IF word THEN WordBits ELSE 0
  /\ IF Reading THEN seen' = TRUE /\ quiet' = 0 ELSE UNCHANGED <<seen, quiet>>
  /\ UNCHANGED <<transfer, pointer, bits, status, switches, blk, history>>

\* store(): DSKBYTR sees every word, DMA those of a running transfer.
LastButOne == remaining = 2  \* a mutant: tested before the word is counted
LastWord   == remaining = 1

Store ==
  /\ byteReady' = TRUE
  /\ IF active /\ dmaEnabled /\ ~waiting
     THEN /\ pointer' = (pointer + 1) % RamWords
          /\ remaining' = remaining - 1
          /\ active' = ~LastWord
          /\ blk' = (blk \/ LastWord)
          /\ stored' = stored + 1
     ELSE UNCHANGED <<pointer, remaining, active, blk, stored>>

NoRealign(match) == bits + 1  \* a mutant: a sync match does not move the boundary
BitsWith(match)  == IF match /\ wordSync THEN WordBits ELSE bits + 1

\* The sync word a transfer waits for ends its wait and is not stored itself.
AwaitedOnBoundary(match) ==  \* a mutant: sync is looked for in whole words only
  match /\ wordSync /\ active /\ waiting /\ bits + 1 = WordBits
Awaited(match) == match /\ wordSync /\ active /\ waiting

\* One bit of disk_word.
Bit(match) ==
  /\ left > 0
  /\ left' = left - 1
  /\ wordEqual' = match
  /\ IF Awaited(match)
     THEN /\ waiting' = FALSE /\ bits' = 0
          /\ UNCHANGED <<active, remaining, pointer, byteReady, blk, stored>>
     ELSE /\ UNCHANGED waiting
          /\ IF BitsWith(match) < WordBits
             THEN /\ bits' = BitsWith(match)
                  /\ UNCHANGED <<active, remaining, pointer, byteReady, blk, stored>>
             ELSE bits' = 0 /\ Store
  /\ synced' = (synced \/ (match /\ wordSync))
  /\ sinceSync' = IF match /\ wordSync THEN 0
                  ELSE IF sinceSync = -1 THEN -1 ELSE (sinceSync + 1) % WordBits
  /\ UNCHANGED <<armed, switches, phase, seen, quiet, asked>>

\* run_frame counts a frame; disk_busy compares with the last one that read.
NextFrame ==
  /\ AtRest
  /\ quiet' = IF seen /\ quiet <= WarpHold THEN quiet + 1 ELSE quiet
  /\ UNCHANGED <<transfer, pointer, bits, status, switches, blk, phase, left, seen, history>>

Busy == seen /\ quiet <= WarpHold

-----------------------------------------------------------------------------

Registers ==
  \/ \E on \in BOOLEAN : WriteAdkCon(on)
  \/ WriteDmaCon
  \/ \E word \in 0 .. RamWords - 1 : WriteDskPt(word)
  \/ ClearDskBlk
  \/ ReadDskBytR

Clock ==
  \/ \E word \in BOOLEAN : ColorClock(word)
  \/ \E word \in BOOLEAN : TurboWord(word)
  \/ \E match \in BOOLEAN : Bit(match)

Next == WriteDskLen \/ Registers \/ Clock \/ NextFrame

Spec == Init /\ [][Next]_vars

\* The chips are always clocked and frames follow one another; the disk turns
\* under a selected drive, and its track has a sync word.
LiveSpec ==
  /\ Spec
  /\ WF_vars(Clock)
  /\ SF_vars(NextFrame)
  /\ SF_vars(ColorClock(TRUE))
  /\ SF_vars(Bit(TRUE))

-----------------------------------------------------------------------------

TypeOK ==
  /\ armed \in BOOLEAN /\ active \in BOOLEAN /\ waiting \in BOOLEAN
  /\ remaining \in 0 .. MaxLength
  /\ pointer \in 0 .. RamWords - 1
  /\ bits \in 0 .. WordBits - 1
  /\ byteReady \in BOOLEAN /\ wordEqual \in BOOLEAN
  /\ wordSync \in BOOLEAN /\ dmaEnabled \in BOOLEAN /\ blk \in BOOLEAN
  /\ phase \in {"cpu", "clock"} /\ left \in 0 .. WordBits
  /\ seen \in BOOLEAN /\ quiet \in 0 .. WarpHold + 1
  /\ asked \in 0 .. MaxLength /\ stored \in 0 .. MaxLength
  /\ synced \in BOOLEAN /\ sinceSync \in -1 .. WordBits - 1

\* Through stops, restarts and DMACON switches, a running transfer has stored
\* exactly the words its length no longer counts: the 16-bit counter is never
\* decremented past zero, which would overwrite all of chip RAM.
TransferIntact == active => remaining > 0 /\ stored + remaining = asked

\* A transfer told to wait for the sync word stores nothing before it passes,
\* whatever the program does to WORDSYNC meanwhile.
NothingBeforeSync == active /\ ~synced => stored = 0

\* While WORDSYNC stays on, word boundaries follow the last sync that passed,
\* across the start and the end of transfers.
Aligned == sinceSync # -1 => bits = sinceSync

\* DSKBLK is requested exactly when a transfer ends of itself, with every word
\* of it stored; a transfer that runs out requests it.
BlkMeansComplete ==
  [][/\ ~blk /\ blk' => ~active' /\ stored' = asked'
     /\ active /\ ~active' => blk' \/ UNCHANGED stored]_vars

\* A transfer ends, once DMA stays enabled, WORDSYNC is not taken away while it
\* waits for the sync word, and the loader lets it run.
TransferEnds ==
  /\ <>[](dmaEnabled /\ (waiting => wordSync))
  /\ <>[][~(active /\ WriteDskLen)]_vars
  => []<>~active

\* The front end's warp ends when transfers do, even if the disk turns for good.
WarpEnds == <>[]~active => <>[]~Busy
=============================================================================
