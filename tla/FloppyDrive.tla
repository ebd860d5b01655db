---------------------------- MODULE FloppyDrive ----------------------------
(***************************************************************************)
(* The drive DF0 (floppy.hpp) and the disk swaps of Machine (machine.hpp,  *)
(* machine.cpp): the program drives the control lines of CIA-B port B, the *)
(* disk turns with the color clock, and the user swaps disks at any time.  *)
(* Lines are given as asserted or not, whatever their electrical level; a  *)
(* word off the disk is named by the disk and the track it was read from.  *)
(***************************************************************************)
EXTENDS Integers

CONSTANTS
  Disks,        (* Disk images the user has.                               *)
  NoDisk,
  Cylinders,    (* kCylinders.                                             *)
  TrackWords,   (* AdfImage::kTrackWords.                                  *)
  WordTime,     (* kHalfColorClocksPerWord.                                *)
  SwapFrames    (* kDiskSwapFrames.                                        *)

ASSUME FloppyDriveAssumption ==
  /\ NoDisk \notin Disks
  /\ Cylinders \in Nat \ {0} /\ TrackWords \in Nat \ {0} /\ SwapFrames \in Nat \ {0}
  /\ WordTime \in Nat /\ WordTime >= 2   \* at most one word per color clock

VARIABLES
  stepLine, selected, motor,  (* /STEP; /SEL0; the latched /MTR.           *)
  cylinder, head,
  changeLatch,                (* /CHNG.                                    *)
  disk,                       (* disk_: what is in the drive.              *)
  track, encoded,             (* The track buffer's content, [disk, track],*)
                              (* and the track it is taken for, or -1.     *)
  position, rotation

VARIABLES
  pending, countdown          (* The disk waiting to go in, and frames.    *)

VARIABLES                     (* What the last color clock produced:       *)
  word, index                 (* a word, [disk, track], or NoWord; /INDEX. *)

VARIABLES                     (* History:                                  *)
  known,                      (* The disk that last reset the latch.       *)
  emptyFrames                 (* Frames ended since a disk was in (capped).*)

lines    == <<stepLine, selected, motor>>
mechanic == <<cylinder, head, position, rotation>>
buffer   == <<track, encoded>>
swap     == <<pending, countdown>>
output   == <<word, index>>
driveVars     == <<lines, mechanic, buffer, changeLatch, disk, swap, output, known, emptyFrames>>

Tracks  == 0 .. 2 * Cylinders - 1
Current == 2 * cylinder + head

NoWord  == [disk |-> NoDisk, track |-> 0]

DriveInit ==
  /\ stepLine = FALSE /\ selected = FALSE /\ motor = FALSE
  /\ cylinder = 0 /\ head = 0 /\ position = 0 /\ rotation = 0
  /\ changeLatch = TRUE /\ disk = NoDisk
  /\ track = NoWord /\ encoded = -1
  /\ pending = NoDisk /\ countdown = 0
  /\ word = NoWord /\ index = FALSE
  /\ known = NoDisk /\ emptyFrames = SwapFrames

Quiet == word' = NoWord /\ index' = FALSE

-----------------------------------------------------------------------------
(* The program: CIA-B port B.                                              *)

SteppedPast(outwards) ==  \* a mutant: no stop on the innermost cylinder
  IF outwards THEN IF cylinder > 0 THEN cylinder - 1 ELSE 0 ELSE cylinder + 1

Stepped(outwards) ==
  IF outwards THEN IF cylinder > 0 THEN cylinder - 1 ELSE 0
  ELSE IF cylinder + 1 < Cylinders THEN cylinder + 1 ELSE cylinder

\* A step resets the latch only when the drive sees a disk.
StepResetsAlways == TRUE  \* a mutant: whether or not a disk is in
StepResets       == disk # NoDisk

\* control(): /MTR is latched on selection, the head moves as /STEP falls.
Control(sel, mtr, stp, out, side) ==
  LET steps == sel /\ stp /\ ~stepLine IN
  /\ motor' = IF sel /\ ~selected THEN mtr ELSE motor
  /\ cylinder' = IF steps THEN Stepped(out) ELSE cylinder
  /\ IF steps /\ StepResets
     THEN changeLatch' = FALSE /\ known' = disk
     ELSE UNCHANGED <<changeLatch, known>>
  /\ head' = IF side THEN 1 ELSE 0
  /\ selected' = sel
  /\ stepLine' = stp
  /\ Quiet
  /\ UNCHANGED <<position, rotation, buffer, disk, swap, emptyFrames>>

-----------------------------------------------------------------------------
(* The color clock.                                                        *)

Spinning == motor /\ disk # NoDisk

\* next_word(): the track is encoded again only when the head left it.
NextWord ==
  /\ position' = (position + 1) % TrackWords
  /\ index' = (position + 1 = TrackWords /\ selected)
  /\ IF selected
     THEN /\ track' = IF Current = encoded THEN track ELSE [disk |-> disk, track |-> Current]
          /\ encoded' = Current
          /\ word' = track'
     ELSE word' = NoWord /\ UNCHANGED buffer

\* tick(): rotation counts half color clocks towards the next word.
Tick ==
  /\ IF ~Spinning THEN Quiet /\ UNCHANGED <<rotation, position, buffer>>
     ELSE IF rotation + 2 < WordTime
     THEN rotation' = rotation + 2 /\ Quiet /\ UNCHANGED <<position, buffer>>
     ELSE rotation' = rotation + 2 - WordTime /\ NextWord
  /\ UNCHANGED <<lines, cylinder, head, changeLatch, disk, swap, known, emptyFrames>>

\* The turbo's extra word, in the same color clock.
NextTurboWord ==
  /\ Spinning
  /\ NextWord
  /\ UNCHANGED <<lines, cylinder, head, rotation, changeLatch, disk, swap, known, emptyFrames>>

-----------------------------------------------------------------------------
(* The user, between frames, and the end of a frame.                       *)

\* FloppyDrive::insert, on the way to the drive that is empty.
KeepEncoded == encoded  \* a mutant: the track buffer outlives its disk
NotEncoded  == -1

PutIn(d) == disk' = d /\ encoded' = NotEncoded /\ UNCHANGED <<track, changeLatch>>

\* FloppyDrive::eject.
Remove ==
  /\ disk' = NoDisk /\ changeLatch' = TRUE
  /\ emptyFrames' = IF disk # NoDisk THEN 0 ELSE emptyFrames

GoesInAnyway == disk = NoDisk  \* a mutant: a swap under way is not looked at
GoesInAtOnce == disk = NoDisk /\ pending = NoDisk

InsertDisk(d) ==
  /\ IF GoesInAtOnce
     THEN PutIn(d) /\ UNCHANGED <<swap, emptyFrames>>
     ELSE /\ Remove
          /\ pending' = d /\ countdown' = SwapFrames
          /\ UNCHANGED buffer
  /\ Quiet
  /\ UNCHANGED <<lines, mechanic, known>>

EjectDisk ==
  /\ Remove
  /\ pending' = NoDisk
  /\ Quiet
  /\ UNCHANGED <<lines, mechanic, buffer, countdown, known>>

\* The end of run_frame.
EndFrame ==
  /\ emptyFrames' = IF disk = NoDisk /\ emptyFrames < SwapFrames THEN emptyFrames + 1 ELSE emptyFrames
  /\ IF pending = NoDisk THEN UNCHANGED <<disk, buffer, changeLatch, swap>>
     ELSE /\ countdown' = countdown - 1
          /\ IF countdown = 1 THEN PutIn(pending) /\ pending' = NoDisk
             ELSE UNCHANGED <<disk, buffer, changeLatch, pending>>
  /\ Quiet
  /\ UNCHANGED <<lines, mechanic, known>>

-----------------------------------------------------------------------------

DriveNext ==
  \/ \E sel, mtr, stp, out, side \in BOOLEAN : Control(sel, mtr, stp, out, side)
  \/ Tick
  \/ NextTurboWord
  \/ \E d \in Disks : InsertDisk(d)
  \/ EjectDisk
  \/ EndFrame

DriveSpec == DriveInit /\ [][DriveNext]_driveVars

Contents == [disk : Disks \cup {NoDisk}, track : Tracks]

DriveTypeOK ==
  /\ stepLine \in BOOLEAN /\ selected \in BOOLEAN /\ motor \in BOOLEAN
  /\ cylinder \in 0 .. Cylinders - 1 /\ head \in {0, 1}
  /\ changeLatch \in BOOLEAN
  /\ disk \in Disks \cup {NoDisk}
  /\ track \in Contents /\ encoded \in Tracks \cup {-1}
  /\ position \in 0 .. TrackWords - 1 /\ rotation \in 0 .. WordTime - 1
  /\ pending \in Disks \cup {NoDisk} /\ countdown \in 0 .. SwapFrames
  /\ word \in Contents /\ index \in BOOLEAN
  /\ known \in Disks \cup {NoDisk} /\ emptyFrames \in 0 .. SwapFrames

\* The word the controller gets was read off the disk that is in the drive and
\* the track the head is on: the track buffer never serves a disk that was taken
\* out or a track the head has left.
FreshWord == word # NoWord => word = [disk |-> disk, track |-> Current]

\* Software that polls /CHNG misses no swap: while the latch is off, the disk in
\* the drive is the one that was in when a step reset it.
NoSwapUnnoticed == ~changeLatch => disk = known /\ disk # NoDisk

\* A disk waiting to go in means an empty drive, which by the time the disk goes
\* in has been empty for SwapFrames ends of frames, however often the user
\* changed the disk meanwhile.
SwapLeavesDriveEmpty ==
  pending # NoDisk => /\ disk = NoDisk
                      /\ countdown > 0
                      /\ emptyFrames + countdown >= SwapFrames
=============================================================================
