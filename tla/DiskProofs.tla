----------------------------- MODULE DiskProofs -----------------------------
(***************************************************************************)
(* Proofs about the two ends of the disk's path: DiskController, for any   *)
(* word, transfer and memory size, and FloppyDrive, for any number of      *)
(* disks, cylinders and words and any length of a swap.                    *)
(***************************************************************************)
EXTENDS DiskController, FloppyDrive, TLAPS

-----------------------------------------------------------------------------
(* DiskController.                                                         *)

\* What keeps a transfer's accounts: it holds with TransferIntact because the
\* counter is tested right after it is decremented.
Accounts == TypeOK /\ TransferIntact

\* store() keeps the accounts of the words it writes.
LEMMA StoreAccounts ==
  ASSUME Accounts, Store, UNCHANGED asked
  PROVE  /\ byteReady' \in BOOLEAN /\ active' \in BOOLEAN /\ blk' \in BOOLEAN
         /\ remaining' \in 0 .. MaxLength /\ stored' \in 0 .. MaxLength
         /\ pointer' \in 0 .. RamWords - 1
         /\ active' => remaining' > 0 /\ stored' + remaining' = asked
<1> USE DiskControllerAssumption DEF Accounts, TypeOK, TransferIntact
<1>1. CASE active /\ dmaEnabled /\ ~waiting
  <2>1. remaining \in 1 .. MaxLength /\ stored + remaining = asked  BY <1>1
  <2>2. (pointer + 1) % RamWords \in 0 .. RamWords - 1  OBVIOUS
  <2>3. remaining' = remaining - 1 /\ stored' = stored + 1 /\ pointer' = (pointer + 1) % RamWords
    BY <1>1 DEF Store
  <2>4. active' = ~LastWord /\ blk' = (blk \/ LastWord) /\ byteReady' = TRUE  BY <1>1 DEF Store
  <2>5. active' => remaining # 1  BY <2>4, Zenon DEF LastWord
  <2>6. active' \in BOOLEAN /\ blk' \in BOOLEAN /\ byteReady' \in BOOLEAN  BY <2>4, Zenon
  <2>7. remaining' \in 0 .. MaxLength /\ stored' \in 0 .. MaxLength  BY <2>1, <2>3
  <2>8. remaining # 1 => remaining' > 0 /\ stored' + remaining' = asked  BY <2>1, <2>3
  <2> QED BY <2>2, <2>3, <2>5, <2>6, <2>7, <2>8
<1>2. CASE ~(active /\ dmaEnabled /\ ~waiting)
  BY <1>2 DEF Store
<1> QED BY <1>1, <1>2

\* The accounts hold after every step.
LEMMA AccountsInductive == Accounts /\ [Next]_vars => Accounts'
<1> SUFFICES ASSUME Accounts, [Next]_vars  PROVE Accounts'
  OBVIOUS
<1> USE DiskControllerAssumption DEF Accounts, TypeOK, TransferIntact
<1>1. CASE WriteDskLen
  <2>1. CASE StopTransfer
    BY <1>1, <2>1 DEF WriteDskLen, StopTransfer, history, status, switches, machine
  <2>2. CASE ArmTransfer
    BY <1>1, <2>2 DEF WriteDskLen, ArmTransfer, history, status, switches, machine
  <2>3. CASE \E write \in BOOLEAN, length \in 0 .. MaxLength : StartTransfer(write, length)
    <3> PICK write \in BOOLEAN, length \in 0 .. MaxLength : StartTransfer(write, length)  BY <2>3
    <3>1. active' = Runs(write, length) /\ remaining' = length /\ stored' = 0 /\ armed' = FALSE
      BY DEF StartTransfer
    <3>2. active' \in BOOLEAN  BY <3>1, Zenon DEF Runs
    <3>3. active' => length # 0 /\ ~write  BY <3>1, Zenon DEF Runs
    <3>4. asked' \in 0 .. MaxLength /\ (~write => asked' = length)  BY DEF StartTransfer
    <3>5. waiting' \in BOOLEAN /\ blk' \in BOOLEAN  BY DEF StartTransfer, Waits
    <3>6. synced' \in BOOLEAN /\ sinceSync' = sinceSync  BY DEF StartTransfer
    <3>7. active' => remaining' > 0 /\ stored' + remaining' = asked'  BY <3>1, <3>3, <3>4
    <3>8. UNCHANGED <<pointer, bits, byteReady, wordEqual, wordSync, dmaEnabled,
                      phase, left, seen, quiet>>
      BY <1>1 DEF WriteDskLen, status, switches, machine
    <3>9. remaining' \in 0 .. MaxLength /\ stored' \in 0 .. MaxLength  BY <3>1
    <3>10. armed' \in BOOLEAN  BY <3>1, Zenon
    <3> QED BY <3>2, <3>4, <3>5, <3>6, <3>7, <3>8, <3>9, <3>10
  <2> QED BY <1>1, <2>1, <2>2, <2>3 DEF WriteDskLen
<1>2. CASE Registers
  <2>1. CASE \E on \in BOOLEAN : WriteAdkCon(on)
    BY <2>1 DEF WriteAdkCon, transfer, status, machine
  <2>2. CASE WriteDmaCon
    BY <2>2 DEF WriteDmaCon, transfer, status, machine, history
  <2>4. CASE ClearDskBlk
    BY <2>4 DEF ClearDskBlk, transfer, status, switches, machine, history
  <2>5. CASE ReadDskBytR
    BY <2>5 DEF ReadDskBytR, transfer, switches, machine, history
  <2>3. CASE \E w \in 0 .. RamWords - 1 : WriteDskPt(w)
    BY <2>3 DEF WriteDskPt, transfer, status, switches, machine, history
  <2> QED BY <1>2, <2>1, <2>2, <2>3, <2>4, <2>5 DEF Registers
<1>3. CASE \E w \in BOOLEAN : ColorClock(w)
  BY <1>3 DEF ColorClock, transfer, status, switches, history
<1>4. CASE \E w \in BOOLEAN : TurboWord(w)
  <2> PICK w \in BOOLEAN : TurboWord(w)  BY <1>4
  <2>1. phase' \in {"cpu", "clock"} /\ left' \in 0 .. WordBits  BY DEF TurboWord
  <2>2. quiet' \in 0 .. WarpHold + 1  BY DEF TurboWord
  <2>3. seen' \in BOOLEAN
    <3>1. seen' = TRUE \/ seen' = seen  BY Zenon DEF TurboWord
    <3> QED BY <3>1
  <2> QED BY <2>1, <2>2, <2>3 DEF TurboWord, transfer, status, switches, history
<1>5. CASE \E match \in BOOLEAN : Bit(match)
  <2> PICK match \in BOOLEAN : Bit(match)  BY <1>5
  <2>1. /\ left' \in 0 .. WordBits /\ wordEqual' \in BOOLEAN /\ synced' \in BOOLEAN
        /\ UNCHANGED <<armed, wordSync, dmaEnabled, phase, seen, quiet, asked>>
    BY DEF Bit, switches
  <2>2. sinceSync' \in -1 .. WordBits - 1
    <3>1. sinceSync # -1 => (sinceSync + 1) % WordBits \in 0 .. WordBits - 1  OBVIOUS
    <3> QED BY <3>1 DEF Bit
  <2>3. CASE Awaited(match)
    <3>1. bits' = 0 /\ waiting' = FALSE /\ UNCHANGED <<active, remaining, pointer, byteReady, blk, stored>>
      BY <2>3, Zenon DEF Bit
    <3>2. bits' \in 0 .. WordBits - 1  BY <3>1
    <3>3. waiting' \in BOOLEAN  BY <3>1, Zenon
    <3>4. active' => remaining' > 0 /\ stored' + remaining' = asked'  BY <2>1, <3>1
    <3> QED BY <2>1, <2>2, <3>1, <3>2, <3>3, <3>4
  <2>4. CASE ~Awaited(match) /\ BitsWith(match) < WordBits
    BY <2>1, <2>2, <2>4 DEF Bit, BitsWith
  <2>5. CASE ~Awaited(match) /\ ~(BitsWith(match) < WordBits)
    <3>1. bits' = 0 /\ Store /\ waiting' = waiting  BY <2>5 DEF Bit
    <3> QED BY <2>1, <2>2, <3>1, StoreAccounts
  <2> QED BY <2>3, <2>4, <2>5
<1>6. CASE NextFrame
  BY <1>6 DEF NextFrame, transfer, status, switches, history
<1>7. CASE UNCHANGED vars
  BY <1>7 DEF vars, transfer, status, switches, machine, history
<1> QED BY <1>1, <1>2, <1>3, <1>4, <1>5, <1>6, <1>7 DEF Next, Clock

\* Initially no transfer runs.
LEMMA AccountsInitially == Init => Accounts
<1> SUFFICES ASSUME Init  PROVE Accounts
  OBVIOUS
<1>1. /\ remaining \in 0 .. MaxLength /\ pointer \in 0 .. RamWords - 1 /\ bits \in 0 .. WordBits - 1
      /\ left \in 0 .. WordBits /\ quiet \in 0 .. WarpHold + 1
      /\ asked \in 0 .. MaxLength /\ stored \in 0 .. MaxLength /\ sinceSync \in -1 .. WordBits - 1
  BY DiskControllerAssumption DEF Init
<1>2. ~active /\ phase \in {"cpu", "clock"}  BY DEF Init
<1>3. /\ armed \in BOOLEAN /\ active \in BOOLEAN /\ waiting \in BOOLEAN
      /\ byteReady \in BOOLEAN /\ wordEqual \in BOOLEAN
      /\ wordSync \in BOOLEAN /\ dmaEnabled \in BOOLEAN /\ blk \in BOOLEAN
      /\ seen \in BOOLEAN /\ synced \in BOOLEAN
  BY Zenon DEF Init
<1> QED BY <1>1, <1>2, <1>3 DEF Accounts, TypeOK, TransferIntact

LEMMA AccountsHold == Spec => []Accounts
BY AccountsInitially, AccountsInductive, PTL DEF Spec

\* The controller's state keeps its types.
THEOREM TypeCorrect == Spec => []TypeOK
<1>1. Accounts => TypeOK  BY DEF Accounts
<1> QED BY <1>1, AccountsHold, PTL

\* A running transfer has stored exactly what its length no longer counts, so
\* the counter never wraps, for any length and word size.
THEOREM TransferSafe == Spec => []TransferIntact
<1>1. Accounts => TransferIntact  BY DEF Accounts
<1> QED BY <1>1, AccountsHold, PTL

\* NothingBeforeSync is inductive once it says why: such a transfer still waits.
StillWaits == active /\ ~synced => waiting /\ stored = 0

\* A transfer told to wait for the sync word stores nothing before it passes.
THEOREM NothingBeforeSyncSafe == Spec => []NothingBeforeSync
<1>1. Init => StillWaits  BY Zenon DEF Init, StillWaits
<1>2. ASSUME Accounts, StillWaits, [Next]_vars  PROVE StillWaits'
  <2> USE <1>2 DEF Accounts, TypeOK, StillWaits
  <2>1. CASE WriteDskLen
    <3>1. CASE StopTransfer
      BY <3>1, Zenon DEF StopTransfer
    <3>2. CASE ArmTransfer
      BY <3>2, Zenon DEF ArmTransfer, history
    <3>3. CASE \E write \in BOOLEAN, length \in 0 .. MaxLength : StartTransfer(write, length)
      BY <3>3, Zenon DEF StartTransfer, Waits
    <3> QED BY <2>1, <3>1, <3>2, <3>3 DEF WriteDskLen
  <2>2. CASE Registers
    BY <2>2, Zenon DEF Registers, WriteAdkCon, WriteDmaCon, WriteDskPt, ClearDskBlk, ReadDskBytR,
                       transfer, history
  <2>3. CASE \E w \in BOOLEAN : ColorClock(w) \/ TurboWord(w)
    <3>1. UNCHANGED <<transfer, history>>  BY <2>3, Zenon DEF ColorClock, TurboWord
    <3> QED BY <3>1, Zenon DEF transfer, history
  <2>4. CASE \E match \in BOOLEAN : Bit(match)
    BY <2>4, Zenon DEF Bit, Awaited, Store
  <2>5. CASE NextFrame
    BY <2>5, Zenon DEF NextFrame, transfer, history
  <2>6. CASE UNCHANGED vars
    BY <2>6, Zenon DEF vars, transfer, history
  <2> QED BY <1>2, <2>1, <2>2, <2>3, <2>4, <2>5, <2>6 DEF Next, Clock
<1>3. StillWaits => NothingBeforeSync  BY DEF StillWaits, NothingBeforeSync
<1> QED BY <1>1, <1>2, <1>3, AccountsHold, PTL DEF Spec

\* Word boundaries follow the last sync that passed under WORDSYNC.
THEOREM AlignedSafe == Spec => []Aligned
<1>1. Init => Aligned  BY DEF Init, Aligned
<1>2. ASSUME Accounts, Aligned, [Next]_vars  PROVE Aligned'
  <2> USE <1>2, DiskControllerAssumption DEF Accounts, TypeOK, Aligned
  <2>1. CASE WriteDskLen
    BY <2>1 DEF WriteDskLen, StopTransfer, ArmTransfer, StartTransfer, history
  <2>2. CASE Registers
    BY <2>2 DEF Registers, WriteAdkCon, WriteDmaCon, WriteDskPt, ClearDskBlk, ReadDskBytR, history
  <2>3. CASE \E w \in BOOLEAN : ColorClock(w) \/ TurboWord(w)
    BY <2>3 DEF ColorClock, TurboWord, history
  <2>4. CASE \E match \in BOOLEAN : Bit(match)
    <3> PICK match \in BOOLEAN : Bit(match)  BY <2>4
    <3>1. CASE match /\ wordSync
      <4>1. bits' = 0
        <5>1. BitsWith(match) = WordBits  BY <3>1 DEF BitsWith
        <5>2. ~(BitsWith(match) < WordBits)  BY <5>1
        <5> QED BY <5>2, Zenon DEF Bit
      <4>2. sinceSync' = 0  BY <3>1 DEF Bit
      <4> QED BY <4>1, <4>2
    <3>2. CASE ~(match /\ wordSync)
      <4>1. sinceSync' = IF sinceSync = -1 THEN -1 ELSE (sinceSync + 1) % WordBits
        BY <3>2 DEF Bit
      <4>2. ~Awaited(match)  BY <3>2 DEF Awaited
      <4>3. BitsWith(match) = bits + 1  BY <3>2 DEF BitsWith
      <4>4. bits' = IF bits + 1 < WordBits THEN bits + 1 ELSE 0  BY <4>2, <4>3 DEF Bit
      <4>5. (bits + 1) % WordBits = IF bits + 1 < WordBits THEN bits + 1 ELSE 0  OBVIOUS
      <4> QED BY <4>1, <4>4, <4>5
    <3> QED BY <3>1, <3>2
  <2>5. CASE NextFrame
    BY <2>5 DEF NextFrame, history
  <2>6. CASE UNCHANGED vars
    BY <2>6 DEF vars, history
  <2> QED BY <1>2, <2>1, <2>2, <2>3, <2>4, <2>5, <2>6 DEF Next, Clock
<1> QED BY <1>1, <1>2, AccountsHold, PTL DEF Spec

\* DSKBLK is requested exactly when a transfer ends of itself, complete.
THEOREM BlkSafe == Spec => BlkMeansComplete
<1> DEFINE Complete == /\ ~blk /\ blk' => ~active' /\ stored' = asked'
                       /\ active /\ ~active' => blk' \/ UNCHANGED stored
<1>1. ASSUME Accounts, [Next]_vars  PROVE [Complete]_vars
  <2> USE <1>1 DEF Accounts, TypeOK
  <2>1. CASE WriteDskLen
    <3>1. CASE StopTransfer
      BY <3>1, Zenon DEF StopTransfer, history
    <3>2. CASE ArmTransfer
      BY <3>2, Zenon DEF ArmTransfer
    <3>3. CASE \E write \in BOOLEAN, length \in 0 .. MaxLength : StartTransfer(write, length)
      <4> PICK write \in BOOLEAN, length \in 0 .. MaxLength : StartTransfer(write, length)  BY <3>3
      <4>1. CASE Runs(write, length)
        BY <4>1, Zenon DEF StartTransfer
      <4>2. CASE ~Runs(write, length)
        <5>1. blk' /\ ~active'  BY <4>2, Zenon DEF StartTransfer
        <5>2. stored' = 0 /\ asked' = IF write THEN 0 ELSE length  BY DEF StartTransfer
        <5>3. ~write => length = 0  BY <4>2 DEF Runs
        <5> QED BY <5>1, <5>2, <5>3
      <4> QED BY <4>1, <4>2
    <3> QED BY <2>1, <3>1, <3>2, <3>3 DEF WriteDskLen
  <2>2. CASE Registers
    BY <2>2, Zenon DEF Registers, WriteAdkCon, WriteDmaCon, WriteDskPt, ClearDskBlk, ReadDskBytR,
                       transfer
  <2>3. CASE \E w \in BOOLEAN : ColorClock(w) \/ TurboWord(w)
    BY <2>3, Zenon DEF ColorClock, TurboWord, transfer
  <2>4. CASE \E match \in BOOLEAN : Bit(match)
    <3>1. CASE UNCHANGED <<active, blk>>
      BY <3>1, Zenon
    <3>2. CASE ~UNCHANGED <<active, blk>>
      <4>1. active /\ dmaEnabled /\ ~waiting /\ Store /\ UNCHANGED asked
        BY <2>4, <3>2, Zenon DEF Bit, Store
      <4>2. active' = ~LastWord /\ blk' = (blk \/ LastWord)  BY <4>1, Zenon DEF Store
      <4>3. LastWord  BY <3>2, <4>1, <4>2 DEF TypeOK
      <4>4. stored' = stored + 1 /\ remaining = 1 /\ asked' = asked
        BY <4>1, <4>3 DEF Store, LastWord
      <4>5. stored' = asked'  BY <4>1, <4>4 DEF TransferIntact
      <4> QED BY <4>2, <4>3, <4>5, Zenon
    <3> QED BY <3>1, <3>2
  <2>5. CASE NextFrame
    BY <2>5, Zenon DEF NextFrame, transfer
  <2>6. CASE UNCHANGED vars
    BY <2>6
  <2> QED BY <1>1, <2>1, <2>2, <2>3, <2>4, <2>5, <2>6 DEF Next, Clock
<1> QED BY <1>1, AccountsHold, PTL DEF Spec, BlkMeansComplete

-----------------------------------------------------------------------------
(* FloppyDrive.                                                            *)

\* The cache behind FreshWord: with a disk in, the buffer holds the track it is
\* taken for, read off that disk.
CacheIsCurrent ==
  /\ disk # NoDisk /\ encoded # -1 => track = [disk |-> disk, track |-> encoded]
  /\ word # NoWord => word = [disk |-> disk, track |-> Current]

\* Values the steps assign.
LEMMA NoWordTyped == NoWord \in Contents /\ 0 \in 0 .. SwapFrames /\ SwapFrames \in 0 .. SwapFrames
<1>1. 0 \in Tracks  BY FloppyDriveAssumption DEF Tracks
<1> QED BY <1>1, FloppyDriveAssumption DEF NoWord, Contents

\* A step without a word off the disk.
LEMMA QuietTypes ==
  ASSUME Quiet
  PROVE  word' \in Contents /\ index' \in BOOLEAN
BY NoWordTyped DEF Quiet

LEMMA TracksOfHeads ==
  ASSUME NEW c \in 0 .. Cylinders - 1, NEW h \in {0, 1}
  PROVE  2 * c + h \in Tracks
BY FloppyDriveAssumption DEF Tracks

\* The position after a word passed under the head.
LEMMA NextPosition ==
  ASSUME NEW p \in 0 .. TrackWords - 1
  PROVE  (p + 1) % TrackWords \in 0 .. TrackWords - 1
BY FloppyDriveAssumption

\* next_word() keeps the types it writes.
LEMMA NextWordTypes ==
  ASSUME DriveTypeOK, NextWord
  PROVE  /\ position' \in 0 .. TrackWords - 1 /\ index' \in BOOLEAN
         /\ track' \in Contents /\ encoded' \in Tracks \cup {-1} /\ word' \in Contents
<1> USE DEF DriveTypeOK, NextWord, buffer
<1>1. position' \in 0 .. TrackWords - 1  BY NextPosition
<1>2. index' \in BOOLEAN  OBVIOUS
<1>3. Current \in Tracks  BY TracksOfHeads DEF Current
<1>4. NoWord \in Contents  BY NoWordTyped
<1>5. track' \in Contents  BY <1>3 DEF Contents
<1>6. encoded' \in Tracks \cup {-1}  BY <1>3
<1>7. word' \in Contents  BY <1>4, <1>5
<1> QED BY <1>1, <1>2, <1>5, <1>6, <1>7

\* Types and swaps are one invariant: the countdown stays in range because it is
\* positive while a disk is pending.
LEMMA TypesAndSwaps == DriveSpec => [](DriveTypeOK /\ SwapLeavesDriveEmpty)
<1>0. NoWord \in Contents /\ 0 \in 0 .. SwapFrames /\ SwapFrames \in 0 .. SwapFrames  BY NoWordTyped
<1>1. ASSUME DriveInit  PROVE DriveTypeOK
  <2>1. cylinder \in 0 .. Cylinders - 1 /\ position \in 0 .. TrackWords - 1 /\ rotation \in 0 .. WordTime - 1
    BY <1>1, FloppyDriveAssumption DEF DriveInit
  <2>2. countdown \in 0 .. SwapFrames /\ emptyFrames \in 0 .. SwapFrames  BY <1>0, <1>1 DEF DriveInit
  <2> QED BY <1>0, <1>1, <2>1, <2>2 DEF DriveInit, DriveTypeOK
<1>2. ASSUME DriveTypeOK, SwapLeavesDriveEmpty, [DriveNext]_driveVars  PROVE DriveTypeOK'
  <2> USE <1>0, FloppyDriveAssumption, <1>2 DEF DriveTypeOK
  <2>1. CASE \E sel, mtr, stp, out, side \in BOOLEAN : Control(sel, mtr, stp, out, side)
    <3> PICK sel, mtr, stp, out, side \in BOOLEAN : Control(sel, mtr, stp, out, side)  BY <2>1
    <3>1. cylinder' \in 0 .. Cylinders - 1  BY DEF Control, Stepped
    <3>2. motor' \in BOOLEAN /\ selected' \in BOOLEAN /\ stepLine' \in BOOLEAN  BY DEF Control
    <3>3. head' \in {0, 1}  BY DEF Control
    <3>4. changeLatch' \in BOOLEAN /\ known' \in Disks \cup {NoDisk}  BY DEF Control
    <3>5. word' \in Contents /\ index' \in BOOLEAN  BY DEF Control, Quiet
    <3> QED BY <3>1, <3>2, <3>3, <3>4, <3>5 DEF Control, swap, buffer
  <2>2. CASE Tick
    <3>1. CASE ~Spinning \/ rotation + 2 < WordTime
      <4>1. Quiet  BY <2>2, <3>1 DEF Tick
      <4>2. position' = position /\ track' = track /\ encoded' = encoded
        BY <2>2, <3>1 DEF Tick, buffer
      <4>3. rotation' \in 0 .. WordTime - 1  BY <2>2, <3>1 DEF Tick
      <4> QED BY <2>2, <4>1, <4>2, <4>3, QuietTypes DEF Tick, swap, lines
    <3>2. CASE Spinning /\ ~(rotation + 2 < WordTime)
      <4>1. NextWord /\ rotation' \in 0 .. WordTime - 1  BY <2>2, <3>2 DEF Tick
      <4> QED BY <2>2, <4>1, NextWordTypes DEF Tick, swap, lines
    <3> QED BY <3>1, <3>2
  <2>3. CASE NextTurboWord
    BY <2>3, NextWordTypes DEF NextTurboWord, swap, lines
  <2>4. CASE \E d \in Disks : InsertDisk(d)
    <3> PICK d \in Disks : InsertDisk(d)  BY <2>4
    <3>1. CASE GoesInAtOnce
      BY <3>1 DEF InsertDisk, PutIn, NotEncoded, Quiet, swap, lines, mechanic
    <3>2. CASE ~GoesInAtOnce
      <4>1. Quiet /\ emptyFrames' \in 0 .. SwapFrames /\ countdown' \in 0 .. SwapFrames
        BY <3>2 DEF InsertDisk, Remove
      <4> QED BY <3>2, <4>1, QuietTypes DEF InsertDisk, Remove, buffer, lines, mechanic
    <3> QED BY <3>1, <3>2
  <2>5. CASE EjectDisk
    <3>1. Quiet /\ emptyFrames' \in 0 .. SwapFrames  BY <2>5 DEF EjectDisk, Remove
    <3> QED BY <2>5, <3>1, QuietTypes DEF EjectDisk, Remove, buffer, lines, mechanic
  <2>6. CASE EndFrame
    <3>1. emptyFrames' \in 0 .. SwapFrames  BY <2>6 DEF EndFrame
    <3>2. CASE pending = NoDisk
      BY <2>6, <3>1, <3>2 DEF EndFrame, Quiet, buffer, swap, lines, mechanic
    <3>3. CASE pending # NoDisk
      <4>1. countdown' \in 0 .. SwapFrames  BY <2>6, <3>3 DEF EndFrame, SwapLeavesDriveEmpty
      <4> QED BY <2>6, <3>1, <3>3, <4>1
              DEF EndFrame, PutIn, NotEncoded, Quiet, buffer, lines, mechanic
    <3> QED BY <3>2, <3>3
  <2>7. CASE UNCHANGED driveVars
    BY <2>7 DEF driveVars, lines, mechanic, buffer, swap, output
  <2> QED BY <1>2, <2>1, <2>2, <2>3, <2>4, <2>5, <2>6, <2>7 DEF DriveNext
<1>3. DriveInit => SwapLeavesDriveEmpty  BY DEF DriveInit, SwapLeavesDriveEmpty
<1>4. ASSUME DriveTypeOK, SwapLeavesDriveEmpty, [DriveNext]_driveVars  PROVE SwapLeavesDriveEmpty'
  <2> USE FloppyDriveAssumption, <1>4 DEF DriveTypeOK, SwapLeavesDriveEmpty
  <2>1. CASE \E sel, mtr, stp, out, side \in BOOLEAN : Control(sel, mtr, stp, out, side)
    BY <2>1 DEF Control, swap
  <2>2. CASE Tick
    BY <2>2 DEF Tick, swap
  <2>3. CASE NextTurboWord
    BY <2>3 DEF NextTurboWord, swap
  <2>4. CASE \E d \in Disks : InsertDisk(d)
    BY <2>4 DEF InsertDisk, GoesInAtOnce, PutIn, Remove, swap
  <2>5. CASE EjectDisk
    BY <2>5 DEF EjectDisk, Remove
  <2>6. CASE EndFrame
    BY <2>6 DEF EndFrame, PutIn, swap
  <2>7. CASE UNCHANGED driveVars
    BY <2>7 DEF driveVars, swap
  <2> QED BY <1>4, <2>1, <2>2, <2>3, <2>4, <2>5, <2>6, <2>7 DEF DriveNext
<1> QED BY <1>1, <1>2, <1>3, <1>4, PTL DEF DriveSpec

\* Every variable of the drive and of the swaps keeps its type: head, cylinder,
\* position and rotation stay on the disk, and the countdown never underflows.
THEOREM DriveTypeCorrect == DriveSpec => []DriveTypeOK
BY TypesAndSwaps, PTL

\* A disk swapped in goes into a drive that was empty for SwapFrames frames.
THEOREM SwapSafe == DriveSpec => []SwapLeavesDriveEmpty
BY TypesAndSwaps, PTL

\* The word the controller gets was read off the disk in the drive, on the track
\* under the head.
THEOREM FreshWordSafe == DriveSpec => []FreshWord
<1> DEFINE Good == DriveTypeOK /\ SwapLeavesDriveEmpty
<1>1. DriveInit => CacheIsCurrent  BY DEF DriveInit, CacheIsCurrent
<1>2. ASSUME Good, CacheIsCurrent, [DriveNext]_driveVars  PROVE CacheIsCurrent'
  <2> USE <1>2, FloppyDriveAssumption DEF DriveTypeOK, CacheIsCurrent
  <2>1. CASE \E sel, mtr, stp, out, side \in BOOLEAN : Control(sel, mtr, stp, out, side)
    BY <2>1 DEF Control, Quiet, buffer
  <2>2. ASSUME Spinning, NextWord, UNCHANGED <<cylinder, head, disk>>  PROVE CacheIsCurrent'
    <3>1. Current' = Current  BY <2>2 DEF Current
    <3>2. Current \in Tracks  BY TracksOfHeads DEF Current
    <3>3. Current # -1  BY <3>2, FloppyDriveAssumption DEF Tracks
    <3>4. CASE selected
      <4>1. encoded' = Current /\ word' = track'  BY <2>2, <3>4 DEF NextWord
      <4>2. track' = [disk |-> disk, track |-> Current]
        BY <2>2, <3>3, <3>4 DEF NextWord, Spinning
      <4> QED BY <2>2, <3>1, <4>1, <4>2
    <3>5. CASE ~selected
      BY <2>2, <3>5 DEF NextWord, buffer
    <3> QED BY <3>4, <3>5
  <2>3. CASE Tick
    <3>1. CASE ~Spinning \/ rotation + 2 < WordTime
      BY <2>3, <3>1 DEF Tick, Quiet, buffer
    <3>2. CASE Spinning /\ ~(rotation + 2 < WordTime)
      <4>1. Spinning /\ NextWord /\ UNCHANGED <<cylinder, head, disk>>  BY <2>3, <3>2 DEF Tick
      <4> QED BY <4>1, <2>2
    <3> QED BY <3>1, <3>2
  <2>4. CASE NextTurboWord
    <3>1. Spinning /\ NextWord /\ UNCHANGED <<cylinder, head, disk>>  BY <2>4 DEF NextTurboWord
    <3> QED BY <3>1, <2>2
  <2>5. CASE \E d \in Disks : InsertDisk(d)
    BY <2>5 DEF InsertDisk, PutIn, NotEncoded, Remove, Quiet, buffer
  <2>6. CASE EjectDisk
    BY <2>6 DEF EjectDisk, Remove, Quiet, buffer
  <2>7. CASE EndFrame
    BY <2>7 DEF EndFrame, PutIn, NotEncoded, Quiet, buffer
  <2>8. CASE UNCHANGED driveVars
    BY <2>8 DEF driveVars, mechanic, buffer, output, Current
  <2> QED BY <1>2, <2>1, <2>3, <2>4, <2>5, <2>6, <2>7, <2>8 DEF DriveNext
<1>3. CacheIsCurrent => FreshWord  BY DEF CacheIsCurrent, FreshWord
<1> QED BY <1>1, <1>2, <1>3, TypesAndSwaps, PTL DEF DriveSpec

\* While the change latch is off, the disk in the drive is the one software knows.
THEOREM NoSwapUnnoticedSafe == DriveSpec => []NoSwapUnnoticed
<1> DEFINE Good == DriveTypeOK /\ SwapLeavesDriveEmpty
<1>1. DriveInit => NoSwapUnnoticed  BY DEF DriveInit, NoSwapUnnoticed
<1>2. ASSUME Good, NoSwapUnnoticed, [DriveNext]_driveVars  PROVE NoSwapUnnoticed'
  <2> USE <1>2 DEF DriveTypeOK, NoSwapUnnoticed, SwapLeavesDriveEmpty
  <2>1. CASE \E sel, mtr, stp, out, side \in BOOLEAN : Control(sel, mtr, stp, out, side)
    BY <2>1 DEF Control, StepResets
  <2>2. CASE Tick \/ NextTurboWord
    BY <2>2 DEF Tick, NextTurboWord
  <2>3. CASE \E d \in Disks : InsertDisk(d)
    BY <2>3 DEF InsertDisk, GoesInAtOnce, PutIn, Remove
  <2>4. CASE EjectDisk
    BY <2>4 DEF EjectDisk, Remove
  <2>5. CASE EndFrame
    BY <2>5 DEF EndFrame, PutIn
  <2>6. CASE UNCHANGED driveVars
    BY <2>6 DEF driveVars
  <2> QED BY <1>2, <2>1, <2>2, <2>3, <2>4, <2>5, <2>6 DEF DriveNext
<1> QED BY <1>1, <1>2, TypesAndSwaps, PTL DEF DriveSpec
=============================================================================
