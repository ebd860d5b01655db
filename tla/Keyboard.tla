------------------------------ MODULE Keyboard ------------------------------
(***************************************************************************)
(* The keyboard (keyboard.hpp) on CIA-A's serial port (cia.cpp): a ring    *)
(* buffer of key transitions, sent one byte at a time, each waiting for    *)
(* the handshake of the program that reads it or for a time-out.  Three    *)
(* parties interleave: the host's key events, the E clock, and the program *)
(* on the emulated CPU, which may switch the port's direction, read the    *)
(* byte, and execute RESET at any point.                                   *)
(*                                                                         *)
(* A transition is a raw byte: the key code, plus KeyUp on release.  Time  *)
(* is counted in E clocks.                                                 *)
(***************************************************************************)
EXTENDS Naturals, Sequences

CONSTANTS
  QueueSize,         (* Slots of the ring, one of which stays free.        *)
  HandshakeTimeout,  (* kHandshakeTimeout: E clocks until the next byte.   *)
  Keys,              (* Codes of the keys the host sends, caps lock too.   *)
  MaxResets          (* Bound: machine resets in a behaviour.              *)

KeyUp             == 128
CapsLock          == 98
InitiatePowerUp   == 253
TerminatePowerUp  == 254
Raw               == 0 .. 255
Transitions       == Keys \cup {k + KeyUp : k \in Keys} \cup {InitiatePowerUp, TerminatePowerUp}

ASSUME KeyboardAssumption ==
  /\ QueueSize \in Nat /\ QueueSize >= 3       \* room for the power-up stream
  /\ HandshakeTimeout \in Nat \ {0}
  /\ Keys \subseteq 0 .. 124                   \* not the power-up stream's codes
  /\ MaxResets \in Nat

VARIABLES
  queue, head, tail,   (* The ring: written at head, read at tail.         *)
  awaiting, timeout,   (* A byte was sent: E clocks left to wait.          *)
  capsLock             (* Caps lock is on.                                 *)

VARIABLES              (* CIA-A's serial port:                             *)
  outputMode,          (* CRA SPMODE.                                      *)
  sdr,                 (* The byte the program reads.                      *)
  spFlag               (* ICR SP.                                          *)

VARIABLE driver        (* Where the program's keyboard handler stands.     *)

VARIABLES              (* History:                                         *)
  held,                (* Keys down on the host, caps lock apart.          *)
  sent,                (* Keys down according to the bytes sent.           *)
  lost,                (* Keys whose latest transition was dropped.        *)
  unread,              (* sdr holds a byte the program has not read.       *)
  fault,               (* A wait timed out, or other software touched the  *)
                       (* port, since the last machine reset.              *)
  resets

ring    == <<queue, head, tail>>
port    == <<outputMode, sdr, spFlag>>
history == <<held, sent, lost, unread, fault, resets>>
vars    == <<ring, awaiting, timeout, capsLock, port, driver, history>>

Slots     == 0 .. QueueSize - 1
AdvancePast(i) == i + 1  \* a mutant: no wrap-around
Advance(i) == (i + 1) % QueueSize
Pending   == (head + QueueSize - tail) % QueueSize
Empty     == head = tail
Contents  == [i \in 1 .. Pending |-> queue[(tail + i - 1) % QueueSize]]

\* encode(): rotated left by one and inverted; Decode is what the program applies.
Encode(raw)  == 255 - (((raw * 2) % 256) + (raw \div 128))
Decode(byte) == LET b == 255 - byte IN (b \div 2) + (b % 2) * 128

\* push(): a full queue drops the event.
NeverFull == FALSE  \* a mutant: the head runs over the tail
Full      == Advance(head) = tail
Push(raw)  ==
  IF Full THEN UNCHANGED ring
  ELSE /\ queue' = [queue EXCEPT ![head] = raw]
       /\ head' = Advance(head)
       /\ UNCHANGED tail

\* The ring after reset() has queued the power-up stream: slots keep old bytes.
PoweredUp(old) == [old EXCEPT ![0] = InitiatePowerUp, ![1] = TerminatePowerUp]

Init ==
  /\ queue = PoweredUp([i \in Slots |-> 0])
  /\ head = 2 /\ tail = 0
  /\ awaiting = FALSE /\ timeout = 0
  /\ capsLock = FALSE
  /\ outputMode = FALSE /\ sdr = 0 /\ spFlag = FALSE
  /\ driver = "idle"
  /\ held = {} /\ sent = {} /\ lost = {}
  /\ unread = FALSE /\ fault = FALSE /\ resets = 0

\* The keys software should see as down: caps lock by its toggled state.
HostDown == held \cup (IF capsLock THEN {CapsLock} ELSE {})

-----------------------------------------------------------------------------
(* The host: Keyboard::key and Machine::reset.                             *)

\* What key() queues: caps lock reports its toggled state, and nothing on release.
Transition(code, down) == code + (IF down THEN 0 ELSE KeyUp)

NewState(code, down) == IF code = CapsLock THEN ~capsLock ELSE down

KeyEvent(code, down) ==
  /\ code = CapsLock => down
  /\ IF code = CapsLock
     THEN capsLock' = NewState(code, down) /\ UNCHANGED held
     ELSE held' = (IF down THEN held \cup {code} ELSE held \ {code}) /\ UNCHANGED capsLock
  /\ Push(Transition(code, NewState(code, down)))
  /\ lost' = IF Full THEN lost \cup {code} ELSE lost \ {code}
  /\ UNCHANGED <<awaiting, timeout, port, driver, sent, unread, fault, resets>>

Reset ==
  /\ resets < MaxResets
  /\ resets' = resets + 1
  /\ queue' = PoweredUp(queue) /\ head' = 2 /\ tail' = 0
  /\ awaiting' = FALSE /\ capsLock' = FALSE
  /\ outputMode' = FALSE /\ sdr' = 0 /\ spFlag' = FALSE
  /\ driver' = "idle"
  /\ sent' = {} /\ lost' = held  \* the new program was never told of these
  /\ unread' = FALSE /\ fault' = FALSE
  /\ UNCHANGED <<timeout, held>>

-----------------------------------------------------------------------------
(* The E clock: Keyboard::tick, and Cia8520::serial_input when it sends.   *)

\* One E clock of the wait for a handshake, and whether it is the last.
NotCounted == timeout  \* a mutant: only a handshake ends the wait
TimeLeft   == timeout - 1
TimesOut   == TimeLeft = 0

Wait ==
  /\ awaiting
  /\ IF outputMode
     THEN awaiting' = FALSE /\ UNCHANGED <<timeout, fault>>
     ELSE /\ timeout' = TimeLeft
          /\ awaiting' = ~TimesOut
          /\ fault' = (fault \/ TimesOut)
  /\ UNCHANGED <<ring, capsLock, port, driver, held, sent, lost, unread, resets>>

\* The keys down once a transition has been seen.
Seen(keys, raw) == IF raw >= KeyUp THEN keys \ {raw - KeyUp} ELSE keys \cup {raw}

LineTaken == TRUE  \* a mutant: the line's direction is not looked at
LineFree  == ~outputMode

\* Whether the previous byte's wait is over.
Hasty == TRUE  \* a mutant: the handshake is not waited for
Ready == ~awaiting

Send ==
  /\ Ready /\ ~Empty /\ LineFree
  /\ IF outputMode THEN UNCHANGED port   \* serial_input ignores the byte
     ELSE sdr' = Encode(queue[tail]) /\ spFlag' = TRUE /\ UNCHANGED outputMode
  /\ tail' = Advance(tail)
  /\ awaiting' = TRUE
  /\ timeout' = HandshakeTimeout
  /\ sent' = IF outputMode THEN sent ELSE Seen(sent, queue[tail])
  /\ unread' = TRUE
  /\ UNCHANGED <<queue, head, capsLock, driver, held, lost, fault, resets>>

Tick == Wait \/ Send

-----------------------------------------------------------------------------
(* The program's keyboard handler, as Kickstart's: on the SP interrupt it  *)
(* reads ICR and the byte, then makes the port an output for a while.      *)

Serve ==
  /\ driver = "idle" /\ spFlag
  /\ spFlag' = FALSE
  /\ driver' = "read"
  /\ UNCHANGED <<ring, awaiting, timeout, capsLock, outputMode, sdr, history>>

ReadSdr ==
  /\ driver = "read"
  /\ driver' = "handshake"
  /\ unread' = FALSE
  /\ UNCHANGED <<ring, awaiting, timeout, capsLock, port, held, sent, lost, fault,
                 resets>>

PullLine ==
  /\ driver = "handshake"
  /\ outputMode' = TRUE
  /\ driver' = "release"
  /\ UNCHANGED <<ring, awaiting, timeout, capsLock, sdr, spFlag, history>>

ReleaseLine ==
  /\ driver = "release"
  /\ outputMode' = FALSE
  /\ driver' = "idle"
  /\ UNCHANGED <<ring, awaiting, timeout, capsLock, sdr, spFlag, history>>

Handler == Serve \/ ReadSdr \/ PullLine \/ ReleaseLine

(* Other software: it may switch the port by itself, and execute RESET,    *)
(* which resets the CIAs but not the keyboard.                             *)

SwitchPort ==
  /\ outputMode' \in BOOLEAN
  /\ fault' = TRUE
  /\ UNCHANGED <<ring, awaiting, timeout, capsLock, sdr, spFlag, driver, held, sent, lost,
                 unread, resets>>

ResetInstruction ==
  /\ outputMode' = FALSE /\ sdr' = 0 /\ spFlag' = FALSE
  /\ driver' = "idle"
  /\ unread' = FALSE /\ fault' = TRUE
  /\ UNCHANGED <<ring, awaiting, timeout, capsLock, held, sent, lost, resets>>

Host == (\E code \in Keys, down \in BOOLEAN : KeyEvent(code, down)) \/ Reset

Next == Host \/ Tick \/ Handler \/ SwitchPort \/ ResetInstruction

Spec == Init /\ [][Next]_vars

(* The E clock never stops, and the handler, once interrupted, runs on.    *)
(* The host and other software owe nothing.                                *)
Fairness == WF_vars(Tick) /\ WF_vars(Handler)

LiveSpec == Init /\ [][Host \/ Tick \/ Handler]_vars /\ Fairness

-----------------------------------------------------------------------------
(* Properties.                                                             *)

TypeOK ==
  /\ queue \in [Slots -> Raw] /\ head \in Slots /\ tail \in Slots
  /\ awaiting \in BOOLEAN /\ timeout \in 0 .. HandshakeTimeout
  /\ awaiting => timeout # 0           \* so that counting down never wraps
  /\ capsLock \in BOOLEAN
  /\ outputMode \in BOOLEAN /\ sdr \in Raw /\ spFlag \in BOOLEAN
  /\ driver \in {"idle", "read", "handshake", "release"}
  /\ held \subseteq Keys /\ lost \subseteq Keys
  /\ unread \in BOOLEAN /\ fault \in BOOLEAN /\ resets \in 0 .. MaxResets

\* The ring and the port make a FIFO of QueueSize - 1 bytes that drops the newest when
\* full: the bytes reach the program's SDR in the order of the host's events, each once.
Fifo == INSTANCE KeyFifo WITH
          Event <- {Encode(raw) : raw \in Transitions},
          Capacity <- QueueSize - 1,
          PowerUp <- <<Encode(InitiatePowerUp), Encode(TerminatePowerUp)>>,
          Idle <- 0,
          fifo <- [i \in 1 .. Pending |-> Encode(Contents[i])],
          out <- sdr
ImplementsFifo == Fifo!Spec

\* A key is down, once what was sent and what still waits has been seen, if its last
\* transition says so, or if it was down before and has none.
UpAfter(k, n) == \E m \in n .. Pending : Contents[m] = k + KeyUp
WillBeDown(k) ==
  \/ \E n \in 1 .. Pending : Contents[n] = k /\ ~UpAfter(k, n + 1)
  \/ k \in sent /\ ~UpAfter(k, 1)

\* Replaying what was sent and what still waits gives the host's keys, caps lock by its
\* light: whatever the interleaving, no key stays stuck, unless the last transition of
\* that very key was dropped by a full queue (or the machine was reset under it).
NoStuckKeys == \A k \in Keys \ lost : WillBeDown(k) <=> k \in HostDown

\* As long as the handler answers within the time-out and has the port to itself, no
\* byte is sent over one it has not read.
NoByteMissed == [][ Send /\ unread => fault ]_vars

\* Each transition that waits is sent eventually, as long as the program's handler
\* gives the line back: neither a lost handshake nor a full queue stops the keyboard.
EveryByteLeaves == \A i \in Slots : (tail = i /\ ~Empty) ~> (tail # i \/ Empty)
=============================================================================
