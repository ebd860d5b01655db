--------------------------- MODULE KeyboardProofs ---------------------------
(***************************************************************************)
(* Proofs about Keyboard for every ring size, time-out and set of keys.    *)
(***************************************************************************)
EXTENDS Keyboard, SequenceTheorems, TLAPS

-----------------------------------------------------------------------------
(* Type correctness.                                                       *)

LEMMA ModRange ==
  ASSUME NEW x \in Nat, NEW d \in Nat \ {0}
  PROVE  x % d \in 0 .. d - 1
  OBVIOUS

LEMMA Bytes == {0, InitiatePowerUp, TerminatePowerUp} \subseteq Raw
  BY DEF Raw, InitiatePowerUp, TerminatePowerUp

LEMMA PoweredUpType ==
  /\ \A old \in [Slots -> Raw] : PoweredUp(old) \in [Slots -> Raw]
  /\ 0 \in Slots /\ 2 \in Slots
<1>1. {0, 1, 2} \subseteq Slots
  BY KeyboardAssumption DEF Slots
<1>2. QED
  BY <1>1, Bytes DEF PoweredUp

LEMMA AdvanceType == \A i \in Slots : Advance(i) \in Slots
  BY KeyboardAssumption, ModRange DEF Slots, Advance

LEMMA EncodeType == \A raw \in Raw : Encode(raw) \in Raw
  BY DEF Raw, Encode

LEMMA PushType ==
  ASSUME TypeOK, NEW raw \in Raw, Push(raw)
  PROVE  queue' \in [Slots -> Raw] /\ head' \in Slots /\ tail' \in Slots
  BY AdvanceType DEF TypeOK, Push, ring

LEMMA TypeNext == TypeOK /\ [Next]_vars => TypeOK'
<1> SUFFICES ASSUME TypeOK, [Next]_vars PROVE TypeOK'
  OBVIOUS
<1> USE KeyboardAssumption DEF TypeOK, port
<1>1. ASSUME NEW code \in Keys, NEW down \in BOOLEAN, KeyEvent(code, down) PROVE TypeOK'
  <2>1. \A d : Transition(code, d) \in Raw
    BY DEF Transition, Raw, KeyUp
  <2>2. queue' \in [Slots -> Raw] /\ head' \in Slots /\ tail' \in Slots
    BY <1>1, <2>1, PushType DEF KeyEvent
  <2>3. capsLock' \in BOOLEAN
    BY <1>1 DEF KeyEvent, NewState
  <2>4. held' \subseteq Keys
    BY <1>1 DEF KeyEvent
  <2>5. lost' \subseteq Keys
    BY <1>1 DEF KeyEvent
  <2>6. QED
    BY <1>1, <2>2, <2>3, <2>4, <2>5 DEF KeyEvent
<1>2. CASE Reset
  <2>1. queue' \in [Slots -> Raw] /\ head' \in Slots /\ tail' \in Slots
    BY <1>2, PoweredUpType DEF Reset
  <2>2. sdr' \in Raw /\ resets' \in 0 .. MaxResets
    BY <1>2, Bytes DEF Reset
  <2>3. QED
    BY <1>2, <2>1, <2>2 DEF Reset
<1>3. CASE Wait
  <2>1. timeout' \in 0 .. HandshakeTimeout /\ (awaiting' => timeout' # 0)
    BY <1>3 DEF Wait, TimesOut, TimeLeft
  <2>2. awaiting' \in BOOLEAN
    BY <1>3 DEF Wait
  <2>3. fault' \in BOOLEAN
    BY <1>3 DEF Wait
  <2>4. QED
    BY <1>3, <2>1, <2>2, <2>3 DEF Wait, ring
<1>4. CASE Send
  <2>1. sdr' \in Raw /\ spFlag' \in BOOLEAN /\ outputMode' \in BOOLEAN
    BY <1>4, EncodeType DEF Send
  <2>2. QED
    BY <1>4, <2>1, AdvanceType DEF Send
<1>5. CASE Handler
  <2>1. CASE Serve
    BY <2>1 DEF Serve, ring, history
  <2>2. CASE ReadSdr
    BY <2>2 DEF ReadSdr, ring
  <2>3. CASE PullLine
    BY <2>3 DEF PullLine, ring, history
  <2>4. CASE ReleaseLine
    BY <2>4 DEF ReleaseLine, ring, history
  <2>5. QED
    BY <1>5, <2>1, <2>2, <2>3, <2>4 DEF Handler
<1>6. CASE SwitchPort
  BY <1>6 DEF SwitchPort, ring
<1>7. CASE ResetInstruction
  BY <1>7, Bytes DEF ResetInstruction, ring
<1>8. CASE UNCHANGED vars
  BY <1>8 DEF vars, ring, history
<1>9. QED
  BY <1>1, <1>2, <1>3, <1>4, <1>5, <1>6, <1>7, <1>8 DEF Next, Host, Tick

LEMMA InitType == Init => TypeOK
<1> SUFFICES ASSUME Init PROVE TypeOK
  OBVIOUS
<1>1. queue \in [Slots -> Raw] /\ head \in Slots /\ tail \in Slots /\ sdr \in Raw
  BY Bytes, PoweredUpType DEF Init
<1>2. timeout \in 0 .. HandshakeTimeout /\ resets \in 0 .. MaxResets
  BY KeyboardAssumption DEF Init
<1>3. QED
  BY <1>1, <1>2 DEF Init, TypeOK

\* The ring's indices stay in the ring and the wait never counts below zero
\* (keyboard.hpp, push() and tick()).
THEOREM TypeCorrect == Spec => []TypeOK
  BY InitType, TypeNext, PTL DEF Spec

-----------------------------------------------------------------------------
(* The handshake.                                                          *)

\* While nothing went wrong the port, the handler and the keyboard agree on whose turn
\* it is: the line is pulled only by the handler, which works only while the keyboard
\* waits, and a byte is unread only until the handler reads it.
Turns ==
  ~fault =>
    /\ outputMode <=> driver = "release"
    /\ driver \in {"read", "handshake"} => awaiting
    /\ unread => awaiting /\ driver \in {"idle", "read"}
    /\ spFlag => driver = "idle" /\ unread

LEMMA TurnsNext == TypeOK /\ Turns /\ [Next]_vars => Turns'
<1> SUFFICES ASSUME TypeOK, Turns, [Next]_vars PROVE Turns'
  OBVIOUS
<1> USE DEF Turns, port
<1>1. ASSUME NEW code \in Keys, NEW down \in BOOLEAN, KeyEvent(code, down) PROVE Turns'
  BY <1>1 DEF KeyEvent
<1>2. CASE Reset
  BY <1>2 DEF Reset
<1>3. CASE Wait
  <2>1. CASE outputMode
    BY <1>3, <2>1 DEF Wait
  <2>2. CASE ~outputMode
    <3>1. fault' \/ (~fault /\ awaiting')
      BY <1>3, <2>2 DEF Wait, TypeOK
    <3>2. QED
      BY <1>3, <3>1 DEF Wait
  <2>3. QED
    BY <2>1, <2>2
<1>4. CASE Send
  <2>1. ~fault => driver = "idle"
    BY <1>4 DEF Send, Ready, LineFree, TypeOK
  <2>2. QED
    BY <1>4, <2>1 DEF Send, LineFree
<1>5. CASE Serve
  BY <1>5 DEF Serve, history
<1>6. CASE ReadSdr
  BY <1>6 DEF ReadSdr
<1>7. CASE PullLine
  BY <1>7 DEF PullLine, history
<1>8. CASE ReleaseLine
  BY <1>8 DEF ReleaseLine, history
<1>9. CASE SwitchPort
  BY <1>9 DEF SwitchPort
<1>10. CASE ResetInstruction
  BY <1>10 DEF ResetInstruction
<1>11. CASE UNCHANGED vars
  BY <1>11 DEF vars, history
<1>12. QED
  BY <1>1, <1>2, <1>3, <1>4, <1>5, <1>6, <1>7, <1>8, <1>9, <1>10, <1>11
  DEF Next, Host, Tick, Handler

\* No byte is sent over one the handler has not read, unless a wait timed out or other
\* software touched the port (keyboard.hpp, tick()).
THEOREM NoByteMissedSafe == Spec => NoByteMissed
<1>1. Init => Turns
  BY DEF Init, Turns
<1>2. TypeOK /\ Turns /\ [Next]_vars => [Send /\ unread => fault]_vars
  BY DEF Turns, Send, Ready
<1>3. QED
  BY <1>1, <1>2, TurnsNext, TypeCorrect, PTL DEF Spec, NoByteMissed

-----------------------------------------------------------------------------
(* The ring as a sequence.                                                 *)

\* An index up to twice the ring's size wraps at most once.
LEMMA WrapOnce ==
  \A i \in 0 .. 2 * QueueSize - 1 :
    i % QueueSize = IF i < QueueSize THEN i ELSE i - QueueSize
<1> USE KeyboardAssumption
<1> TAKE i \in 0 .. 2 * QueueSize - 1
<1>1. CASE i < QueueSize
  BY <1>1
<1>2. CASE i >= QueueSize
  <2>1. i - QueueSize \in 0 .. QueueSize - 1
    BY <1>2
  <2>2. (i - QueueSize) % QueueSize = i - QueueSize
    BY <2>1
  <2>3. i % QueueSize = (i - QueueSize) % QueueSize
    BY <1>2
  <2>4. QED
    BY <1>2, <2>2, <2>3
<1>3. QED
  BY <1>1, <1>2

LEMMA AdvanceWraps ==
  \A i \in Slots : Advance(i) = IF i + 1 < QueueSize THEN i + 1 ELSE 0
<1> TAKE i \in Slots
<1>1. i + 1 \in 0 .. 2 * QueueSize - 1 /\ i + 1 <= QueueSize
  BY KeyboardAssumption DEF Slots
<1>2. QED
  BY <1>1, WrapOnce, KeyboardAssumption DEF Advance

\* Where the n-th waiting byte is, and how many wait, with no modulo left.
Slot(n) == IF tail + n - 1 < QueueSize THEN tail + n - 1 ELSE tail + n - 1 - QueueSize

RingShape ==
  /\ Pending = IF tail <= head THEN head - tail ELSE head + QueueSize - tail
  /\ Pending \in 0 .. QueueSize - 1
  /\ Empty <=> Pending = 0
  /\ Full <=> Pending = QueueSize - 1
  /\ \A n \in 1 .. QueueSize : Slot(n) \in Slots
  /\ \A n \in 1 .. Pending : Contents[n] = queue[Slot(n)] /\ Contents[n] \in Raw
  /\ ~Empty => Contents[1] = queue[tail]

LEMMA RingHasShape == TypeOK => RingShape
<1> SUFFICES ASSUME TypeOK PROVE RingShape
  OBVIOUS
<1> USE KeyboardAssumption DEF TypeOK, Slots
<1>1. Pending = IF tail <= head THEN head - tail ELSE head + QueueSize - tail
  <2> DEFINE i == head + QueueSize - tail
  <2>1. i \in 0 .. 2 * QueueSize - 1
    OBVIOUS
  <2>2. i % QueueSize = IF i < QueueSize THEN i ELSE i - QueueSize
    <3> HIDE DEF i
    <3> QED
      BY <2>1, WrapOnce
  <2>3. QED
    BY <2>2 DEF Pending
<1>2. Pending \in 0 .. QueueSize - 1 /\ (Empty <=> Pending = 0)
  BY <1>1 DEF Empty
<1>3. Full <=> Pending = QueueSize - 1
  <2>1. Advance(head) = IF head + 1 < QueueSize THEN head + 1 ELSE 0
    BY AdvanceWraps
  <2>2. QED
    BY <1>1, <2>1 DEF Full
<1>4. \A n \in 1 .. QueueSize : Slot(n) \in Slots /\ (tail + n - 1) % QueueSize = Slot(n)
  <2> SUFFICES ASSUME NEW n \in 1 .. QueueSize
               PROVE  Slot(n) \in Slots /\ (tail + n - 1) % QueueSize = Slot(n)
    OBVIOUS
  <2> DEFINE i == tail + n - 1
  <2>1. i \in 0 .. 2 * QueueSize - 1
    OBVIOUS
  <2>2. i % QueueSize = IF i < QueueSize THEN i ELSE i - QueueSize
    <3> HIDE DEF i
    <3> QED
      BY <2>1, WrapOnce
  <2>3. QED
    BY <2>2 DEF Slot
<1>5. \A n \in 1 .. Pending : Contents[n] = queue[Slot(n)] /\ Contents[n] \in Raw
  BY <1>2, <1>4 DEF Contents
<1>6. ~Empty => Contents[1] = queue[tail]
  BY <1>2, <1>5 DEF Slot
<1>7. QED
  BY <1>1, <1>2, <1>3, <1>4, <1>5, <1>6 DEF RingShape

LEMMA RingShapeNext == TypeOK' => RingShape'
  BY RingHasShape, PTL

\* push() appends what it queues.
LEMMA PushAppends ==
  ASSUME TypeOK, TypeOK', NEW raw \in Raw, Push(raw), ~Full
  PROVE  /\ Pending' = Pending + 1
         /\ \A n \in 1 .. Pending : Contents'[n] = Contents[n]
         /\ Contents'[Pending + 1] = raw
<1> USE KeyboardAssumption
<1>1. /\ head' = IF head + 1 < QueueSize THEN head + 1 ELSE 0
      /\ tail' = tail /\ queue' = [queue EXCEPT ![head] = raw]
  BY AdvanceWraps DEF Push, TypeOK
<1>2. Pending < QueueSize - 1
  BY RingHasShape DEF RingShape
<1>3. /\ Pending = IF tail <= head THEN head - tail ELSE head + QueueSize - tail
      /\ Pending' = IF tail' <= head' THEN head' - tail' ELSE head' + QueueSize - tail'
  BY RingHasShape, RingShapeNext DEF RingShape
<1>4. Pending' = Pending + 1
  BY <1>1, <1>2, <1>3 DEF TypeOK, Slots
<1>5. \A n \in 1 .. QueueSize : Slot(n)' = Slot(n)
  BY <1>1 DEF Slot
<1>6. \A n \in 1 .. Pending : Slot(n) # head
  BY <1>2, <1>3 DEF Slot, TypeOK, Slots
<1>7. Slot(Pending + 1) = head
  BY <1>2, <1>3 DEF Slot, TypeOK, Slots
<1>8. \A n \in 1 .. Pending' : Contents'[n] = queue'[Slot(n)']
  BY RingShapeNext DEF RingShape
<1>9. \A n \in 1 .. Pending : Contents'[n] = Contents[n]
  BY <1>1, <1>2, <1>4, <1>5, <1>6, <1>8, RingHasShape DEF TypeOK, RingShape
<1>10. Contents'[Pending + 1] = raw
  BY <1>1, <1>2, <1>4, <1>5, <1>7, <1>8, RingHasShape DEF TypeOK, RingShape
<1>11. QED
  BY <1>4, <1>9, <1>10

\* Sending takes the first byte off.
LEMMA SendTakes ==
  ASSUME TypeOK, TypeOK', Send
  PROVE  /\ Pending' = Pending - 1 /\ Pending \in Nat \ {0}
         /\ \A n \in 1 .. Pending' : Contents'[n] = Contents[n + 1]
         /\ queue[tail] = Contents[1]
<1> USE KeyboardAssumption
<1>1. /\ tail' = IF tail + 1 < QueueSize THEN tail + 1 ELSE 0
      /\ head' = head /\ queue' = queue /\ ~Empty
  BY AdvanceWraps DEF Send, TypeOK
<1>2. /\ Pending = IF tail <= head THEN head - tail ELSE head + QueueSize - tail
      /\ Pending' = IF tail' <= head' THEN head' - tail' ELSE head' + QueueSize - tail'
      /\ Pending \in 1 .. QueueSize - 1
  BY <1>1, RingHasShape, RingShapeNext DEF RingShape
<1>3. Pending' = Pending - 1
  BY <1>1, <1>2 DEF TypeOK, Slots
<1>4. \A n \in 1 .. QueueSize - 1 : Slot(n)' = Slot(n + 1)
  BY <1>1 DEF Slot, TypeOK, Slots
<1>5. \A n \in 1 .. Pending' : Contents'[n] = queue'[Slot(n)']
  BY RingShapeNext DEF RingShape
<1>6. \A n \in 1 .. Pending' : Contents'[n] = Contents[n + 1]
  BY <1>1, <1>2, <1>3, <1>4, <1>5, RingHasShape DEF RingShape
<1>7. QED
  BY <1>1, <1>2, <1>3, <1>6, RingHasShape DEF RingShape

\* A reset leaves the power-up stream and nothing else.
LEMMA ResetClears ==
  ASSUME TypeOK, TypeOK', Reset
  PROVE  Pending' = 2 /\ Contents'[1] = InitiatePowerUp /\ Contents'[2] = TerminatePowerUp
<1> USE KeyboardAssumption
<1>1. /\ head' = 2 /\ tail' = 0
      /\ queue'[0] = InitiatePowerUp /\ queue'[1] = TerminatePowerUp
  BY DEF Reset, PoweredUp, TypeOK, Slots
<1>2. Pending' = 2
  BY <1>1, RingShapeNext DEF RingShape
<1>3. Slot(1)' = 0 /\ Slot(2)' = 1
  BY <1>1 DEF Slot
<1>4. QED
  BY <1>1, <1>2, <1>3, RingShapeNext DEF RingShape

-----------------------------------------------------------------------------
(* No key stays stuck.                                                     *)

\* Caps lock is never among the keys held: its own releases are not reported.
CapsApart == CapsLock \notin held

LEMMA CapsApartNext == CapsApart /\ [Next]_vars => CapsApart'
<1> SUFFICES ASSUME CapsApart, [Next]_vars PROVE CapsApart'
  OBVIOUS
<1> USE DEF CapsApart
<1>1. ASSUME NEW code \in Keys, NEW down \in BOOLEAN, KeyEvent(code, down)
      PROVE  CapsApart'
  BY <1>1 DEF KeyEvent
<1>2. CASE Reset \/ Tick \/ Handler \/ SwitchPort \/ ResetInstruction \/ UNCHANGED vars
  BY <1>2 DEF Reset, Tick, Wait, Send, Handler, Serve, ReadSdr, PullLine, ReleaseLine,
              SwitchPort, ResetInstruction, vars, history
<1>3. QED
  BY <1>1, <1>2 DEF Next, Host

LEMMA KeysAreDown == \A k \in Keys : k \in Nat /\ k + KeyUp \in Nat /\ k < KeyUp - 3
  BY KeyboardAssumption DEF KeyUp

\* A transition that is queued decides over its own key and no other.
LEMMA PushDecides ==
  ASSUME TypeOK, TypeOK', NEW code \in Keys, NEW d \in BOOLEAN, Push(Transition(code, d)),
         ~Full, sent' = sent, NEW k \in Keys
  PROVE  WillBeDown(k)' <=> IF k = code THEN d ELSE WillBeDown(k)
<1> DEFINE raw == Transition(code, d)
<1>1. raw \in Raw /\ raw = code + (IF d THEN 0 ELSE KeyUp)
  BY KeyboardAssumption DEF Transition, Raw, KeyUp
<1>2. /\ Pending \in Nat
      /\ Pending' = Pending + 1
      /\ \A n \in 1 .. Pending : Contents'[n] = Contents[n]
      /\ Contents'[Pending + 1] = raw
  <2> HIDE DEF raw
  <2>1. Push(raw)
    BY DEF raw
  <2>2. QED
    BY <1>1, <2>1, PushAppends, RingHasShape DEF RingShape
<1>3. /\ k = code => (raw = k <=> d) /\ (raw = k + KeyUp <=> ~d)
      /\ k # code => raw # k /\ raw # k + KeyUp
  BY <1>1, KeysAreDown DEF KeyUp
<1>4. \A n \in 1 .. Pending' : Contents'[n] = IF n = Pending + 1 THEN raw ELSE Contents[n]
  <2> HIDE DEF raw
  <2> QED
    BY <1>2
<1>5. \A n \in 1 .. Pending + 1 :
        UpAfter(k, n)' <=> (raw = k + KeyUp \/ UpAfter(k, n))
  <2> HIDE DEF raw
  <2> TAKE n \in 1 .. Pending + 1
  <2>1. UpAfter(k, n)' => (raw = k + KeyUp \/ UpAfter(k, n))
    BY <1>2, <1>4 DEF UpAfter
  <2>2. raw = k + KeyUp => UpAfter(k, n)'
    BY <1>2, <1>4 DEF UpAfter
  <2>3. UpAfter(k, n) => UpAfter(k, n)'
    BY <1>2, <1>4 DEF UpAfter
  <2>4. QED
    BY <2>1, <2>2, <2>3
<1>6. \A n : n = Pending + 1 => ~UpAfter(k, n + 1)'
  BY <1>2 DEF UpAfter
<1>7. CASE k = code
  <2>1. CASE d
    <3>1. Contents'[Pending + 1] = k
      BY <1>2, <1>3, <1>7, <2>1
    <3>2. Pending + 1 \in 1 .. Pending'
      BY <1>2
    <3>3. \E n \in 1 .. Pending' : Contents'[n] = k /\ ~UpAfter(k, n + 1)'
      BY <1>6, <3>1, <3>2
    <3>4. QED
      BY <1>7, <2>1, <3>3 DEF WillBeDown
  <2>2. CASE ~d
    <3>1. raw = k + KeyUp /\ raw # k
      BY <1>3, <1>7, <2>2
    <3>2. \A n \in 1 .. Pending + 1 : UpAfter(k, n)'
      BY <1>5, <3>1
    <3>3. \A n \in 1 .. Pending' : Contents'[n] = k => n + 1 \in 1 .. Pending + 1
      <4> HIDE DEF raw
      <4> QED
        BY <1>2, <3>1
    <3>4. 1 \in 1 .. Pending + 1
      BY <1>2
    <3>5. QED
      BY <1>7, <2>2, <3>2, <3>3, <3>4 DEF WillBeDown
  <2>3. QED
    BY <2>1, <2>2
<1>8. CASE k # code
  <2>1. raw # k /\ raw # k + KeyUp
    BY <1>3, <1>8
  <2>2. \A n \in 1 .. Pending : Contents'[n] = Contents[n] /\ n + 1 \in 1 .. Pending + 1
    BY <1>2
  <2>3. \A n \in 1 .. Pending' : Contents'[n] = k => n \in 1 .. Pending
    <3> HIDE DEF raw
    <3> QED
      BY <1>2, <2>1
  <2>4. \A n \in 1 .. Pending : n \in 1 .. Pending'
    BY <1>2
  <2>5. 1 \in 1 .. Pending + 1
    BY <1>2
  <2>6. \A n \in 1 .. Pending + 1 : UpAfter(k, n)' <=> UpAfter(k, n)
    BY <1>5, <2>1
  <2>7. QED
    BY <1>8, <2>2, <2>3, <2>4, <2>5, <2>6 DEF WillBeDown
<1>9. QED
  BY <1>7, <1>8

\* Sending moves the decision from the queue to what was sent.
LEMMA SendDecides ==
  ASSUME TypeOK, TypeOK', Send, NEW k \in Keys
  PROVE  WillBeDown(k)' <=> WillBeDown(k)
<1> DEFINE first == Contents[1]
<1>1. /\ Pending' = Pending - 1 /\ Pending \in Nat \ {0}
      /\ \A n \in 1 .. Pending' : Contents'[n] = Contents[n + 1]
      /\ queue[tail] = first
      /\ first \in Nat
  BY SendTakes, RingHasShape DEF RingShape, Raw
<1> HIDE DEF first
<1>2. k \in sent' <=> first = k \/ (k \in sent /\ first # k + KeyUp)
  <2>1. sent' = Seen(sent, first)
    BY <1>1 DEF Send, LineFree
  <2>2. QED
    BY <1>1, <2>1, KeysAreDown DEF Seen, KeyUp
<1>3. \A n \in 1 .. Pending : UpAfter(k, n)' <=> UpAfter(k, n + 1)
  <2> TAKE n \in 1 .. Pending
  <2>1. ASSUME UpAfter(k, n)' PROVE UpAfter(k, n + 1)
    <3>1. PICK m \in n .. Pending' : Contents'[m] = k + KeyUp
      BY <2>1 DEF UpAfter
    <3>2. m + 1 \in n + 1 .. Pending /\ Contents[m + 1] = k + KeyUp
      BY <1>1, <3>1
    <3>3. QED
      BY <3>2 DEF UpAfter
  <2>2. ASSUME UpAfter(k, n + 1) PROVE UpAfter(k, n)'
    <3>1. PICK m \in n + 1 .. Pending : Contents[m] = k + KeyUp
      BY <2>2 DEF UpAfter
    <3>2. m - 1 \in n .. Pending' /\ Contents'[m - 1] = k + KeyUp
      BY <1>1, <3>1
    <3>3. QED
      BY <3>2 DEF UpAfter
  <2>3. QED
    BY <2>1, <2>2
<1>4. UpAfter(k, 1) <=> (first = k + KeyUp \/ UpAfter(k, 2))
  <2>1. UpAfter(k, 1) => first = k + KeyUp \/ UpAfter(k, 2)
    BY <1>1 DEF UpAfter, first
  <2>2. first = k + KeyUp => UpAfter(k, 1)
    BY <1>1 DEF UpAfter, first
  <2>3. UpAfter(k, 2) => UpAfter(k, 1)
    BY <1>1 DEF UpAfter
  <2>4. QED
    BY <2>1, <2>2, <2>3
<1>5. (\E n \in 1 .. Pending' : Contents'[n] = k /\ ~UpAfter(k, n + 1)')
      <=> \E n \in 2 .. Pending : Contents[n] = k /\ ~UpAfter(k, n + 1)
  <2>1. ASSUME NEW n \in 1 .. Pending', Contents'[n] = k, ~UpAfter(k, n + 1)'
        PROVE  \E m \in 2 .. Pending : Contents[m] = k /\ ~UpAfter(k, m + 1)
    <3>1. n + 1 \in 2 .. Pending /\ n + 1 \in 1 .. Pending /\ Contents[n + 1] = k
      BY <1>1, <2>1
    <3>2. ~UpAfter(k, (n + 1) + 1)
      BY <1>3, <2>1, <3>1
    <3>3. QED
      BY <3>1, <3>2
  <2>2. ASSUME NEW n \in 2 .. Pending, Contents[n] = k, ~UpAfter(k, n + 1)
        PROVE  \E m \in 1 .. Pending' : Contents'[m] = k /\ ~UpAfter(k, m + 1)'
    <3>1. n - 1 \in 1 .. Pending' /\ n \in 1 .. Pending /\ Contents'[n - 1] = k
      BY <1>1, <2>2
    <3>2. ~UpAfter(k, n)'
      BY <1>3, <2>2, <3>1
    <3>3. (n - 1) + 1 = n
      OBVIOUS
    <3>4. QED
      BY <3>1, <3>2, <3>3
  <2>3. QED
    BY <2>1, <2>2
<1>6. (\E n \in 1 .. Pending : Contents[n] = k /\ ~UpAfter(k, n + 1))
      <=> \/ first = k /\ ~UpAfter(k, 2)
          \/ \E n \in 2 .. Pending : Contents[n] = k /\ ~UpAfter(k, n + 1)
  <2>1. 1 \in 1 .. Pending /\ 1 + 1 = 2
    BY <1>1
  <2>2. \A n \in 1 .. Pending : n = 1 \/ n \in 2 .. Pending
    BY <1>1
  <2>3. \A n \in 2 .. Pending : n \in 1 .. Pending
    BY <1>1
  <2>4. QED
    BY <2>1, <2>2, <2>3 DEF first
<1>7. UpAfter(k, 1)' <=> UpAfter(k, 2)
  BY <1>1, <1>3
<1>8. ~(first = k /\ first = k + KeyUp)
  BY <1>1, KeysAreDown DEF KeyUp
<1>9. QED
  BY <1>2, <1>4, <1>5, <1>6, <1>7, <1>8 DEF WillBeDown

\* Steps that touch neither the ring nor what was sent.
LEMMA IdleDecides ==
  ASSUME UNCHANGED <<ring, sent>>, NEW k
  PROVE  WillBeDown(k)' <=> WillBeDown(k)
  BY DEF ring, WillBeDown, UpAfter, Contents, Pending

LEMMA NoStuckKeysNext ==
  TypeOK /\ TypeOK' /\ CapsApart /\ NoStuckKeys /\ [Next]_vars => NoStuckKeys'
<1> SUFFICES ASSUME TypeOK, TypeOK', CapsApart, NoStuckKeys, [Next]_vars,
                    NEW k \in Keys, k \notin lost'
             PROVE  WillBeDown(k)' <=> k \in HostDown'
  BY DEF NoStuckKeys
<1>1. ASSUME NEW code \in Keys, NEW down \in BOOLEAN, KeyEvent(code, down)
      PROVE  WillBeDown(k)' <=> k \in HostDown'
  <2> DEFINE d == NewState(code, down)
  <2>1. d \in BOOLEAN /\ Push(Transition(code, d)) /\ sent' = sent
    BY <1>1 DEF KeyEvent, NewState, TypeOK
  <2>2. k # code => (k \in HostDown' <=> k \in HostDown)
    BY <1>1 DEF KeyEvent, HostDown
  <2>3. k = code => (k \in HostDown' <=> d)
    BY <1>1 DEF KeyEvent, HostDown, NewState, CapsApart
  <2>4. CASE Full
    <3>1. k # code /\ k \notin lost
      BY <1>1, <2>4 DEF KeyEvent
    <3>2. UNCHANGED <<ring, sent>>
      BY <2>1, <2>4 DEF Push
    <3>3. QED
      BY <2>2, <3>1, <3>2, IdleDecides DEF NoStuckKeys
  <2>5. CASE ~Full
    <3> HIDE DEF d
    <3>1. WillBeDown(k)' <=> IF k = code THEN d ELSE WillBeDown(k)
      BY <2>1, <2>5, PushDecides
    <3>2. k # code => k \notin lost
      BY <1>1, <2>5 DEF KeyEvent
    <3>3. QED
      BY <2>2, <2>3, <3>1, <3>2 DEF NoStuckKeys
  <2>6. QED
    BY <2>4, <2>5
<1>2. CASE Reset
  <2>1. \A n \in 1 .. 2 : Contents'[n] # k /\ Contents'[n] # k + KeyUp
    BY <1>2, ResetClears, KeysAreDown DEF KeyUp, InitiatePowerUp, TerminatePowerUp
  <2>2. Pending' = 2 /\ sent' = {}
    BY <1>2, ResetClears DEF Reset
  <2>3. ~WillBeDown(k)'
    BY <2>1, <2>2 DEF WillBeDown
  <2>4. k \notin HostDown'
    BY <1>2 DEF Reset, HostDown
  <2>5. QED
    BY <2>3, <2>4
<1>3. CASE Send
  BY <1>3, SendDecides DEF NoStuckKeys, Send, HostDown
<1>4. CASE Wait \/ Handler \/ SwitchPort \/ ResetInstruction \/ UNCHANGED vars
  <2>1. UNCHANGED <<ring, sent, lost, held, capsLock>>
    BY <1>4 DEF Wait, Handler, Serve, ReadSdr, PullLine, ReleaseLine, SwitchPort,
                ResetInstruction, vars, history
  <2>2. QED
    BY <2>1, IdleDecides DEF NoStuckKeys, HostDown
<1>5. QED
  BY <1>1, <1>2, <1>3, <1>4 DEF Next, Host, Tick

\* What was sent and what still waits end with the host's own keys, whatever the
\* interleaving of key events, sends, time-outs and resets: no key stays stuck unless a
\* full queue dropped its last transition (keyboard.hpp, key(), push() and tick()).
THEOREM NoStuckKeysAlways == Spec => []NoStuckKeys
<1>1. Init => CapsApart
  BY DEF Init, CapsApart
<1>2. Init => NoStuckKeys
  <2> SUFFICES ASSUME Init, NEW k \in Keys PROVE ~WillBeDown(k) /\ k \notin HostDown
    BY DEF NoStuckKeys
  <2>1. TypeOK
    BY InitType
  <2>2. Pending = 2
    BY <2>1, RingHasShape DEF RingShape, Init
  <2>3. Contents[1] = InitiatePowerUp /\ Contents[2] = TerminatePowerUp
    <3>1. Slot(1) = 0 /\ Slot(2) = 1
      BY KeyboardAssumption DEF Init, Slot
    <3>2. queue[0] = InitiatePowerUp /\ queue[1] = TerminatePowerUp
      BY KeyboardAssumption DEF Init, PoweredUp, Slots
    <3>3. QED
      BY <2>1, <2>2, <3>1, <3>2, RingHasShape DEF RingShape
  <2>4. \A n \in 1 .. 2 : Contents[n] # k /\ Contents[n] # k + KeyUp
    BY <2>3, KeysAreDown DEF KeyUp, InitiatePowerUp, TerminatePowerUp
  <2>5. QED
    BY <2>2, <2>4 DEF WillBeDown, Init, HostDown
<1>3. QED
  BY <1>1, <1>2, CapsApartNext, NoStuckKeysNext, TypeCorrect, PTL DEF Spec

-----------------------------------------------------------------------------
(* The keyboard implements KeyFifo.                                        *)

\* The abstract queue: what waits, as the program will see it.
Queued == [i \in 1 .. Pending |-> Encode(Contents[i])]

QueuedShape ==
  /\ Queued \in Seq(Raw)
  /\ Len(Queued) = Pending
  /\ \A n \in 1 .. Pending : Queued[n] = Encode(Contents[n])

LEMMA QueuedHasShape == TypeOK => QueuedShape
<1> SUFFICES ASSUME TypeOK PROVE QueuedShape
  OBVIOUS
<1>1. Pending \in Nat /\ \A n \in 1 .. Pending : Encode(Contents[n]) \in Raw
  BY RingHasShape, EncodeType DEF RingShape
<1>2. Queued \in [1 .. Pending -> Raw]
  BY <1>1 DEF Queued
<1>3. Queued \in Seq(Raw)
  BY <1>1, <1>2, SeqDef
<1>4. Len(Queued) = Pending
  BY <1>1, <1>2, <1>3, LenProperties
<1>5. QED
  BY <1>3, <1>4 DEF QueuedShape, Queued

LEMMA QueuedShapeNext == TypeOK' => QueuedShape'
  BY QueuedHasShape, PTL

LEMMA SameQueue == UNCHANGED ring => UNCHANGED Queued
  BY DEF ring, Queued, Contents, Pending

\* After a reset the queue is the power-up stream.
PowerUpStream == <<Encode(InitiatePowerUp), Encode(TerminatePowerUp)>>

LEMMA PowerUpQueued ==
  ASSUME NEW q \in Seq(Raw), Len(q) = 2,
         q[1] = Encode(InitiatePowerUp), q[2] = Encode(TerminatePowerUp)
  PROVE  q = PowerUpStream
<1>1. PowerUpStream \in Seq(Raw) /\ Len(PowerUpStream) = 2
  BY Bytes, EncodeType DEF PowerUpStream
<1>2. QED
  BY <1>1, SeqEqual DEF PowerUpStream

LEMMA QueuedAtInit == Init => Queued = PowerUpStream
<1> SUFFICES ASSUME Init PROVE Queued = PowerUpStream
  OBVIOUS
<1>1. TypeOK
  BY InitType
<1>2. Pending = 2 /\ Slot(1) = 0 /\ Slot(2) = 1
  BY <1>1, RingHasShape, KeyboardAssumption DEF RingShape, Init, Slot
<1>3. queue[0] = InitiatePowerUp /\ queue[1] = TerminatePowerUp
  BY KeyboardAssumption DEF Init, PoweredUp, Slots
<1>4. Contents[1] = InitiatePowerUp /\ Contents[2] = TerminatePowerUp
  BY <1>1, <1>2, <1>3, RingHasShape DEF RingShape
<1>5. Queued[1] = Encode(InitiatePowerUp) /\ Queued[2] = Encode(TerminatePowerUp)
  BY <1>1, <1>2, <1>4, QueuedHasShape DEF QueuedShape
<1>6. QED
  BY <1>1, <1>2, <1>5, QueuedHasShape, PowerUpQueued DEF QueuedShape

LEMMA PushAccepts ==
  ASSUME TypeOK, TypeOK', NEW raw \in Raw, Push(raw), ~Full
  PROVE  Len(Queued) < QueueSize - 1 /\ Queued' = Append(Queued, Encode(raw))
<1>1. /\ Pending \in 0 .. QueueSize - 1 /\ Pending # QueueSize - 1
      /\ Pending' = Pending + 1
      /\ \A n \in 1 .. Pending : Contents'[n] = Contents[n]
      /\ Contents'[Pending + 1] = raw
  BY RingHasShape, PushAppends DEF RingShape
<1>2. /\ Queued \in Seq(Raw) /\ Len(Queued) = Pending
      /\ \A n \in 1 .. Pending : Queued[n] = Encode(Contents[n])
      /\ Queued' \in Seq(Raw) /\ Len(Queued') = Pending'
      /\ \A n \in 1 .. Pending' : Queued'[n] = Encode(Contents'[n])
  BY QueuedHasShape, QueuedShapeNext DEF QueuedShape
<1> DEFINE q == Append(Queued, Encode(raw))
<1>3. /\ q \in Seq(Raw) /\ Len(q) = Pending + 1
      /\ \A n \in 1 .. Pending : q[n] = Queued[n]
      /\ q[Pending + 1] = Encode(raw)
  BY <1>2, EncodeType, AppendProperties
<1> HIDE DEF q
<1>4. \A n \in 1 .. Pending + 1 : Queued'[n] = q[n]
  <2> TAKE n \in 1 .. Pending + 1
  <2>1. CASE n = Pending + 1
    BY <1>1, <1>2, <1>3, <2>1
  <2>2. CASE n # Pending + 1
    <3>1. n \in 1 .. Pending /\ n \in 1 .. Pending'
      BY <1>1, <2>2
    <3>2. QED
      BY <1>1, <1>2, <1>3, <3>1
  <2>3. QED
    BY <2>1, <2>2
<1>5. Queued' = q
  BY <1>1, <1>2, <1>3, <1>4, SeqEqual
<1>6. Len(Queued) < QueueSize - 1
  BY <1>1, <1>2, KeyboardAssumption
<1>7. QED
  BY <1>5, <1>6 DEF q

LEMMA SendDelivers ==
  ASSUME TypeOK, TypeOK', Send
  PROVE  Queued # <<>> /\ sdr' = Head(Queued) /\ Queued' = Tail(Queued)
<1>1. /\ Pending' = Pending - 1 /\ Pending \in Nat \ {0}
      /\ \A n \in 1 .. Pending' : Contents'[n] = Contents[n + 1]
      /\ queue[tail] = Contents[1]
  BY SendTakes
<1>2. /\ Queued \in Seq(Raw) /\ Len(Queued) = Pending
      /\ \A n \in 1 .. Pending : Queued[n] = Encode(Contents[n])
      /\ Queued' \in Seq(Raw) /\ Len(Queued') = Pending'
      /\ \A n \in 1 .. Pending' : Queued'[n] = Encode(Contents'[n])
  BY QueuedHasShape, QueuedShapeNext DEF QueuedShape
<1>3. Queued # <<>>
  BY <1>1, <1>2
<1>4. sdr' = Head(Queued)
  <2>1. Head(Queued) = Queued[1]
    BY <1>1, <1>2, <1>3
  <2>2. sdr' = Encode(Contents[1])
    BY <1>1 DEF Send, LineFree
  <2>3. QED
    BY <1>1, <1>2, <2>1, <2>2
<1> DEFINE q == Tail(Queued)
<1>5. /\ q \in Seq(Raw) /\ Len(q) = Pending - 1
      /\ \A n \in 1 .. Pending - 1 : q[n] = Queued[n + 1]
  BY <1>2, <1>3, HeadTailProperties
<1> HIDE DEF q
<1>6. \A n \in 1 .. Pending - 1 : Queued'[n] = q[n]
  <2> TAKE n \in 1 .. Pending - 1
  <2>1. n \in 1 .. Pending' /\ n + 1 \in 1 .. Pending
    BY <1>1
  <2>2. Queued'[n] = Encode(Contents[n + 1]) /\ q[n] = Encode(Contents[n + 1])
    BY <1>1, <1>2, <1>5, <2>1
  <2>3. QED
    BY <2>2
<1>7. Queued' = q
  BY <1>1, <1>2, <1>5, <1>6, SeqEqual
<1>8. QED
  BY <1>3, <1>4, <1>7 DEF q

\* Every step of the keyboard, of its port and of the program is one of the queue, or
\* none.
QueueStep ==
  \/ \E e \in {Encode(raw) : raw \in Transitions} :
       Len(Queued) < QueueSize - 1 /\ Queued' = Append(Queued, e) /\ sdr' = sdr
  \/ Len(Queued) = QueueSize - 1 /\ UNCHANGED <<Queued, sdr>>
  \/ Queued # <<>> /\ sdr' = Head(Queued) /\ Queued' = Tail(Queued)
  \/ Queued' = PowerUpStream /\ sdr' = 0
  \/ sdr' = 0 /\ UNCHANGED Queued
  \/ UNCHANGED <<Queued, sdr>>

LEMMA FifoStep == TypeOK /\ TypeOK' /\ [Next]_vars => QueueStep
<1> SUFFICES ASSUME TypeOK, TypeOK', [Next]_vars PROVE QueueStep
  OBVIOUS
<1> USE DEF QueueStep
<1>1. ASSUME NEW code \in Keys, NEW down \in BOOLEAN, KeyEvent(code, down) PROVE QueueStep
  <2> DEFINE raw == Transition(code, NewState(code, down))
  <2>1. Push(raw) /\ sdr' = sdr
    BY <1>1 DEF KeyEvent, port
  <2>2. raw \in Transitions /\ raw \in Raw
    BY KeyboardAssumption DEF Transition, Transitions, Raw, KeyUp
  <2> HIDE DEF raw
  <2>3. CASE Full
    <3>1. UNCHANGED Queued
      BY <2>1, <2>3, SameQueue DEF Push
    <3>2. QED
      BY <2>1, <3>1
  <2>4. CASE ~Full
    <3>1. Len(Queued) < QueueSize - 1 /\ Queued' = Append(Queued, Encode(raw))
      BY <2>1, <2>2, <2>4, PushAccepts
    <3>2. QED
      BY <2>1, <2>2, <3>1
  <2>5. QED
    BY <2>3, <2>4
<1>2. CASE Reset
  <2>1. Pending' = 2 /\ Contents'[1] = InitiatePowerUp /\ Contents'[2] = TerminatePowerUp
    BY <1>2, ResetClears
  <2>2. Queued' = PowerUpStream
    BY <2>1, QueuedShapeNext, PowerUpQueued DEF QueuedShape
  <2>3. QED
    BY <1>2, <2>2 DEF Reset
<1>3. CASE Send
  BY <1>3, SendDelivers
<1>4. CASE ResetInstruction
  BY <1>4, SameQueue DEF ResetInstruction
<1>5. CASE Wait \/ Handler \/ SwitchPort \/ UNCHANGED vars
  <2>1. UNCHANGED <<ring, sdr>>
    BY <1>5 DEF Wait, Handler, Serve, ReadSdr, PullLine, ReleaseLine, SwitchPort, vars,
                port
  <2>2. QED
    BY <2>1, SameQueue
<1>6. QED
  BY <1>1, <1>2, <1>3, <1>4, <1>5 DEF Next, Host, Tick

\* The ring buffer, the serial port and the handshake together make a FIFO that drops
\* the newest event when it is full, loses none that it took, repeats none and keeps
\* their order (keyboard.hpp; cia.cpp, serial_input).
THEOREM KeyboardIsFifo == Spec => ImplementsFifo
<1>1. Init => Fifo!Init
  BY QueuedAtInit DEF Fifo!Init, Init, Queued, PowerUpStream
<1>2. TypeOK /\ TypeOK' /\ [Next]_vars => [Fifo!Next]_<<Queued, sdr>>
  BY FifoStep DEF QueueStep, Queued, PowerUpStream, Fifo!Next, Fifo!Accept, Fifo!Drop, Fifo!Send,
                  Fifo!Clear, Fifo!Forget
<1>3. QED
  BY <1>1, <1>2, TypeCorrect, PTL DEF Spec, ImplementsFifo, Fifo!Spec, Queued
==============================================================================
