---------------------------- MODULE UnitsProofs ----------------------------
(***************************************************************************)
(* Proofs about the units that stand on their own: HostInput, for every    *)
(* set of keys, keycodes and gamepad buttons; the frame pacer, for every   *)
(* frame time, lag and host; PaulaAudio, for every size of chip RAM and of *)
(* the counters, and whatever programs write; and Sprites, for every size  *)
(* of the display, the log and the line's starts, and whatever programs    *)
(* and chip RAM hold.                                                      *)
(***************************************************************************)
EXTENDS HostInput, FramePacer, PaulaAudio, Sprites, FiniteSetTheorems, SequenceTheorems, Recursion, TLAPS

-----------------------------------------------------------------------------
(* How many pad buttons hold a key.                                        *)

LEMMA ByPadFinite ==
  ASSUME NEW held \in SUBSET Buttons, NEW c \in Codes
  PROVE  IsFiniteSet({b \in held : c \in PadKeys[b]})
<1>1. {b \in held : c \in PadKeys[b]} \in SUBSET Buttons
  OBVIOUS
<1>2. QED
  BY <1>1, HostInputAssumption, FS_Subset

LEMMA ByPadIsNat ==
  ASSUME NEW held \in SUBSET Buttons, NEW c \in Codes
  PROVE  ByPad(held)[c] \in Nat
  BY ByPadFinite, FS_CardinalityType DEF ByPad

LEMMA ByPadNone ==
  ASSUME NEW c \in Codes
  PROVE  ByPad({})[c] = 0
<1>1. {b \in {} : c \in PadKeys[b]} = {}
  OBVIOUS
<1>2. QED
  BY <1>1, FS_EmptySet DEF ByPad

LEMMA ByPadOne ==
  ASSUME NEW b \in Buttons, NEW c \in Codes
  PROVE  ByPad({b})[c] = IF c \in PadKeys[b] THEN 1 ELSE 0
<1>1. {x \in {b} : c \in PadKeys[x]} = IF c \in PadKeys[b] THEN {b} ELSE {}
  OBVIOUS
<1>2. Cardinality({b}) = 1
  BY FS_Singleton
<1>3. QED
  BY <1>1, <1>2, FS_EmptySet DEF ByPad

\* A button that is pressed adds its own keys to the counts, and takes them away when
\* it is released.
LEMMA ByPadAdds ==
  ASSUME NEW held \in SUBSET Buttons, NEW b \in Buttons \ held, NEW c \in Codes
  PROVE  ByPad(held \cup {b})[c] = ByPad(held)[c] + ByPad({b})[c]
<1> DEFINE H == {x \in held : c \in PadKeys[x]}
<1>1. IsFiniteSet(H) /\ b \notin H
  BY ByPadFinite
<1>2. {x \in held \cup {b} : c \in PadKeys[x]} = IF c \in PadKeys[b] THEN H \cup {b} ELSE H
  OBVIOUS
<1>3. Cardinality(H \cup {b}) = Cardinality(H) + 1 /\ Cardinality(H) \in Nat
  <2> HIDE DEF H
  <2> QED
    BY <1>1, FS_AddElement, FS_CardinalityType
<1>4. ByPad({b})[c] = IF c \in PadKeys[b] THEN 1 ELSE 0
  BY ByPadOne
<1>5. ByPad(held)[c] = Cardinality(H)
  BY DEF ByPad
<1>6. ByPad(held \cup {b})[c] = Cardinality(IF c \in PadKeys[b] THEN H \cup {b} ELSE H)
  BY <1>2 DEF ByPad
<1> HIDE DEF H
<1>7. QED
  BY <1>3, <1>4, <1>5, <1>6

LEMMA ByPadDrops ==
  ASSUME NEW held \in SUBSET Buttons, NEW b \in held, NEW c \in Codes
  PROVE  ByPad(held \ {b})[c] = ByPad(held)[c] - ByPad({b})[c]
<1>1. held \ {b} \in SUBSET Buttons /\ b \in Buttons \ (held \ {b})
  OBVIOUS
<1>2. held = (held \ {b}) \cup {b}
  OBVIOUS
<1>3. ByPad(held)[c] = ByPad(held \ {b})[c] + ByPad({b})[c]
  BY <1>1, <1>2, ByPadAdds
<1>4. ByPad(held \ {b})[c] \in Nat /\ ByPad({b})[c] \in Nat
  BY <1>1, ByPadIsNat, ByPadOne
<1>5. QED
  BY <1>3, <1>4

-----------------------------------------------------------------------------
(* What the Amiga sees held is what the inputs hold.                       *)

\* The gamepad buttons held are buttons, and the counts are numbers.
Typed == pad_held \subseteq Buttons /\ holds \in [Codes -> Nat]

\* What the keyboard holds, by what the Amiga was told and not told.
KeyInputs ==
  /\ given \subseteq hostDown /\ given \subseteq Keys /\ amigaKeys \subseteq Codes
  /\ \A c \in keys_down : \E k \in given \cup taken : CodeOf[k] = c
  /\ \A k \in given : Alone(k) => CodeOf[k] \in keys_down

\* KeyHolds counts up and down, and the key goes down and up with it.
LEMMA PressCounts ==
  ASSUME Typed, KeysMatch, NEW n, \A c \in Codes : n[c] \in Nat, Press(n)
  PROVE  /\ holds' \in [Codes -> Nat]
         /\ \A c \in Codes : /\ holds'[c] = holds[c] + n[c]
                             /\ c \in amigaKeys' <=> holds'[c] > 0
  BY DEF Typed, KeysMatch, Press

LEMMA ReleaseCounts ==
  ASSUME Typed, KeysMatch, NEW n, \A c \in Codes : n[c] \in Nat /\ n[c] <= holds[c],
         Release(n)
  PROVE  /\ holds' \in [Codes -> Nat]
         /\ \A c \in Codes : /\ holds'[c] = holds[c] - n[c]
                             /\ c \in amigaKeys' <=> holds'[c] > 0
<1>1. /\ holds' \in [Codes -> Nat]
      /\ \A c \in Codes : holds'[c] = holds[c] - n[c]
  BY DEF Typed, Release
<1>2. \A c \in Codes : c \in amigaKeys' <=> holds'[c] > 0
  BY <1>1 DEF Typed, KeysMatch, Release, GoneUp
<1>3. QED
  BY <1>1, <1>2

LEMMA Counts ==
  ASSUME Typed, KeysMatch, NEW c \in Codes
  PROVE  /\ ByKeyboard(keys_down)[c] \in {0, 1}
         /\ ByPad(pad_held)[c] \in Nat
         /\ holds[c] = ByKeyboard(keys_down)[c] + ByPad(pad_held)[c]
  BY ByPadIsNat DEF Typed, KeysMatch, ByKeyboard

\* A button without a mouse button does not count for the mouse.
LEMMA MouseOfPad ==
  ASSUME NEW held, NEW b, PadMouse[b] = {}
  PROVE  /\ ByPadMouse(held \cup {b}) = ByPadMouse(held)
         /\ ByPadMouse(held \ {b}) = ByPadMouse(held)
  BY DEF ByPadMouse

\* A host key becomes, or stops being, one more input that holds its Amiga key.
LEMMA AmigaKeyMatches ==
  ASSUME Typed, KeysMatch, NEW c \in Codes, NEW down \in BOOLEAN, AmigaKey(c, down),
         UNCHANGED gamepad
  PROVE  Typed' /\ KeysMatch'
<1> USE DEF Typed, gamepad
<1>1. CASE (c \in keys_down) = down
  BY <1>1 DEF AmigaKey, KeysMatch, amiga, ByKeyboard, ByPad
<1>2. CASE (c \in keys_down) # down
  <2> DEFINE n == ByKeyboard({c})
  <2>1. \A d \in Codes : n[d] = IF d = c THEN 1 ELSE 0
    BY DEF ByKeyboard
  <2>2. \A d \in Codes : ByPad(pad_held)'[d] = ByPad(pad_held)[d]
    BY DEF ByPad
  <2> HIDE DEF n
  <2>3. CASE down
    <3>1. Press(n) /\ c \notin keys_down /\ keys_down' = keys_down \cup {c}
      BY <1>2, <2>3 DEF AmigaKey, n
    <3>2. /\ holds' \in [Codes -> Nat]
          /\ \A d \in Codes : /\ holds'[d] = holds[d] + n[d]
                              /\ d \in amigaKeys' <=> holds'[d] > 0
      BY <2>1, <3>1, PressCounts
    <3>3. \A d \in Codes :
            ByKeyboard(keys_down)'[d] = ByKeyboard(keys_down)[d] + n[d]
      BY <2>1, <3>1 DEF ByKeyboard
    <3>4. \A d \in Codes :
            holds'[d] = ByKeyboard(keys_down)'[d] + ByPad(pad_held)'[d]
      <4> TAKE d \in Codes
      <4>1. QED
        BY <2>1, <2>2, <3>2, <3>3, Counts
    <3>5. QED
      BY <3>2, <3>4 DEF KeysMatch
  <2>4. CASE ~down
    <3>1. Release(n) /\ c \in keys_down /\ keys_down' = keys_down \ {c}
      BY <1>2, <2>4 DEF AmigaKey, n
    <3>2. \A d \in Codes : n[d] \in Nat /\ n[d] <= holds[d]
      <4> TAKE d \in Codes
      <4>1. d = c => ByKeyboard(keys_down)[d] = 1
        BY <3>1 DEF ByKeyboard
      <4>2. QED
        BY <2>1, <4>1, Counts
    <3>3. /\ holds' \in [Codes -> Nat]
          /\ \A d \in Codes : /\ holds'[d] = holds[d] - n[d]
                              /\ d \in amigaKeys' <=> holds'[d] > 0
      BY <3>1, <3>2, ReleaseCounts
    <3>4. \A d \in Codes :
            ByKeyboard(keys_down)'[d] = ByKeyboard(keys_down)[d] - n[d]
      BY <2>1, <3>1 DEF ByKeyboard
    <3>5. \A d \in Codes :
            holds'[d] = ByKeyboard(keys_down)'[d] + ByPad(pad_held)'[d]
      <4> TAKE d \in Codes
      <4>1. QED
        BY <2>1, <2>2, <3>3, <3>4, Counts
    <3>6. QED
      BY <3>3, <3>5 DEF KeysMatch
  <2>5. QED
    BY <2>3, <2>4
<1>3. QED
  BY <1>1, <1>2

\* The mode switch lets go of every key the keyboard holds.
LEMMA ToggleMatches ==
  ASSUME Typed, KeysMatch, NEW down \in BOOLEAN, Toggle(down), UNCHANGED gamepad
  PROVE  Typed' /\ KeysMatch'
<1> USE DEF Typed, gamepad
<1>1. CASE ~down
  BY <1>1 DEF Toggle, KeysMatch, amiga, ByKeyboard, ByPad
<1>2. CASE down
  <2> DEFINE n == ByKeyboard(keys_down)
  <2>1. Release(n) /\ keys_down' = {}
    BY <1>2 DEF Toggle, StillDown
  <2>2. \A d \in Codes : n[d] \in Nat /\ n[d] <= holds[d] /\ n[d] + ByPad(pad_held)[d] = holds[d]
    <3> TAKE d \in Codes
    <3>1. QED
      BY Counts
  <2>3. \A d \in Codes : /\ ByPad(pad_held)'[d] = ByPad(pad_held)[d]
                         /\ ByPad(pad_held)[d] \in Nat
                         /\ ByKeyboard(keys_down)'[d] = 0
    BY <2>1, Counts DEF ByPad, ByKeyboard
  <2> HIDE DEF n
  <2>4. /\ holds' \in [Codes -> Nat]
        /\ \A d \in Codes : /\ holds'[d] = holds[d] - n[d]
                            /\ d \in amigaKeys' <=> holds'[d] > 0
    BY <2>1, <2>2, ReleaseCounts
  <2>5. \A d \in Codes : holds'[d] = ByKeyboard(keys_down)'[d] + ByPad(pad_held)'[d]
    <3> TAKE d \in Codes
    <3>1. QED
      BY <2>2, <2>3, <2>4
  <2>6. QED
    BY <2>4, <2>5 DEF KeysMatch
<1>3. QED
  BY <1>1, <1>2

LEMMA PadButtonMatches ==
  ASSUME Typed, KeysMatch, NEW b \in Buttons, NEW down \in BOOLEAN, OnPadButton(b, down)
  PROVE  Typed' /\ KeysMatch'
<1> DEFINE n == ByPad({b})
<1>1. \A d \in Codes : n[d] \in Nat
  BY ByPadOne
<1>2. keys_down' = keys_down
  BY DEF OnPadButton, keyboard
<1>3. \A d \in Codes : ByKeyboard(keys_down)'[d] = ByKeyboard(keys_down)[d]
  BY <1>2
<1>4. CASE down
  <2>1. Press(n) /\ b \notin pad_held /\ pad_held' = pad_held \cup {b}
    BY <1>4 DEF OnPadButton
  <2>2. \A d \in Codes : ByPad(pad_held)'[d] = ByPad(pad_held)[d] + n[d]
    BY <2>1, ByPadAdds DEF Typed
  <2> HIDE DEF n
  <2>3. /\ holds' \in [Codes -> Nat]
        /\ \A d \in Codes : /\ holds'[d] = holds[d] + n[d]
                            /\ d \in amigaKeys' <=> holds'[d] > 0
    BY <1>1, <2>1, PressCounts
  <2>4. \A d \in Codes : holds'[d] = ByKeyboard(keys_down)'[d] + ByPad(pad_held)'[d]
    <3> TAKE d \in Codes
    <3>1. QED
      BY <1>1, <1>3, <2>2, <2>3, Counts
  <2>5. QED
    BY <2>1, <2>3, <2>4 DEF KeysMatch, Typed
<1>5. CASE ~down
  <2>1. Release(n) /\ b \in pad_held /\ pad_held' = pad_held \ {b}
    BY <1>5 DEF OnPadButton
  <2>2. \A d \in Codes : /\ ByPad(pad_held)'[d] = ByPad(pad_held)[d] - n[d]
                         /\ ByPad(pad_held)'[d] \in Nat
    BY <2>1, ByPadDrops, ByPadIsNat DEF Typed
  <2> HIDE DEF n
  <2>3. \A d \in Codes : n[d] <= holds[d]
    <3> TAKE d \in Codes
    <3>1. QED
      BY <1>1, <2>2, Counts
  <2>4. /\ holds' \in [Codes -> Nat]
        /\ \A d \in Codes : /\ holds'[d] = holds[d] - n[d]
                            /\ d \in amigaKeys' <=> holds'[d] > 0
    BY <1>1, <2>1, <2>3, ReleaseCounts
  <2>5. \A d \in Codes : holds'[d] = ByKeyboard(keys_down)'[d] + ByPad(pad_held)'[d]
    <3> TAKE d \in Codes
    <3>1. QED
      BY <1>1, <1>3, <2>2, <2>4, Counts
  <2>6. QED
    BY <2>1, <2>4, <2>5 DEF KeysMatch, Typed
<1>6. QED
  BY <1>4, <1>5

\* A gamepad that is lost takes with it exactly what its buttons held.
LEMMA PadLostMatches ==
  ASSUME Typed, KeysMatch, GamepadRemoved
  PROVE  Typed' /\ KeysMatch'
<1> DEFINE n == ByPad(pad_held)
<1>1. Release(n) /\ keys_down' = keys_down /\ pad_held' = {}
  BY DEF GamepadRemoved, ReleasePad, PadReleased, keyboard
<1>2. \A d \in Codes : n[d] \in Nat /\ n[d] <= holds[d]
                       /\ holds[d] - n[d] = ByKeyboard(keys_down)[d]
  <2> TAKE d \in Codes
  <2>1. QED
    BY Counts
<1>3. \A d \in Codes : /\ ByPad(pad_held)'[d] = 0
                       /\ ByKeyboard(keys_down)'[d] = ByKeyboard(keys_down)[d]
                       /\ ByKeyboard(keys_down)[d] \in Nat
  BY <1>1, ByPadNone, Counts
<1> HIDE DEF n
<1>4. /\ holds' \in [Codes -> Nat]
      /\ \A d \in Codes : /\ holds'[d] = holds[d] - n[d]
                          /\ d \in amigaKeys' <=> holds'[d] > 0
  BY <1>1, <1>2, ReleaseCounts
<1>5. \A d \in Codes : holds'[d] = ByKeyboard(keys_down)'[d] + ByPad(pad_held)'[d]
  <2> TAKE d \in Codes
  <2>1. QED
    BY <1>2, <1>3, <1>4
<1>6. QED
  BY <1>1, <1>4, <1>5 DEF KeysMatch, Typed

\* And so does losing the focus, for the keyboard and the gamepad at once.
LEMMA FocusLostMatches ==
  ASSUME Typed, KeysMatch, FocusLost
  PROVE  Typed' /\ KeysMatch'
<1> DEFINE n == Both(ByKeyboard(keys_down), ByPad(pad_held))
<1>1. Release(n) /\ keys_down' = {} /\ pad_held' = {}
  BY DEF FocusLost
<1>2. \A d \in Codes : n[d] = ByKeyboard(keys_down)[d] + ByPad(pad_held)[d]
  BY DEF Both
<1>3. \A d \in Codes : n[d] = holds[d] /\ holds[d] \in Nat
  BY <1>2 DEF KeysMatch, Typed
<1>4. \A d \in Codes : ByPad(pad_held)'[d] = 0 /\ ByKeyboard(keys_down)'[d] = 0
  BY <1>1, ByPadNone DEF ByKeyboard
<1> HIDE DEF n
<1>5. \A d \in Codes : n[d] \in Nat /\ n[d] <= holds[d]
  BY <1>3
<1>6. /\ holds' \in [Codes -> Nat]
      /\ \A d \in Codes : /\ holds'[d] = holds[d] - n[d]
                          /\ d \in amigaKeys' <=> holds'[d] > 0
  BY <1>1, <1>5, ReleaseCounts
<1>7. \A d \in Codes : holds'[d] = ByKeyboard(keys_down)'[d] + ByPad(pad_held)'[d]
  <2> TAKE d \in Codes
  <2>1. QED
    BY <1>3, <1>4, <1>6
<1>8. QED
  BY <1>1, <1>6, <1>7 DEF KeysMatch, Typed

LEMMA KeysMatchNext == Typed /\ KeysMatch /\ [Next]_vars => Typed' /\ KeysMatch'
<1> SUFFICES ASSUME Typed, KeysMatch, [Next]_vars PROVE Typed' /\ KeysMatch'
  OBVIOUS
<1>1. ASSUME UNCHANGED <<keys_down, gamepad, amiga>> PROVE Typed' /\ KeysMatch'
  BY <1>1 DEF gamepad, amiga, Typed, KeysMatch, ByKeyboard, ByPad
<1>2. ASSUME NEW k \in Keys, NEW down \in BOOLEAN, OnKey(k, down)
      PROVE  Typed' /\ KeysMatch'
  <2>1. UNCHANGED gamepad
    BY <1>2 DEF OnKey
  <2>2. CASE Toggle(down)
    BY <2>1, <2>2, ToggleMatches
  <2>3. CASE AmigaKey(CodeOf[k], down)
    <3>1. CodeOf[k] \in Codes
      BY HostInputAssumption
    <3>2. QED
      BY <2>1, <2>3, <3>1, AmigaKeyMatches
  <2>4. CASE StickKey(k, down) \/ UNCHANGED <<keys_down, joystick, amiga>>
    BY <1>1, <2>1, <2>4 DEF StickKey
  <2>5. QED
    <3>1. \/ Toggle(down) \/ AmigaKey(CodeOf[k], down)
          \/ StickKey(k, down) \/ UNCHANGED <<keys_down, joystick, amiga>>
      BY <1>2 DEF OnKey
    <3>2. QED
      BY <2>2, <2>3, <2>4, <3>1
<1>3. ASSUME NEW down \in BOOLEAN, NEW m \in MouseButtons, OnButton(m, down)
      PROVE  Typed' /\ KeysMatch'
  BY <1>1, <1>3 DEF OnButton, keyboard
<1>4. ASSUME NEW down \in BOOLEAN, F12(down) PROVE Typed' /\ KeysMatch'
  BY <1>1, <1>4 DEF F12
<1>5. CASE GamepadAdded \/ UNCHANGED vars
  BY <1>5 DEF GamepadAdded, vars, keyboard, gamepad, amiga, Typed, KeysMatch, ByKeyboard,
              ByPad
<1>6. QED
  BY <1>2, <1>3, <1>4, <1>5, PadButtonMatches, PadLostMatches, FocusLostMatches DEF Next

LEMMA MouseMatchesNext == MouseMatches /\ [Next]_vars => MouseMatches'
<1> SUFFICES ASSUME MouseMatches, [Next]_vars PROVE MouseMatches'
  OBVIOUS
<1> USE DEF MouseMatches
<1>1. ByPadMouse({}) = {}
  BY DEF ByPadMouse
<1>2. ASSUME UNCHANGED <<gamepad, pointer>> PROVE MouseMatches'
  BY <1>2 DEF gamepad, pointer
<1>3. ASSUME NEW down \in BOOLEAN, F12(down) PROVE MouseMatches'
  BY <1>3 DEF F12, LetGo, gamepad, pointer
<1>4. ASSUME NEW k \in Keys, NEW down \in BOOLEAN, OnKey(k, down) PROVE MouseMatches'
  BY <1>2, <1>4 DEF OnKey
<1>5. ASSUME NEW b \in Buttons, NEW down \in BOOLEAN, OnPadButton(b, down)
      PROVE  MouseMatches'
  <2>1. /\ pad /\ UNCHANGED <<pad, captured, mouse>>
        /\ pad_held' = IF down THEN pad_held \cup {b} ELSE pad_held \ {b}
        /\ amigaMouse' = IF PadMouse[b] = {} THEN amigaMouse
                         ELSE mouse \cup ByPadMouse(pad_held')
    BY <1>5 DEF OnPadButton
  <2>2. ASSUME PadMouse[b] = {} PROVE ByPadMouse(pad_held') = ByPadMouse(pad_held)
    <3>1. /\ ByPadMouse(pad_held \cup {b}) = ByPadMouse(pad_held)
          /\ ByPadMouse(pad_held \ {b}) = ByPadMouse(pad_held)
      BY <2>2, MouseOfPad
    <3>2. QED
      BY <2>1, <3>1
  <2>3. QED
    BY <2>1, <2>2
<1>6. ASSUME NEW m \in MouseButtons, NEW down \in BOOLEAN, OnButton(m, down)
      PROVE  MouseMatches'
  BY <1>6 DEF OnButton, gamepad
<1>7. CASE GamepadAdded
  BY <1>7 DEF GamepadAdded, pointer
<1>8. CASE GamepadRemoved
  BY <1>1, <1>8 DEF GamepadRemoved, ReleasePad, PadReleased
<1>9. CASE FocusLost
  BY <1>1, <1>9 DEF FocusLost
<1>10. CASE UNCHANGED vars
  BY <1>2, <1>10 DEF vars
<1>11. QED
  BY <1>3, <1>4, <1>5, <1>6, <1>7, <1>8, <1>9, <1>10 DEF Next

LEMMA ModesApartNext == ModesApart /\ [Next]_vars => ModesApart'
<1> SUFFICES ASSUME ModesApart, [Next]_vars PROVE ModesApart'
  OBVIOUS
<1> USE DEF ModesApart
<1>1. ASSUME UNCHANGED <<keys_down, joystick>> PROVE ModesApart'
  BY <1>1 DEF joystick
<1>2. ASSUME NEW k \in Keys, NEW down \in BOOLEAN, OnKey(k, down) PROVE ModesApart'
  <2>1. CASE Toggle(down)
    BY <2>1 DEF Toggle, StillDown, joystick
  <2>2. CASE IsJoystick(k) /\ StickKey(k, down)
    BY <2>2 DEF IsJoystick, StickKey
  <2>3. CASE UNCHANGED <<keys_down, joystick, amiga>>
    BY <1>1, <2>3
  <2>4. CASE ~IsJoystick(k) /\ AmigaKey(CodeOf[k], down)
    <3>1. UNCHANGED joystick /\ keys_down' \subseteq keys_down \cup {CodeOf[k]}
      BY <2>4 DEF AmigaKey
    <3>2. joyOn => k \in Keys \ JoyKeys
      BY <2>4 DEF IsJoystick
    <3>3. QED
      BY <3>1, <3>2 DEF joystick
  <2>5. QED
    BY <1>2, <2>1, <2>2, <2>3, <2>4 DEF OnKey, IsAmiga
<1>3. ASSUME NEW down \in BOOLEAN, F12(down) PROVE ModesApart'
  BY <1>1, <1>3 DEF F12
<1>4. CASE GamepadAdded \/ GamepadRemoved \/ UNCHANGED vars
  BY <1>4 DEF GamepadAdded, GamepadRemoved, vars, keyboard, joystick
<1>5. ASSUME NEW b \in Buttons, NEW down \in BOOLEAN, OnPadButton(b, down)
      PROVE  ModesApart'
  BY <1>5 DEF OnPadButton, keyboard, joystick
<1>6. ASSUME NEW m \in MouseButtons, NEW down \in BOOLEAN, OnButton(m, down)
      PROVE  ModesApart'
  BY <1>6 DEF OnButton, keyboard, joystick
<1>7. CASE FocusLost
  BY <1>7 DEF FocusLost
<1>8. QED
  BY <1>2, <1>3, <1>4, <1>5, <1>6, <1>7 DEF Next

LEMMA PressReleaseCodes ==
  ASSUME amigaKeys \subseteq Codes, NEW n, Press(n) \/ Release(n)
  PROVE  amigaKeys' \subseteq Codes
  BY DEF Press, Release

\* A key that is passed on is what the keyboard now holds, or no longer holds.
LEMMA AmigaKeyInputs ==
  ASSUME KeyInputs, NEW k \in Keys, NEW down \in BOOLEAN, AmigaKey(CodeOf[k], down),
         IsAmiga(k), Noted(k, down), Moves(k, down)
  PROVE  KeyInputs'
<1> DEFINE c == CodeOf[k]
<1> USE DEF KeyInputs
<1>1. amigaKeys' \subseteq Codes
  BY PressReleaseCodes DEF AmigaKey, amiga
<1>2. given' = (IF down THEN given \cup {k} ELSE given \ {k}) /\ taken' = taken \ {k}
  BY DEF Noted, IsAmiga
<1>3. keys_down' = IF down THEN keys_down \cup {c} ELSE keys_down \ {c}
  BY DEF AmigaKey
<1>4. \A j \in Keys : Alone(j)' = Alone(j)
  BY DEF Alone
<1>5. given' \subseteq hostDown' /\ given' \subseteq Keys
  BY <1>2 DEF Moves
<1>6. \A d \in keys_down' : \E j \in given' \cup taken' : CodeOf[j] = d
  <2> SUFFICES ASSUME NEW d \in keys_down' PROVE \E j \in given' \cup taken' : CodeOf[j] = d
    OBVIOUS
  <2>1. CASE d = c
    BY <1>2, <1>3, <2>1
  <2>2. CASE d # c
    <3>1. PICK j \in given \cup taken : CodeOf[j] = d
      BY <1>3, <2>2
    <3>2. j # k
      BY <2>2, <3>1
    <3>3. QED
      BY <1>2, <3>1, <3>2
  <2>3. QED
    BY <2>1, <2>2
<1>7. \A j \in given' : Alone(j)' => CodeOf[j] \in keys_down'
  <2> SUFFICES ASSUME NEW j \in given', Alone(j) PROVE CodeOf[j] \in keys_down'
    BY <1>4, <1>5
  <2>1. CASE j = k
    BY <1>2, <1>3, <2>1
  <2>2. CASE j # k
    <3>1. j \in given /\ CodeOf[j] \in keys_down /\ CodeOf[j] # c
      BY <1>2, <2>2 DEF Alone
    <3>2. QED
      BY <1>3, <3>1
  <2>3. QED
    BY <2>1, <2>2
<1>8. QED
  BY <1>1, <1>5, <1>6, <1>7

\* A key with another meaning is not; going up it leaves what it held.
LEMMA OtherKeyInputs ==
  ASSUME KeyInputs, NEW k \in Keys, NEW down \in BOOLEAN, UNCHANGED <<keys_down, amiga>>,
         ~IsAmiga(k), ~(IsToggle(k) /\ down), Noted(k, down), Moves(k, down)
  PROVE  KeyInputs'
<1> USE DEF KeyInputs
<1>1. /\ given' = IF down THEN given ELSE given \ {k}
      /\ given' \cup taken' = given \cup taken
  BY DEF Noted
<1>2. given' \subseteq given /\ given' \subseteq hostDown' /\ keys_down' = keys_down /\ amigaKeys' = amigaKeys
  BY <1>1 DEF Moves, amiga
<1>3. \A j \in Keys : Alone(j)' = Alone(j)
  BY DEF Alone
<1>4. QED
  BY <1>1, <1>2, <1>3

LEMMA KeyInputsNext == KeyInputs /\ [Next]_vars => KeyInputs'
<1> SUFFICES ASSUME KeyInputs, [Next]_vars PROVE KeyInputs'
  OBVIOUS
<1> USE DEF KeyInputs
<1>1. \A j \in Keys : Alone(j)' = Alone(j)
  BY DEF Alone
<1>2. ASSUME UNCHANGED <<hostDown, keys_down, given, taken>>, amigaKeys' \subseteq Codes
      PROVE  KeyInputs'
  BY <1>1, <1>2
<1>3. ASSUME NEW k \in Keys, NEW down \in BOOLEAN, OnKey(k, down)
      PROVE  KeyInputs'
  <2>1. Moves(k, down) /\ Noted(k, down)
    BY <1>3 DEF OnKey
  <2>2. CASE IsToggle(k) /\ Toggle(down) /\ down
    <3>1. given' = {} /\ taken' = {} /\ keys_down' = {} /\ amigaKeys' \subseteq Codes
      BY <2>1, <2>2, PressReleaseCodes DEF Noted, IsAmiga, Toggle, StillDown
    <3>2. QED
      BY <3>1
  <2>3. CASE IsToggle(k) /\ Toggle(down) /\ ~down
    BY <2>1, <2>3, OtherKeyInputs DEF Toggle, IsAmiga
  <2>4. CASE IsJoystick(k) /\ StickKey(k, down)
    BY <2>1, <2>4, OtherKeyInputs, HostInputAssumption DEF StickKey, IsAmiga, IsToggle, IsJoystick
  <2>5. CASE IsDisk(k) /\ UNCHANGED <<keys_down, joystick, amiga>>
    BY <2>1, <2>5, OtherKeyInputs, HostInputAssumption DEF IsAmiga, IsToggle, IsDisk
  <2>6. CASE IsAmiga(k) /\ AmigaKey(CodeOf[k], down)
    BY <2>1, <2>6, AmigaKeyInputs
  <2>7. QED
    BY <1>3, <2>2, <2>3, <2>4, <2>5, <2>6 DEF OnKey
<1>4. ASSUME NEW down \in BOOLEAN, F12(down) PROVE KeyInputs'
  BY <1>2, <1>4 DEF F12, amiga
<1>5. ASSUME NEW b \in Buttons, NEW down \in BOOLEAN, OnPadButton(b, down)
      PROVE  KeyInputs'
  BY <1>2, <1>5, PressReleaseCodes DEF OnPadButton, keyboard
<1>6. ASSUME NEW m \in MouseButtons, NEW down \in BOOLEAN, OnButton(m, down)
      PROVE  KeyInputs'
  BY <1>2, <1>6 DEF OnButton, keyboard, amiga
<1>7. CASE GamepadAdded
  BY <1>2, <1>7 DEF GamepadAdded, keyboard, amiga
<1>8. CASE GamepadRemoved
  BY <1>2, <1>8, PressReleaseCodes DEF GamepadRemoved, keyboard
<1>9. CASE FocusLost
  BY <1>9, PressReleaseCodes DEF FocusLost
<1>10. CASE UNCHANGED vars
  BY <1>2, <1>10 DEF vars, keyboard, amiga
<1>11. QED
  BY <1>3, <1>4, <1>5, <1>6, <1>7, <1>8, <1>9, <1>10 DEF Next

\* What is counted is what is held: the inputs, by way of the counts.
LEMMA InputsCounted ==
  ASSUME Typed, KeysMatch, KeyInputs
  PROVE  InputsMatch
<1>1. ASSUME NEW c \in Codes
      PROVE  /\ c \in amigaKeys <=> c \in keys_down \/ ByPad(pad_held)[c] > 0
             /\ ByPad(pad_held)[c] > 0 <=> \E b \in pad_held : c \in PadKeys[b]
  <2>1. c \in amigaKeys <=> c \in keys_down \/ ByPad(pad_held)[c] > 0
    <3>1. ByKeyboard(keys_down)[c] = IF c \in keys_down THEN 1 ELSE 0
      BY DEF ByKeyboard
    <3>2. c \in amigaKeys <=> ByKeyboard(keys_down)[c] + ByPad(pad_held)[c] > 0
      BY DEF KeysMatch
    <3>3. ByPad(pad_held)[c] \in Nat
      BY Counts
    <3>4. QED
      BY <3>1, <3>2, <3>3
  <2> DEFINE H == {b \in pad_held : c \in PadKeys[b]}
  <2>2. IsFiniteSet(H) /\ ByPad(pad_held)[c] = Cardinality(H)
    BY ByPadFinite DEF Typed, ByPad
  <2>3. ByPad(pad_held)[c] > 0 <=> H # {}
    <3> HIDE DEF H
    <3>1. Cardinality(H) \in Nat /\ (Cardinality(H) = 0 <=> H = {})
      BY <2>2, FS_CardinalityType, FS_EmptySet
    <3>2. QED
      BY <2>2, <3>1
  <2>4. QED
    BY <2>1, <2>3
<1>2. \A c \in amigaKeys : \/ \E k \in given \cup taken : CodeOf[k] = c
                           \/ \E b \in pad_held : c \in PadKeys[b]
  BY <1>1 DEF KeyInputs
<1>3. \A k \in given : Alone(k) => CodeOf[k] \in amigaKeys
  <2>1. \A k \in given : CodeOf[k] \in Codes
    BY HostInputAssumption DEF KeyInputs
  <2>2. QED
    BY <1>1, <2>1 DEF KeyInputs
<1>4. \A b \in pad_held : PadKeys[b] \subseteq amigaKeys
  <2>1. \A b \in pad_held : PadKeys[b] \subseteq Codes
    BY HostInputAssumption DEF Typed
  <2>2. QED
    BY <1>1, <2>1
<1>5. QED
  BY <1>2, <1>3, <1>4 DEF InputsMatch, KeyInputs

\* Whatever the order of key, button, gamepad and focus events, what the Amiga sees held
\* is what the host's keys and buttons hold, but for a release that F12 took and for two
\* host keys of one Amiga key (gamepad_mapping.hpp, KeyHolds; main.cpp, HostInput).
THEOREM HoldsMatchAlways == Spec => []HoldsMatch
<1>1. Init => Typed /\ KeysMatch
  <2> SUFFICES ASSUME Init PROVE Typed /\ KeysMatch
    OBVIOUS
  <2>1. \A c \in Codes : ByPad(pad_held)[c] = 0 /\ ByKeyboard(keys_down)[c] = 0
    BY ByPadNone DEF Init, ByKeyboard
  <2>2. QED
    BY <2>1 DEF Init, Typed, KeysMatch
<1>2. Init => MouseMatches /\ ModesApart /\ KeyInputs
  BY DEF Init, MouseMatches, ModesApart, ByPadMouse, KeyInputs
<1>3. Spec => [](Typed /\ KeysMatch /\ KeyInputs /\ MouseMatches /\ ModesApart)
  BY <1>1, <1>2, KeysMatchNext, KeyInputsNext, MouseMatchesNext, ModesApartNext, PTL DEF Spec
<1>4. Typed /\ KeysMatch /\ KeyInputs /\ MouseMatches /\ ModesApart => HoldsMatch
  BY InputsCounted DEF HoldsMatch
<1>5. QED
  BY <1>3, <1>4, PTL

-----------------------------------------------------------------------------
(* The frame pacer.                                                        *)

\* The frames run ahead and the lag add up to MaxLag and one frame at most:
\* catching up uses up the lag.
InBalance == burst + behind <= MaxLag + FrameTime
Bounded   == behind \in Int /\ burst \in Nat /\ behind >= -FrameTime

\* While a frame is being emitted they balance; while main is about to sleep
\* they do, unless the frame took so long that nothing is left of the burst.
BurstUsesLag ==
  /\ Bounded
  /\ burst = 0 \/ InBalance
  /\ pacing \/ InBalance

THEOREM PacerInitially == PacerInit => BurstUsesLag
<1> SUFFICES ASSUME PacerInit PROVE BurstUsesLag
  OBVIOUS
<1>1. Bounded /\ InBalance
  BY PacerAssumption DEF PacerAssumption, PacerInit, Synchronised, Bounded, InBalance
<1> QED
  BY <1>1 DEF BurstUsesLag

\* A frame takes time: the lag grows by it, the burst shrinks by it, to 0 at
\* least.
LEMMA EmitKeeps ==
  ASSUME NEW delay \in Delays, NEW warp \in BOOLEAN, BurstUsesLag, EmitFrame(delay, warp)
  PROVE  BurstUsesLag'
<1>1. delay \in Nat
  BY PacerAssumption DEF PacerAssumption
<1>2. Bounded /\ InBalance
  BY Zenon DEF BurstUsesLag, EmitFrame
<1>3. CASE warp
  <2>1. behind' = Synchronised /\ burst' = 0
    BY <1>3, Zenon DEF EmitFrame
  <2>2. Bounded' /\ InBalance'
    BY <2>1, PacerAssumption DEF PacerAssumption, Synchronised, Bounded, InBalance
  <2> QED
    BY <2>2, Zenon DEF BurstUsesLag
<1>4. CASE ~warp
  <2>1. behind' = behind + delay /\ burst' = Later(burst, delay) /\ pacing'
    BY <1>4, Zenon DEF EmitFrame
  <2>2. Bounded' /\ (burst' = 0 \/ InBalance')
    BY <1>1, <1>2, <2>1, PacerAssumption DEF PacerAssumption, Later, Bounded, InBalance
  <2> QED
    BY <2>1, <2>2, Zenon DEF BurstUsesLag
<1> QED
  BY <1>3, <1>4

\* The deadline is reached before it is advanced, so that the new one is a
\* frame ahead at most; a lag past MaxLag is dropped, with no burst left then.
LEMMA SleepKeeps ==
  ASSUME NEW delay \in Delays, BurstUsesLag, SleepAndAdvance(delay)
  PROVE  BurstUsesLag'
<1> DEFINE slept == time_until_next_frame + delay
           late  == behind + slept
           left  == Later(burst, slept)
<1>1. delay \in Nat
  BY PacerAssumption DEF PacerAssumption
<1>2. Bounded /\ (burst = 0 \/ InBalance)
  BY Zenon DEF BurstUsesLag
<1>3. slept \in Nat /\ late \in Nat /\ left \in Nat
  BY <1>1, <1>2, PacerAssumption DEF PacerAssumption, Bounded, time_until_next_frame, Later
<1>4. left = 0 \/ left + late <= MaxLag + FrameTime
  BY <1>2, <1>3, PacerAssumption DEF PacerAssumption, Bounded, InBalance, Later
<1>5. behind' = frame_done(late) /\ burst' = left + FrameTime
  BY Zenon DEF SleepAndAdvance
<1> HIDE DEF late, left
<1>6. Bounded' /\ InBalance'
  BY <1>3, <1>4, <1>5, PacerAssumption
     DEF PacerAssumption, frame_done, Synchronised, Bounded, InBalance
<1> QED
  BY <1>6, Zenon DEF BurstUsesLag

\* The loop neither sleeps longer than a frame nor runs ahead of the clock by
\* more than it may catch up, and two frames.
THEOREM PacerSafe == PacerSpec => []NoBurst
<1>1. BurstUsesLag /\ [PacerNext]_pacerVars => BurstUsesLag'
  <2> SUFFICES ASSUME BurstUsesLag, [PacerNext]_pacerVars PROVE BurstUsesLag'
    OBVIOUS
  <2>1. CASE UNCHANGED pacerVars
    BY <2>1, Zenon DEF pacerVars, BurstUsesLag, Bounded, InBalance
  <2>2. CASE PacerNext
    BY <2>2, EmitKeeps, SleepKeeps, Zenon DEF PacerNext
  <2> QED
    BY <2>1, <2>2
<1>2. BurstUsesLag => NoBurst
  BY PacerAssumption DEF PacerAssumption, BurstUsesLag, Bounded, InBalance, NoBurst
<1> QED
  BY PacerInitially, <1>1, <1>2, PTL DEF PacerSpec

-----------------------------------------------------------------------------
(* The audio channels: types.                                              *)

CounterValues == 0 .. Wrap - 1
BufferType    == [location : Addresses, length : 1 .. Wrap]
ChannelType ==
  [location : Addresses, length : CounterValues, period : CounterValues, data : SampleWords, pointer : Addresses,
   remaining : Nat, countdown : Nat \ {0}, output : Int, low_byte : BOOLEAN, dma : BOOLEAN,
   manual : BOOLEAN]
SoundType ==
  [buffers : Seq(BufferType), k : Nat, from : Addresses, fresh : BOOLEAN, first : BOOLEAN]
ResultType == [ch : ChannelType, irq : BOOLEAN, sounding : SoundType]

AudioTyped ==
  /\ channels \in [Channels -> ChannelType]
  /\ sounding \in [Channels -> SoundType]
  /\ idle \in BOOLEAN /\ requests \subseteq Channels

LEMMA CountedType ==
  ASSUME NEW ch \in ChannelType
  PROVE  length_of(ch) \in 1 .. Wrap /\ period_of(ch) \in 1 .. Wrap /\ Buffer(ch) \in BufferType
<1>1. length_of(ch) \in 1 .. Wrap /\ period_of(ch) \in 1 .. Wrap
  BY AudioAssumption DEF ChannelType, CounterValues, length_of, period_of
<1>2. ch.location \in Addresses
  BY DEF ChannelType
<1>3. QED
  BY <1>1, <1>2 DEF Buffer, BufferType

-----------------------------------------------------------------------------
(* Addresses wrap.                                                         *)

LEMMA Scaled ==
  ASSUME NEW k \in Nat, NEW x \in Int, NEW y \in Int, x <= y
  PROVE  k * x <= k * y
  OBVIOUS

\* Counting on from a wrapped value.
LEMMA WrapsAt ==
  ASSUME NEW R \in Nat \ {0}, NEW x \in Nat
  PROVE  x % R \in 0 .. R - 1 /\ ((x % R) + 1) % R = (x + 1) % R
<1>1. R \in Nat \ {0}
  OBVIOUS
<1> DEFINE q == x \div R
           m == x % R
           u == (x + 1) \div R
           v == (x + 1) % R
<1>2. q \in Nat /\ m \in 0 .. R - 1 /\ x = R * q + m
  BY <1>1
<1>3. u \in Nat /\ v \in 0 .. R - 1 /\ x + 1 = R * u + v
  BY <1>1
<1>4. (m + 1) % R = IF m + 1 = R THEN 0 ELSE m + 1
  BY <1>1, <1>2
<1> HIDE DEF q, m, u, v
<1>5. /\ R * q \in Nat /\ R * u \in Nat
      /\ R * (q + 1) = R * q + R
      /\ R * (u + 1) = R * u + R
  BY <1>1, <1>2, <1>3
<1>6. q <= u
  <2>1. SUFFICES ASSUME u + 1 <= q PROVE FALSE
    BY <1>2, <1>3
  <2>2. R * (u + 1) <= R * q
    BY <1>1, <1>2, <1>3, <2>1, Scaled
  <2>3. QED
    BY <1>1, <1>2, <1>3, <1>5, <2>2
<1>7. u <= q + 1
  <2>1. SUFFICES ASSUME q + 2 <= u PROVE FALSE
    BY <1>2, <1>3
  <2>2. R * (q + 2) <= R * u
    BY <1>1, <1>2, <1>3, <2>1, Scaled
  <2>3. R * (q + 2) = R * q + R + R
    BY <1>1, <1>2
  <2>4. QED
    BY <1>1, <1>2, <1>3, <1>5, <2>2, <2>3
<1>8. u = q \/ u = q + 1
  BY <1>2, <1>3, <1>6, <1>7
<1>9. v = IF m + 1 = R THEN 0 ELSE m + 1
  BY <1>1, <1>2, <1>3, <1>5, <1>8
<1>10. QED
  BY <1>2, <1>4, <1>9 DEF m, v

LEMMA InRange ==
  ASSUME NEW x \in Addresses PROVE x % ChipRam = x
  BY AudioAssumption DEF Addresses

LEMMA Wraps ==
  ASSUME NEW x \in Nat
  PROVE  x % ChipRam \in Addresses /\ ((x % ChipRam) + 1) % ChipRam = (x + 1) % ChipRam
<1>1. ChipRam \in Nat \ {0}
  BY AudioAssumption
<1>2. QED
  BY <1>1, WrapsAt DEF Addresses

-----------------------------------------------------------------------------
(* A channel's clock.                                                      *)

\* What BuffersPlayWhole says of one channel, as an operator.
Plays(ch, s, irq) ==
  LET first == Head(s.buffers)
      last  == s.k = first.length
  IN ch.dma =>
       /\ Len(s.buffers) = IF last THEN 2 ELSE 1
       /\ s.k \in 1 .. first.length
       /\ s.from = (first.location + s.k - 1) % ChipRam
       /\ IF last THEN ch.pointer = s.buffers[2].location /\ ch.remaining = s.buffers[2].length
          ELSE ch.pointer = (s.from + 1) % ChipRam /\ ch.remaining = first.length - s.k
       /\ s.fresh => (irq <=> (last \/ s.first))

\* What holds before a word is fetched.
Ready(ch, s) ==
  LET b == s.buffers
  IN \/ /\ Len(b) = 1 /\ s.k < b[1].length
        /\ ch.pointer = (b[1].location + s.k) % ChipRam
        /\ ch.remaining = b[1].length - s.k
     \/ /\ Len(b) = 2 /\ s.k = b[1].length
        /\ ch.pointer = b[2].location
        /\ ch.remaining = b[2].length

LEMMA PlaysReady ==
  ASSUME NEW ch \in ChannelType, NEW s \in SoundType, NEW irq, ch.dma, Plays(ch, s, irq)
  PROVE  Ready(ch, s)
<1> DEFINE b == s.buffers
<1>1. b \in Seq(BufferType) /\ s.k \in Nat
  BY DEF SoundType
<1>2. Len(b) \in {1, 2} /\ Head(b) = b[1] /\ b[1] \in BufferType
  <2>1. Len(b) = 1 \/ Len(b) = 2
    BY DEF Plays
  <2>2. QED
    BY <1>1, <2>1
<1>3. b[1].location \in Nat /\ b[1].length \in Nat
  BY <1>2, AudioAssumption DEF BufferType, Addresses
<1>4. CASE s.k = b[1].length
  BY <1>2, <1>4 DEF Plays, Ready
<1>5. CASE s.k # b[1].length
  <2>1. /\ Len(b) = 1 /\ s.k \in 1 .. b[1].length
        /\ s.from = (b[1].location + s.k - 1) % ChipRam
        /\ ch.pointer = (s.from + 1) % ChipRam /\ ch.remaining = b[1].length - s.k
    BY <1>2, <1>5 DEF Plays
  <2>2. b[1].location + s.k - 1 \in Nat /\ (b[1].location + s.k - 1) + 1 = b[1].location + s.k
    BY <1>3, <2>1
  <2>3. ch.pointer = (b[1].location + s.k) % ChipRam
    BY <2>1, <2>2, Wraps
  <2>4. QED
    BY <1>1, <1>3, <1>5, <2>1, <2>3 DEF Ready
<1>6. QED
  BY <1>4, <1>5

LEMMA OneBuffer ==
  ASSUME NEW e \in BufferType, NEW f \in BufferType
  PROVE  /\ <<e>> \in Seq(BufferType) /\ Len(<<e>>) = 1 /\ Head(<<e>>) = e /\ <<e>>[1] = e
  OBVIOUS

LEMMA OneMore ==
  ASSUME NEW b \in Seq(BufferType), NEW e \in BufferType, Len(b) = 1
  PROVE  /\ Append(b, e) \in Seq(BufferType) /\ Len(Append(b, e)) = 2
         /\ Head(Append(b, e)) = Head(b) /\ Head(b) = b[1] /\ Append(b, e)[2] = e
<1> DEFINE c == Append(b, e)
<1>1. c \in Seq(BufferType) /\ Len(c) = Len(b) + 1
  BY AppendProperties
<1>2. \A i \in 1 .. Len(b) : c[i] = b[i]
  BY AppendProperties
<1>3. c[Len(b) + 1] = e
  BY AppendProperties
<1> HIDE DEF c
<1>4. Head(c) = c[1] /\ Head(b) = b[1] /\ c[1] = b[1] /\ c[2] = e
  BY <1>1, <1>2, <1>3
<1>5. QED
  BY <1>1, <1>4 DEF c

LEMMA OneLess ==
  ASSUME NEW b \in Seq(BufferType), Len(b) = 2
  PROVE  Tail(b) \in Seq(BufferType) /\ Len(Tail(b)) = 1 /\ Head(Tail(b)) = b[2]
<1> DEFINE c == Tail(b)
<1>0. b # <<>>
  OBVIOUS
<1>1. c \in Seq(BufferType) /\ Len(c) = Len(b) - 1
  BY <1>0, HeadTailProperties
<1>2. \A i \in 1 .. Len(b) - 1 : c[i] = b[i + 1]
  BY <1>0, HeadTailProperties
<1> HIDE DEF c
<1>3. Head(c) = c[1] /\ c[1] = b[2]
  BY <1>1, <1>2
<1>4. QED
  BY <1>1, <1>3 DEF c

\* What WordAfter does to the history, with the sequence and the count named.
Turned(s, b, k, from) ==
  [s EXCEPT !.buffers = b, !.k = k, !.from = from, !.fresh = TRUE]

LEMMA TurnedFields ==
  ASSUME NEW s \in SoundType, NEW b \in Seq(BufferType), NEW k \in Nat, NEW from \in Addresses,
         NEW t, t = Turned(s, b, k, from)
  PROVE  /\ t \in SoundType /\ t.buffers = b /\ t.k = k /\ t.from = from
         /\ t.fresh /\ t.first = s.first
<1>1. t \in SoundType
  BY DEF SoundType, Turned
<1>2. t.buffers = b /\ t.k = k /\ t.from = from /\ t.fresh
  BY DEF SoundType, Turned
<1>3. t.first = s.first
  BY DEF SoundType, Turned
<1>4. QED
  BY <1>1, <1>2, <1>3

\* The word at the pointer is the next of the first buffer, or the first of the
\* second.
LEMMA NextSounds ==
  ASSUME NEW ch \in ChannelType, NEW s \in SoundType, Ready(ch, s),
         NEW t, t = WordAfter(s, ch.pointer)
  PROVE  /\ t \in SoundType /\ Len(t.buffers) = 1 /\ Head(t.buffers) \in BufferType
         /\ t.k \in 1 .. Head(t.buffers).length
         /\ t.from = (Head(t.buffers).location + t.k - 1) % ChipRam
         /\ t.from = ch.pointer
         /\ ch.remaining = Head(t.buffers).length - t.k + 1
         /\ t.fresh /\ t.first = s.first
<1> DEFINE b == s.buffers
<1>1. b \in Seq(BufferType) /\ s.k \in Nat /\ ch.pointer \in Addresses /\ s.first \in BOOLEAN
  BY DEF SoundType, ChannelType
<1>2. CASE /\ Len(b) = 1 /\ s.k < b[1].length
           /\ ch.pointer = (b[1].location + s.k) % ChipRam
           /\ ch.remaining = b[1].length - s.k
  <2>1. Head(b) = b[1] /\ b[1] \in BufferType
    BY <1>1, <1>2
  <2>2. b[1].length \in Nat /\ b[1].location \in Nat
    BY <2>1, AudioAssumption DEF BufferType, Addresses
  <2>3. t = [s EXCEPT !.k = @ + 1, !.from = ch.pointer, !.fresh = TRUE]
    BY <1>2, <2>1 DEF WordAfter
  <2>4. /\ t \in SoundType /\ t.buffers = b /\ t.k = s.k + 1 /\ t.from = ch.pointer
        /\ t.fresh /\ t.first = s.first
    <3>1. t = Turned(s, b, s.k + 1, ch.pointer)
      BY <2>3 DEF SoundType, Turned
    <3>2. s.k + 1 \in Nat
      BY <1>1
    <3>3. QED
      BY <1>1, <3>1, <3>2, TurnedFields
  <2>5. b[1].location + s.k = b[1].location + t.k - 1
    BY <1>1, <2>2, <2>4
  <2>6. Len(t.buffers) = 1 /\ Head(t.buffers) = b[1]
    BY <1>2, <2>1, <2>4
  <2> HIDE DEF b
  <2>7. t.k \in 1 .. b[1].length /\ ch.remaining = b[1].length - t.k + 1
    BY <1>1, <1>2, <2>2, <2>4
  <2>8. QED
    BY <1>2, <2>1, <2>4, <2>5, <2>6, <2>7
<1>3. CASE /\ Len(b) = 2 /\ s.k = b[1].length
           /\ ch.pointer = b[2].location
           /\ ch.remaining = b[2].length
  <2>1. Head(b) = b[1] /\ b[1] \in BufferType /\ b[2] \in BufferType
    BY <1>1, <1>3
  <2>2. /\ b[2].length \in 1 .. Wrap /\ Wrap \in Nat /\ b[2].location \in Addresses
        /\ b[1].length \in Nat
    BY <2>1, AudioAssumption DEF BufferType
  <2>3. t = [s EXCEPT !.buffers = Tail(@), !.k = 1, !.from = ch.pointer, !.fresh = TRUE]
    BY <1>3, <2>1, <2>2 DEF WordAfter
  <2>4. Tail(b) \in Seq(BufferType) /\ Len(Tail(b)) = 1 /\ Head(Tail(b)) = b[2]
    BY <1>1, <1>3, OneLess
  <2>5. /\ t \in SoundType /\ t.buffers = Tail(b) /\ t.k = 1 /\ t.from = ch.pointer
        /\ t.fresh /\ t.first = s.first
    <3> DEFINE c == Tail(b)
    <3>1. t = Turned(s, c, 1, ch.pointer) /\ c \in Seq(BufferType)
      BY <2>3, <2>4 DEF SoundType, Turned
    <3> HIDE DEF c
    <3>2. 1 \in Nat
      OBVIOUS
    <3>3. t \in SoundType /\ t.buffers = c /\ t.k = 1 /\ t.from = ch.pointer /\ t.fresh /\ t.first = s.first
      BY <1>1, <3>1, <3>2, TurnedFields
    <3>4. QED
      BY <3>3 DEF c
  <2>6. ch.pointer = (b[2].location + 1 - 1) % ChipRam
    <3>1. b[2].location + 1 - 1 = b[2].location
      BY <2>2 DEF Addresses
    <3>2. QED
      BY <1>3, <2>2, <3>1, InRange
  <2>7. Len(t.buffers) = 1 /\ Head(t.buffers) = b[2]
    BY <2>4, <2>5
  <2> HIDE DEF b
  <2>8. QED
    BY <1>3, <2>1, <2>2, <2>5, <2>6, <2>7
<1>4. QED
  BY <1>2, <1>3 DEF Ready

LEMMA ReadFields ==
  ASSUME NEW ch \in ChannelType, NEW word \in SampleWords, ch.remaining >= 1
  PROVE  LET c == ReadWord(ch, word)
         IN /\ c \in ChannelType /\ c.pointer = (ch.pointer + 1) % ChipRam
            /\ c.remaining = ch.remaining - 1 /\ c.dma = ch.dma
<1> DEFINE p == (ch.pointer + 1) % ChipRam
           n == ch.remaining - 1
<1>1. ch.pointer \in Nat /\ ch.remaining \in Nat
  BY AudioAssumption DEF ChannelType, Addresses
<1>2. p \in Addresses /\ n \in Nat
  BY <1>1, Wraps
<1>3. ReadWord(ch, word) = [ch EXCEPT !.data = word, !.pointer = p, !.remaining = n]
  BY DEF ReadWord
<1> HIDE DEF p, n
<1>4. ReadWord(ch, word) \in ChannelType
  BY <1>2, <1>3 DEF ChannelType
<1>5. ReadWord(ch, word).pointer = p /\ ReadWord(ch, word).remaining = n
  BY <1>3 DEF ChannelType
<1>6. ReadWord(ch, word).dma = ch.dma
  BY <1>3 DEF ChannelType
<1>7. QED
  BY <1>4, <1>5, <1>6 DEF p, n

LEMMA LatchedFields ==
  ASSUME NEW ch \in ChannelType
  PROVE  LET c == LatchBuffer(ch)
         IN /\ c \in ChannelType /\ c.pointer = Buffer(ch).location
            /\ c.remaining = Buffer(ch).length /\ c.dma = ch.dma
<1> DEFINE n == length_of(ch)
<1>1. n \in Nat /\ ch.location \in Addresses
  BY CountedType, AudioAssumption DEF ChannelType
<1>2. LatchBuffer(ch) = [ch EXCEPT !.pointer = ch.location, !.remaining = n]
  BY DEF LatchBuffer
<1>3. Buffer(ch).location = ch.location /\ Buffer(ch).length = n
  BY DEF Buffer
<1> HIDE DEF n
<1>4. LatchBuffer(ch) \in ChannelType
  BY <1>1, <1>2 DEF ChannelType
<1>5. LatchBuffer(ch).pointer = ch.location /\ LatchBuffer(ch).remaining = n
  BY <1>2 DEF ChannelType
<1>6. LatchBuffer(ch).dma = ch.dma
  BY <1>2 DEF ChannelType
<1>7. QED
  BY <1>3, <1>4, <1>5, <1>6

LEMMA PlayFields ==
  ASSUME NEW ch \in ChannelType, NEW word \in SampleWords
  PROVE  LET c == PlayWord(ch, word)
         IN /\ c \in ChannelType /\ c.pointer = ch.pointer
            /\ c.remaining = ch.remaining /\ c.dma = ch.dma
<1> DEFINE n == period_of(ch)
           c == [ch EXCEPT !.low_byte = FALSE, !.countdown = n, !.output = word.hi]
<1>1. word.hi \in Int /\ n \in Nat \ {0}
  <2>1. n \in 1 .. Wrap /\ Wrap \in Nat
    BY CountedType, AudioAssumption
  <2> HIDE DEF n
  <2>2. n \in Nat \ {0}
    BY <2>1
  <2>3. word.hi \in Int
    BY AudioAssumption DEF SampleWords
  <2>4. QED
    BY <2>2, <2>3
<1>2. PlayWord(ch, word) = c
  BY DEF PlayWord
<1> HIDE DEF n
<1>3. c \in ChannelType
  BY <1>1 DEF ChannelType
<1>4. c.pointer = ch.pointer /\ c.remaining = ch.remaining
  BY DEF ChannelType
<1>5. c.dma = ch.dma
  BY DEF ChannelType
<1>6. QED
  BY <1>2, <1>3, <1>4, <1>5

\* The history's side of an announced buffer.
LEMMA AnnouncedFields ==
  ASSUME NEW s \in SoundType, NEW e \in BufferType
  PROVE  LET t == [s EXCEPT !.buffers = Append(@, e)]
         IN /\ t \in SoundType /\ t.k = s.k /\ t.from = s.from
            /\ t.fresh = s.fresh /\ t.first = s.first /\ t.buffers = Append(s.buffers, e)
<1> DEFINE b == Append(s.buffers, e)
           t == [s EXCEPT !.buffers = b]
<1>1. s.buffers \in Seq(BufferType)
  BY DEF SoundType
<1>2. b \in Seq(BufferType)
  BY <1>1
<1> HIDE DEF b
<1>3. t \in SoundType /\ t.buffers = b
  BY <1>2 DEF SoundType
<1>4. t.k = s.k /\ t.from = s.from /\ t.fresh = s.fresh /\ t.first = s.first
  BY DEF SoundType
<1>5. /\ t \in SoundType /\ t.k = s.k /\ t.from = s.from
      /\ t.fresh = s.fresh /\ t.first = s.first /\ t.buffers = b
  BY <1>3, <1>4
<1>6. QED
  BY <1>5 DEF b

\* A fetch from a ready channel plays the next word, and announces a buffer
\* exactly when that word was the last.
LEMMA FetchPlays ==
  ASSUME NEW ch \in ChannelType, NEW s \in SoundType, Ready(ch, s), NEW word \in SampleWords
  PROVE  LET r == fetch([ch |-> ch, irq |-> s.first, sounding |-> s], word)
         IN r \in ResultType /\ Plays(r.ch, r.sounding, r.irq)
<1> DEFINE t    == WordAfter(s, ch.pointer)
           read == ReadWord(ch, word)
           r    == fetch([ch |-> ch, irq |-> s.first, sounding |-> s], word)
           head == Head(t.buffers)
<1>1. /\ t \in SoundType /\ Len(t.buffers) = 1 /\ head \in BufferType
      /\ t.k \in 1 .. head.length
      /\ t.from = (head.location + t.k - 1) % ChipRam
      /\ t.from = ch.pointer
      /\ ch.remaining = head.length - t.k + 1
      /\ t.fresh /\ t.first = s.first
  BY NextSounds
<1>2. head.length \in Nat /\ s.first \in BOOLEAN
  BY <1>1, AudioAssumption DEF BufferType, SoundType
<1>3. ch.remaining >= 1
  BY <1>1, <1>2
<1>4. /\ read \in ChannelType /\ read.pointer = (ch.pointer + 1) % ChipRam
      /\ read.remaining = head.length - t.k /\ read.dma = ch.dma
  <2>1. ch.remaining - 1 = head.length - t.k
    BY <1>1, <1>2
  <2>2. QED
    BY <1>3, <2>1, ReadFields
<1>5. r = IF read.remaining = 0
            THEN [ch |-> PlayWord(LatchBuffer(read), word), irq |-> TRUE,
                  sounding |-> [t EXCEPT !.buffers = Append(@, Buffer(read))]]
            ELSE [ch |-> PlayWord(read, word), irq |-> s.first, sounding |-> t]
  <2> DEFINE next == [ch |-> read, irq |-> s.first, sounding |-> t]
             done == IF read.remaining = 0 THEN start_buffer(next) ELSE next
             latched == LatchBuffer(read)
             u == [t EXCEPT !.buffers = Append(@, Buffer(read))]
  <2>1. r = [done EXCEPT !.ch = PlayWord(@, word)]
    BY DEF fetch
  <2>2. start_buffer(next) = [ch |-> latched, irq |-> TRUE, sounding |-> u]
    BY DEF start_buffer
  <2> HIDE DEF t, read, r, latched, u
  <2>3. CASE read.remaining = 0
    <3>1. done = [ch |-> latched, irq |-> TRUE, sounding |-> u]
      BY <2>2, <2>3
    <3> HIDE DEF done
    <3>2. r = [ch |-> PlayWord(latched, word), irq |-> TRUE, sounding |-> u]
      BY <2>1, <3>1
    <3>3. QED
      BY <2>3, <3>2 DEF latched, u
  <2>4. CASE read.remaining # 0
    BY <2>1, <2>4
  <2>5. QED
    BY <2>3, <2>4
<1>c. SUFFICES r \in ResultType /\ Plays(r.ch, r.sounding, r.irq)
  OBVIOUS
<1> HIDE DEF t, read, r
<1>6. CASE read.remaining = 0
  <2> DEFINE e == Buffer(read)
             u == [t EXCEPT !.buffers = Append(@, e)]
             c == PlayWord(LatchBuffer(read), word)
  <2>1. e \in BufferType
    BY <1>4, CountedType
  <2>2. /\ u \in SoundType /\ u.k = t.k /\ u.from = t.from
        /\ u.fresh = t.fresh /\ u.first = t.first
        /\ Len(u.buffers) = 2 /\ Head(u.buffers) = head /\ u.buffers[2] = e
    <3>1. /\ u \in SoundType /\ u.k = t.k /\ u.from = t.from /\ u.fresh = t.fresh
          /\ u.first = t.first /\ u.buffers = Append(t.buffers, e)
      BY <1>1, <2>1, AnnouncedFields
    <3>2. t.buffers \in Seq(BufferType)
      BY <1>1 DEF SoundType
    <3>3. LET b == Append(t.buffers, e)
          IN Len(b) = 2 /\ Head(b) = head /\ b[2] = e
      BY <1>1, <2>1, <3>2, OneMore
    <3>4. QED
      BY <3>1, <3>3
  <2>3. /\ LatchBuffer(read) \in ChannelType /\ LatchBuffer(read).pointer = e.location
        /\ LatchBuffer(read).remaining = e.length
    BY <1>4, LatchedFields
  <2>4. c \in ChannelType /\ c.pointer = e.location /\ c.remaining = e.length
    BY <1>2, <2>3, PlayFields
  <2>5. r = [ch |-> c, irq |-> TRUE, sounding |-> u]
    BY <1>5, <1>6
  <2> HIDE DEF e, u, c
  <2>6. u.k = Head(u.buffers).length
    BY <1>1, <1>2, <1>4, <1>6, <2>2
  <2>7. Plays(c, u, TRUE)
    BY <1>1, <2>2, <2>4, <2>6 DEF Plays
  <2>8. QED
    BY <2>2, <2>4, <2>5, <2>7 DEF ResultType
<1>7. CASE read.remaining # 0
  <2> DEFINE c == PlayWord(read, word)
  <2>1. c \in ChannelType /\ c.pointer = read.pointer /\ c.remaining = read.remaining
    BY <1>2, <1>4, PlayFields
  <2>2. r = [ch |-> c, irq |-> s.first, sounding |-> t]
    BY <1>5, <1>7
  <2> HIDE DEF c, head
  <2>3. t.k # head.length
    BY <1>1, <1>2, <1>4, <1>7
  <2>4. c.pointer = (t.from + 1) % ChipRam /\ c.remaining = head.length - t.k
    BY <1>1, <1>4, <2>1
  <2>5. Plays(c, t, s.first)
    BY <1>1, <2>3, <2>4 DEF Plays, head
  <2>6. QED
    BY <1>1, <1>2, <2>1, <2>2, <2>5 DEF ResultType
<1>8. QED
  BY <1>6, <1>7

\* The three ways a channel's clock ends keep its type and what it plays.
Good(r) == r \in ResultType /\ Plays(r.ch, r.sounding, r.irq)

LEMMA GoodRecord ==
  ASSUME NEW ch \in ChannelType, NEW irq \in BOOLEAN, NEW s \in SoundType, Plays(ch, s, irq)
  PROVE  Good([ch |-> ch, irq |-> irq, sounding |-> s])
<1> DEFINE r == [ch |-> ch, irq |-> irq, sounding |-> s]
<1>1. r.ch = ch /\ r.irq = irq /\ r.sounding = s
  OBVIOUS
<1>2. r \in ResultType
  BY DEF ResultType
<1>3. QED
  BY <1>1, <1>2 DEF Good

LEMMA NoSoundType == NoSound \in SoundType
<1>1. <<>> \in Seq(BufferType) /\ 0 \in Addresses
  BY AudioAssumption DEF Addresses
<1>2. QED
  BY <1>1 DEF NoSound, SoundType

LEMMA SwitchOnGood ==
  ASSUME NEW ch \in ChannelType, NEW word \in SampleWords
  PROVE  Good(SwitchOn(ch, word))
<1> DEFINE on == [ch EXCEPT !.dma = TRUE, !.manual = FALSE]
           c  == LatchBuffer(on)
           e  == Buffer(on)
           q  == [NoSound EXCEPT !.first = TRUE]
           s  == [q EXCEPT !.buffers = Append(@, e)]
<1>1. on \in ChannelType
  BY DEF ChannelType
<1>2. c \in ChannelType /\ c.pointer = e.location /\ c.remaining = e.length /\ e \in BufferType
  BY <1>1, LatchedFields, CountedType
<1>3. q \in SoundType /\ q.buffers = <<>> /\ q.k = 0 /\ q.first
  <2>1. NoSound.buffers = <<>> /\ NoSound.k = 0
    BY DEF NoSound
  <2>2. NoSound \in SoundType
    BY NoSoundType
  <2>3. QED
    BY <2>1, <2>2 DEF SoundType
<1> HIDE DEF on, e, q
<1>4. s \in SoundType /\ s.buffers = Append(<<>>, e) /\ s.k = 0 /\ s.first
  <2>1. s \in SoundType /\ s.k = q.k /\ s.first = q.first /\ s.buffers = Append(q.buffers, e)
    BY <1>2, <1>3, AnnouncedFields
  <2>2. QED
    BY <1>3, <2>1
<1>5. SwitchOn(ch, word) = fetch([ch |-> c, irq |-> s.first, sounding |-> s], word)
  <2>1. SwitchOn(ch, word) = fetch([ch |-> c, irq |-> TRUE, sounding |-> s], word)
    BY DEF SwitchOn, start_buffer, on, e, q
  <2>2. s.first = TRUE
    BY <1>4 DEF SoundType
  <2> HIDE DEF s, c
  <2>3. QED
    BY <2>1, <2>2
<1> HIDE DEF c, s
<1>6. Len(s.buffers) = 1 /\ s.buffers[1] = e
  <2>1. Append(<<>>, e) = <<e>>
    OBVIOUS
  <2>2. Len(<<e>>) = 1 /\ <<e>>[1] = e
    OBVIOUS
  <2>3. QED
    BY <1>4, <2>1, <2>2
<1>7. Ready(c, s)
  <2>1. e.location \in Addresses /\ e.length \in 1 .. Wrap /\ Wrap \in Nat
    BY <1>2, AudioAssumption DEF BufferType
  <2>2. e.location + 0 = e.location /\ e.length - 0 = e.length /\ 0 < e.length
    BY <2>1 DEF Addresses
  <2>3. c.pointer = (e.location + 0) % ChipRam
    BY <1>2, <2>1, <2>2, InRange
  <2>4. QED
    BY <1>2, <1>4, <1>6, <2>2, <2>3 DEF Ready
<1>8. QED
  BY <1>2, <1>4, <1>5, <1>7, FetchPlays DEF Good

LEMMA SwitchOffGood ==
  ASSUME NEW ch \in ChannelType PROVE Good(SwitchOff(ch))
<1> DEFINE quiet == [ch EXCEPT !.output = 0]
           c     == [ch EXCEPT !.dma = FALSE, !.output = 0]
<1>1. c \in ChannelType
  <2>1. quiet \in ChannelType
    BY DEF ChannelType
  <2>2. c = [quiet EXCEPT !.dma = FALSE]
    BY DEF ChannelType
  <2> HIDE DEF quiet, c
  <2>3. QED
    BY <2>1, <2>2 DEF ChannelType
<1>2. c.dma = FALSE
  BY DEF ChannelType
<1>3. SwitchOff(ch) = [ch |-> c, irq |-> FALSE, sounding |-> NoSound]
  BY DEF SwitchOff
<1> HIDE DEF c
<1>4. QED
  BY <1>1, <1>2, <1>3, NoSoundType DEF Good, ResultType, Plays

\* A clock that fetches nothing leaves what is being played alone.
LEMMA PlaysOn ==
  ASSUME NEW ch, NEW s, NEW irq, Plays(ch, s, irq),
         NEW d, d.dma = ch.dma, d.pointer = ch.pointer, d.remaining = ch.remaining,
         NEW t, t.buffers = s.buffers, t.k = s.k, t.from = s.from, t.fresh = FALSE
  PROVE  Plays(d, t, FALSE)
  BY DEF Plays

LEMMA SampleDoneGood ==
  ASSUME NEW ch \in ChannelType, NEW s \in SoundType, NEW word, ch.dma => word \in SampleWords,
         Plays(ch, s, FALSE), s.fresh = FALSE, s.first = FALSE
  PROVE  Good(SampleDone(ch, s, word))
<1> DEFINE n == period_of(ch)
           c == [ch EXCEPT !.countdown = n]
<1>1. n \in Nat \ {0}
  <2>1. n \in 1 .. Wrap /\ Wrap \in Nat
    BY CountedType, AudioAssumption
  <2> HIDE DEF n
  <2>2. QED
    BY <2>1
<1>2. ch.data \in SampleWords /\ ch.data.lo \in Int
  BY AudioAssumption DEF ChannelType, SampleWords
<1>3. CASE ~ch.low_byte
  <2> DEFINE d == [ch EXCEPT !.countdown = n, !.low_byte = TRUE, !.output = ch.data.lo]
  <2>1. SampleDone(ch, s, word) = [ch |-> d, irq |-> FALSE, sounding |-> s]
    BY <1>3 DEF SampleDone, ChannelType
  <2> HIDE DEF n
  <2>2. d \in ChannelType
    BY <1>1, <1>2 DEF ChannelType
  <2>3. d.dma = ch.dma
    BY DEF ChannelType
  <2>4. d.pointer = ch.pointer /\ d.remaining = ch.remaining
    BY DEF ChannelType
  <2> HIDE DEF d
  <2>5. Plays(d, s, FALSE)
    BY <2>3, <2>4, PlaysOn
  <2>6. QED
    BY <2>1, <2>2, <2>5, GoodRecord
<1>4. CASE ch.low_byte /\ ch.dma
  <2>1. SampleDone(ch, s, word) = fetch([ch |-> c, irq |-> s.first, sounding |-> s], word)
    BY <1>4 DEF SampleDone
  <2> HIDE DEF n
  <2>2. c \in ChannelType
    BY <1>1 DEF ChannelType
  <2>3. c.dma = ch.dma
    BY DEF ChannelType
  <2>4. c.pointer = ch.pointer /\ c.remaining = ch.remaining
    BY DEF ChannelType
  <2> HIDE DEF c
  <2>5. Plays(c, s, FALSE) /\ c.dma
    BY <1>4, <2>3, <2>4, PlaysOn
  <2>6. QED
    BY <1>4, <2>1, <2>2, <2>5, PlaysReady, FetchPlays DEF Good
<1>5. CASE ch.low_byte /\ ~ch.dma
  <2> DEFINE d == PlayWord(ch, ch.data)
  <2>1. SampleDone(ch, s, word) = [ch |-> d, irq |-> TRUE, sounding |-> s]
    BY <1>5 DEF SampleDone
  <2>2. d \in ChannelType /\ d.dma = ch.dma
    BY <1>2, PlayFields
  <2> HIDE DEF d
  <2>3. QED
    BY <1>5, <2>1, <2>2 DEF Good, ResultType, Plays
<1>6. QED
  BY <1>3, <1>4, <1>5

-----------------------------------------------------------------------------
(* The invariant.                                                          *)

\* Every channel plays as it should, and the idle flag is up only while no channel
\* has anything to play.
AudioInv ==
  /\ AudioTyped
  /\ \A x \in Channels : Plays(channels[x], sounding[x], x \in requests)
  /\ idle => \A x \in Channels : ~channels[x].dma /\ ~channels[x].manual

LEMMA ClockedGood ==
  ASSUME AudioInv, NEW x \in Channels, NEW enabled \in BOOLEAN, NEW word, enabled => word \in SampleWords
  PROVE  Good(Clocked(x, enabled, word))
<1> DEFINE ch == channels[x]
           s  == [sounding[x] EXCEPT !.fresh = FALSE, !.first = FALSE]
<1>1. ch \in ChannelType /\ sounding[x] \in SoundType
  BY DEF AudioInv, AudioTyped
<1>2. s \in SoundType
  BY <1>1 DEF SoundType
<1>3. s.fresh = FALSE /\ s.first = FALSE
  BY <1>1 DEF SoundType
<1>4. s.buffers = sounding[x].buffers /\ s.k = sounding[x].k /\ s.from = sounding[x].from
  BY <1>1 DEF SoundType
<1>5. Plays(ch, sounding[x], x \in requests)
  BY DEF AudioInv
<1>6. Clocked(x, enabled, word) =
        IF enabled /\ ~ch.dma THEN SwitchOn(ch, word)
        ELSE IF ~enabled /\ ch.dma THEN SwitchOff(ch)
        ELSE IF ~ch.dma /\ ~ch.manual THEN [ch |-> ch, irq |-> FALSE, sounding |-> s]
        ELSE IF ch.countdown > 1
          THEN [ch |-> [ch EXCEPT !.countdown = @ - 1], irq |-> FALSE, sounding |-> s]
        ELSE SampleDone(ch, s, word)
  BY DEF Clocked
<1> HIDE DEF ch, s
<1>7. Plays(ch, s, FALSE)
  BY <1>3, <1>4, <1>5, PlaysOn
<1>8. CASE enabled /\ ~ch.dma
  BY <1>1, <1>6, <1>8, SwitchOnGood
<1>9. CASE ~enabled /\ ch.dma
  BY <1>1, <1>6, <1>9, SwitchOffGood
<1>10. CASE enabled = ch.dma
  <2>1. CASE ~ch.dma /\ ~ch.manual
    BY <1>1, <1>2, <1>6, <1>7, <1>10, <2>1, GoodRecord
  <2>2. CASE (ch.dma \/ ch.manual) /\ ch.countdown > 1
    <3> DEFINE n == ch.countdown - 1
               d == [ch EXCEPT !.countdown = n]
    <3>1. Clocked(x, enabled, word) = [ch |-> d, irq |-> FALSE, sounding |-> s]
      BY <1>6, <1>10, <2>2
    <3>2. n \in Nat \ {0}
      BY <1>1, <2>2 DEF ChannelType
    <3> HIDE DEF n
    <3>3. d \in ChannelType
      BY <1>1, <3>2 DEF ChannelType
    <3>4. d.dma = ch.dma
      BY <1>1 DEF ChannelType
    <3>5. d.pointer = ch.pointer /\ d.remaining = ch.remaining
      BY <1>1 DEF ChannelType
    <3> HIDE DEF d
    <3>6. Plays(d, s, FALSE)
      BY <1>3, <1>7, <3>4, <3>5, PlaysOn
    <3>7. QED
      BY <1>2, <3>1, <3>3, <3>6, GoodRecord
  <2>3. CASE (ch.dma \/ ch.manual) /\ ~(ch.countdown > 1)
    <3>1. Clocked(x, enabled, word) = SampleDone(ch, s, word)
      BY <1>6, <1>10, <2>3
    <3>2. QED
      BY <1>1, <1>2, <1>3, <1>7, <1>10, <3>1, SampleDoneGood
  <2>4. QED
    BY <2>1, <2>2, <2>3
<1>11. QED
  <2>1. ch.dma \in BOOLEAN
    BY <1>1 DEF ChannelType
  <2>2. QED
    BY <1>8, <1>9, <1>10, <2>1

\* A channel that is silent after a clock has neither DMA nor a word of its own.
LEMMA AudioTickInv ==
  ASSUME AudioInv, NEW on \in DmaSets, AudioTick(on) PROVE AudioInv'
<1>1. CASE idle /\ on = {}
  <2>1. requests' = {} /\ UNCHANGED <<channels, idle, sounding>>
    BY <1>1 DEF AudioTick
  <2>2. AudioTyped'
    BY <2>1 DEF AudioInv, AudioTyped
  <2>3. \A x \in Channels : ~channels[x].dma
    BY <1>1 DEF AudioInv
  <2>4. \A x \in Channels : Plays(channels[x], sounding[x], x \in requests)'
    BY <2>1, <2>3 DEF Plays
  <2>5. QED
    BY <2>1, <2>2, <2>4 DEF AudioInv
<1>2. CASE ~(idle /\ on = {})
  <2>1. PICK words \in [on -> SampleWords] :
          LET done == [x \in Channels |-> Clocked(x, x \in on, words[x])]
          IN /\ channels' = [x \in Channels |-> done[x].ch]
             /\ requests' = {x \in Channels : done[x].irq}
             /\ sounding' = [x \in Channels |-> done[x].sounding]
             /\ idle' = \A x \in Channels : Silent(done[x].ch)
    BY <1>2 DEF AudioTick
  <2> DEFINE done == [x \in Channels |-> Clocked(x, x \in on, words[x])]
  <2>2. \A x \in Channels : Good(done[x])
    <3>1. SUFFICES ASSUME NEW x \in Channels PROVE Good(Clocked(x, x \in on, words[x]))
      OBVIOUS
    <3>2. x \in on => words[x] \in SampleWords
      OBVIOUS
    <3>3. (x \in on) \in BOOLEAN
      OBVIOUS
    <3>4. QED
      BY <3>2, <3>3, ClockedGood
  <2> HIDE DEF done
  <2>3. /\ channels' = [x \in Channels |-> done[x].ch]
        /\ requests' = {x \in Channels : done[x].irq}
        /\ sounding' = [x \in Channels |-> done[x].sounding]
        /\ idle' = \A x \in Channels : Silent(done[x].ch)
    BY <2>1 DEF done
  <2>4. \A x \in Channels :
          /\ done[x].ch \in ChannelType /\ done[x].irq \in BOOLEAN
          /\ done[x].sounding \in SoundType
          /\ Plays(done[x].ch, done[x].sounding, done[x].irq)
    BY <2>2 DEF Good, ResultType
  <2>5. AudioTyped'
    BY <2>3, <2>4 DEF AudioTyped
  <2>6. \A x \in Channels : Plays(channels[x], sounding[x], x \in requests)'
    <3>1. SUFFICES ASSUME NEW x \in Channels
                   PROVE  Plays(channels'[x], sounding'[x], x \in requests')
      OBVIOUS
    <3>2. channels'[x] = done[x].ch /\ sounding'[x] = done[x].sounding
      BY <2>3
    <3>3. (x \in requests') = done[x].irq
      BY <2>3, <2>4
    <3>4. QED
      BY <2>4, <3>2, <3>3
  <2>7. idle' => \A x \in Channels : ~channels'[x].dma /\ ~channels'[x].manual
    BY <2>3 DEF Silent
  <2>8. QED
    BY <2>5, <2>6, <2>7 DEF AudioInv
<1>3. QED
  BY <1>1, <1>2

LEMMA WriteAudioInv ==
  ASSUME AudioInv, NEW w \in AudioWrites, write_audio(w) PROVE AudioInv'
<1> DEFINE ch == channels[w.x]
           manual == w.reg = "data" /\ ~ch.dma
           c == channels'[w.x]
<1>1. /\ w.x \in Channels /\ w.reg \in {"location", "length", "period", "data"}
      /\ w.reg = "location" => w.value \in Addresses
      /\ w.reg \in {"length", "period"} => w.value \in CounterValues
      /\ w.reg = "data" => w.value \in SampleWords
  BY AudioAssumption DEF CounterValues
<1>2. ch \in ChannelType /\ channels \in [Channels -> ChannelType]
  BY <1>1 DEF AudioInv, AudioTyped
<1>3. /\ c = CASE w.reg = "location" -> [ch EXCEPT !.location = w.value]
               [] w.reg = "length"   -> [ch EXCEPT !.length = w.value]
               [] w.reg = "period"   -> [ch EXCEPT !.period = w.value]
               [] w.reg = "data"     -> IF manual THEN Manual(ch, w.value)
                                        ELSE [ch EXCEPT !.data = w.value]
      /\ channels' = [channels EXCEPT ![w.x] = c]
      /\ idle' = (idle /\ ~manual) /\ requests' = requests /\ sounding' = sounding
  BY <1>1, <1>2 DEF write_audio
<1> HIDE DEF ch, c
<1>4. c \in ChannelType /\ c.dma = ch.dma
      /\ (ch.dma => c.pointer = ch.pointer /\ c.remaining = ch.remaining)
      /\ (~manual => c.manual = ch.manual)
  <2>1. CASE w.reg = "location"
    BY <1>1, <1>2, <1>3, <2>1 DEF ChannelType
  <2>2. CASE w.reg = "length"
    BY <1>1, <1>2, <1>3, <2>2 DEF ChannelType
  <2>3. CASE w.reg = "period"
    BY <1>1, <1>2, <1>3, <2>3 DEF ChannelType
  <2>4. CASE w.reg = "data" /\ ch.dma
    BY <1>1, <1>2, <1>3, <2>4 DEF ChannelType
  <2>5. CASE manual
    <3> DEFINE d == [ch EXCEPT !.data = w.value, !.manual = TRUE]
    <3>1. d \in ChannelType /\ d.dma = ch.dma
      BY <1>1, <1>2, <2>5 DEF ChannelType
    <3>2. c = PlayWord(d, w.value)
      BY <1>3, <2>5 DEF Manual
    <3> HIDE DEF d
    <3>3. QED
      BY <1>1, <2>5, <3>1, <3>2, PlayFields
  <2>6. QED
    BY <1>1, <2>1, <2>2, <2>3, <2>4, <2>5
<1>5. AudioTyped'
  BY <1>1, <1>2, <1>3, <1>4 DEF AudioInv, AudioTyped
<1>6. \A x \in Channels : Plays(channels[x], sounding[x], x \in requests)'
  <2>1. SUFFICES ASSUME NEW x \in Channels
                 PROVE  Plays(channels'[x], sounding[x], x \in requests)
    BY <1>3
  <2>2. Plays(channels[x], sounding[x], x \in requests)
    BY DEF AudioInv
  <2>3. CASE x = w.x
    BY <1>4, <2>2, <2>3 DEF Plays, ch, c
  <2>4. CASE x # w.x
    BY <1>2, <1>3, <2>2, <2>4
  <2>5. QED
    BY <2>3, <2>4
<1>7. idle' => \A x \in Channels : ~channels'[x].dma /\ ~channels'[x].manual
  <2>1. SUFFICES ASSUME idle, ~manual, NEW x \in Channels
                 PROVE  ~channels'[x].dma /\ ~channels'[x].manual
    BY <1>3
  <2>2. ~channels[x].dma /\ ~channels[x].manual
    BY <2>1 DEF AudioInv
  <2>3. CASE x = w.x
    BY <1>4, <2>1, <2>2, <2>3 DEF ch, c
  <2>4. CASE x # w.x
    BY <1>2, <1>3, <2>2, <2>4
  <2>5. QED
    BY <2>3, <2>4
<1>8. QED
  BY <1>5, <1>6, <1>7 DEF AudioInv

LEMMA AudioInitInv == AudioInit => AudioInv
<1> SUFFICES ASSUME AudioInit PROVE AudioInv
  OBVIOUS
<1>1. \A x \in Channels : ~channels[x].dma /\ ~channels[x].manual
  BY DEF AudioInit
<1>2. 0 \in Addresses /\ 0 \in CounterValues /\ [hi |-> 0, lo |-> 0] \in SampleWords
  BY AudioAssumption DEF Addresses, CounterValues, SampleWords
<1>3. AudioTyped
  BY <1>2, NoSoundType DEF AudioInit, AudioTyped, ChannelType
<1>4. QED
  BY <1>1, <1>3 DEF AudioInv, Plays

LEMMA AudioAlways == AudioSpec => []AudioInv
<1>1. ASSUME AudioInv, [AudioNext]_audioVars PROVE AudioInv'
  <2>1. CASE UNCHANGED audioVars
    BY <1>1, <2>1 DEF AudioInv, AudioTyped, audioVars, Plays
  <2>2. CASE AudioNext
    BY <1>1, <2>2, AudioTickInv, WriteAudioInv DEF AudioNext
  <2>3. QED
    BY <1>1, <2>1, <2>2
<1>2. QED
  BY <1>1, AudioInitInv, PTL DEF AudioSpec

-----------------------------------------------------------------------------
(* The theorems.                                                           *)

\* With DMA on, tick(), fetch() and start_buffer() play every buffer announced by
\* an interrupt whole and in order, whatever the registers are given meanwhile.
THEOREM BuffersWhole == AudioSpec => []BuffersPlayWhole
<1>1. AudioInv => BuffersPlayWhole
  BY DEF AudioInv, BuffersPlayWhole, Plays
<1>2. QED
  BY <1>1, AudioAlways, PTL

\* tick()'s fast path skips nothing: idle_ is up only while the loop it skips
\* would change no channel and raise no interrupt.
THEOREM IdleExact == AudioSpec => []IdlePathIsExact
<1>1. AudioInv => IdlePathIsExact
  BY DEF AudioInv, IdlePathIsExact, Clocked
<1>2. QED
  BY <1>1, AudioAlways, PTL

-----------------------------------------------------------------------------
(* Sprites: types.                                                         *)

Pos  == [h : 0 .. 255, v : Nat]
Ctl  == [h0 : 0 .. 1, v8 : 0 .. 1, vstop : Nat, attach : BOOLEAN]
Dma  == {"Idle", "WaitStart", "Active"}
SpriteType ==
  [pointer : 0 .. RamPairs - 1, pos : Pos, ctl : Ctl, data : SpriteData, datb : SpriteData,
   armed : BOOLEAN, dma : Dma]
EventType ==
  [hpos : 0 .. LineClocks - 1, sprite : SpriteIds, reg : {"POS"}, value : Pos]
  \cup [hpos : 0 .. LineClocks - 1, sprite : SpriteIds, reg : {"CTL"}, value : Ctl]
  \cup [hpos : 0 .. LineClocks - 1, sprite : SpriteIds, reg : {"DATA", "DATB"}, value : SpriteData]
LogType == [sprites : [SpriteIds -> SpriteType], events : Seq(EventType), lost : BOOLEAN]

\* What a register may be given.
Fits(reg, value) ==
  \/ reg = "POS" /\ value \in Pos
  \/ reg = "CTL" /\ value \in Ctl
  \/ reg \in {"DATA", "DATB"} /\ value \in SpriteData

\* What the display of a sprite depends on.
SameShown(s, t) ==
  s.pos = t.pos /\ s.ctl = t.ctl /\ s.data = t.data /\ s.datb = t.datb /\ s.armed = t.armed

LEMMA Positions ==
  ASSUME NEW s \in SpriteType
  PROVE  /\ hstart(s) \in Nat /\ hstart(s) < 512
         /\ vstart(s) \in Nat /\ s.ctl.vstop \in Nat /\ s.ctl.attach \in BOOLEAN
  <1>1. s.pos.h \in 0 .. 255 /\ s.pos.v \in Nat /\ s.ctl.h0 \in 0 .. 1 /\ s.ctl.v8 \in 0 .. 1
        /\ s.ctl.vstop \in Nat /\ s.ctl.attach \in BOOLEAN
    BY DEF SpriteType, Pos, Ctl
  <1>2. V8 \in Nat /\ V8 * s.ctl.v8 \in Nat
    <2>1. V8 \in Nat
      BY SpritesAssumption
    <2>2. s.ctl.v8 = 0 \/ s.ctl.v8 = 1
      BY <1>1
    <2>3. QED
      BY <2>1, <2>2
  <1>3. vstart(s) \in Nat
    BY <1>1, <1>2 DEF vstart
  <1>4. hstart(s) \in Nat /\ hstart(s) < 512
    <2> DEFINE h == s.pos.h
               h0 == s.ctl.h0
    <2>1. h \in 0 .. 255 /\ h0 \in 0 .. 1
      BY <1>1
    <2> HIDE DEF h, h0
    <2>2. 2 * h + h0 \in Nat /\ 2 * h + h0 < 512
      BY <2>1
    <2>3. QED
      BY <2>2 DEF hstart, h, h0
  <1>5. QED
    BY <1>1, <1>3, <1>4

LEMMA ApplyFields ==
  ASSUME NEW s \in SpriteType, NEW reg, NEW value, Fits(reg, value),
         NEW t, t = apply(s, reg, value)
  PROVE  /\ t \in SpriteType /\ t.pointer = s.pointer /\ t.dma = s.dma
         /\ reg = "POS" => SameShown(t, [s EXCEPT !.pos = value])
         /\ reg = "CTL" => SameShown(t, [s EXCEPT !.ctl = value, !.armed = FALSE])
         /\ reg = "DATA" => SameShown(t, [s EXCEPT !.data = value, !.armed = TRUE])
         /\ reg = "DATB" => SameShown(t, [s EXCEPT !.datb = value])
  <1>1. CASE reg = "POS"
    BY <1>1 DEF apply, Fits, SpriteType, SameShown
  <1>2. CASE reg = "CTL"
    BY <1>2 DEF apply, Fits, SpriteType, SameShown
  <1>3. CASE reg = "DATA"
    BY <1>3 DEF apply, Fits, SpriteType, SameShown
  <1>4. CASE reg = "DATB"
    BY <1>4 DEF apply, Fits, SpriteType, SameShown
  <1>5. QED
    BY <1>1, <1>2, <1>3, <1>4 DEF Fits

\* Sprites that show the same still do after the same write.
LEMMA ApplyShown ==
  ASSUME NEW s \in SpriteType, NEW t \in SpriteType, SameShown(s, t), NEW reg, NEW value, Fits(reg, value)
  PROVE  SameShown(apply(s, reg, value), apply(t, reg, value))
  <1>1. CASE reg = "POS"
    BY <1>1 DEF apply, SpriteType, SameShown
  <1>2. CASE reg = "CTL"
    BY <1>2 DEF apply, SpriteType, SameShown
  <1>3. CASE reg = "DATA"
    BY <1>3 DEF apply, SpriteType, SameShown
  <1>4. CASE reg = "DATB"
    BY <1>4 DEF apply, SpriteType, SameShown
  <1>5. QED
    BY <1>1, <1>2, <1>3, <1>4 DEF Fits

LEMMA EventFits ==
  ASSUME NEW e \in EventType
  PROVE  Fits(e.reg, e.value) /\ e.hpos \in Nat /\ e.sprite \in SpriteIds
  BY SpritesAssumption DEF EventType, Fits

LEMMA FitsEvent ==
  ASSUME NEW reg, NEW value, Fits(reg, value), NEW n \in SpriteIds, NEW h \in 0 .. LineClocks - 1
  PROVE  [hpos |-> h, sprite |-> n, reg |-> reg, value |-> value] \in EventType
  BY DEF EventType, Fits

-----------------------------------------------------------------------------
(* The replay of a line.                                                   *)

TriggerType == [hstart : Nat, data : SpriteData, datb : SpriteData, attached : BOOLEAN]
ReplayType  == [state : SpriteType, position : Nat, out : Seq(TriggerType)]

Starts(r, ends) == r.state.armed /\ hstart(r.state) >= r.position /\ hstart(r.state) < ends
Longer(out, trigger) == IF Len(out) < MaxTriggers THEN Append(out, trigger) ELSE out

LEMMA TriggerTyped ==
  ASSUME NEW s \in SpriteType PROVE Trigger(s) \in TriggerType
  <1>1. hstart(s) \in Nat /\ s.ctl.attach \in BOOLEAN
    BY Positions
  <1>2. s.data \in SpriteData /\ s.datb \in SpriteData
    BY DEF SpriteType
  <1>3. QED
    BY <1>1, <1>2 DEF Trigger, TriggerType

LEMMA SameTrigger ==
  ASSUME NEW s \in SpriteType, NEW t \in SpriteType, SameShown(s, t)
  PROVE  Trigger(s) = Trigger(t) /\ hstart(s) = hstart(t) /\ s.armed = t.armed
  BY DEF SameShown, Trigger, hstart

LEMMA StartFields ==
  ASSUME NEW r \in ReplayType, NEW ends \in Nat, NEW t, t = Start(r, ends)
  PROVE  /\ t \in ReplayType /\ t.state = r.state
         /\ Starts(r, ends) => t.position = hstart(r.state) + 1 /\ t.out = Longer(r.out, Trigger(r.state))
         /\ ~Starts(r, ends) => t = r
  <1> DEFINE h == hstart(r.state)
             p == h + 1
             o == Longer(r.out, Trigger(r.state))
  <1>1. h \in Nat /\ p \in Nat /\ r.state \in SpriteType /\ r.position \in Nat
    BY Positions DEF ReplayType
  <1>2. o \in Seq(TriggerType)
    <2>1. Trigger(r.state) \in TriggerType /\ r.out \in Seq(TriggerType)
      BY TriggerTyped DEF ReplayType
    <2>2. QED
      BY <2>1 DEF Longer
  <1>3. CASE Starts(r, ends)
    <2>1. t = [r EXCEPT !.position = p, !.out = o]
      BY <1>3 DEF Start, Starts, Longer
    <2> HIDE DEF p, o
    <2>2. t \in ReplayType /\ t.position = p /\ t.out = o /\ t.state = r.state
      BY <1>1, <1>2, <2>1 DEF ReplayType
    <2>3. QED
      BY <1>3, <2>2 DEF p, o
  <1>4. CASE ~Starts(r, ends)
    <2>1. t = r
      BY <1>4, <1>1 DEF Start, Starts
    <2>2. QED
      BY <1>4, <2>1
  <1>5. QED
    BY <1>3, <1>4

\* An event where the beam is.
LEMMA EventFields ==
  ASSUME NEW r \in ReplayType, NEW e \in EventType, NEW t, t = ApplyEvent(r, e)
  PROVE  /\ t \in ReplayType /\ t.state = apply(r.state, e.reg, e.value)
         /\ t.out = Start(r, 2 * e.hpos).out
         /\ t.position >= 2 * e.hpos
         /\ r.position <= 2 * e.hpos => t.position = 2 * e.hpos
  <1> DEFINE s == Start(r, 2 * e.hpos)
             p == IF 2 * e.hpos > s.position THEN 2 * e.hpos ELSE s.position
             a == apply(s.state, e.reg, e.value)
  <1>1. e.hpos \in Nat /\ 2 * e.hpos \in Nat /\ Fits(e.reg, e.value)
    BY EventFits
  <1>2. s \in ReplayType /\ s.state = r.state
    BY <1>1, StartFields
  <1>3. a \in SpriteType /\ s.position \in Nat /\ p \in Nat
    BY <1>1, <1>2, ApplyFields DEF ReplayType
  <1>4. t = [s EXCEPT !.position = p, !.state = a]
    BY DEF ApplyEvent
  <1>5. r.position <= 2 * e.hpos => s.position <= 2 * e.hpos
    <2>1. CASE Starts(r, 2 * e.hpos)
      <3>1. s.position = hstart(r.state) + 1 /\ hstart(r.state) < 2 * e.hpos
        BY <1>1, <2>1, StartFields DEF Starts
      <3>2. hstart(r.state) \in Nat
        BY Positions DEF ReplayType
      <3>3. QED
        BY <1>1, <3>1, <3>2
    <2>2. CASE ~Starts(r, 2 * e.hpos)
      BY <1>1, <2>2, StartFields
    <2>3. QED
      BY <2>1, <2>2
  <1> HIDE DEF s, a
  <1>6. t \in ReplayType /\ t.position = p /\ t.state = a /\ t.out = s.out
    BY <1>2, <1>3, <1>4 DEF ReplayType
  <1>7. p >= 2 * e.hpos /\ (s.position <= 2 * e.hpos => p = 2 * e.hpos)
    BY <1>1, <1>3
  <1> HIDE DEF p
  <1>8. QED
    BY <1>2, <1>5, <1>6, <1>7 DEF a, s

Before(s) == [state |-> s, position |-> 0, out |-> <<>>]
Meets(r, e, n) == IF e.sprite = n THEN ApplyEvent(r, e) ELSE r

\* f is the replay of sprite n, event by event.
Replays(f, n, start, log) ==
  /\ f \in [0 .. Len(log) -> ReplayType] /\ f[0] = Before(start[n])
  /\ \A k \in 1 .. Len(log) : f[k] = Meets(f[k - 1], log[k], n)

LEMMA MeetsTyped ==
  ASSUME NEW r \in ReplayType, NEW e \in EventType, NEW n
  PROVE  Meets(r, e, n) \in ReplayType
  BY EventFields DEF Meets

LEMMA BeforeTyped ==
  ASSUME NEW s \in SpriteType
  PROVE  Before(s) \in ReplayType
  BY DEF Before, ReplayType

LEMMA ReplayDefined ==
  ASSUME NEW n, NEW start, start[n] \in SpriteType, NEW log \in Seq(EventType)
  PROVE  \E f : Replays(f, n, start, log) /\ Replay(n, start, log) = f[Len(log)]
  <1> DEFINE len == Len(log)
             S == ReplayType
             a == Before(start[n])
             h == [p \in Nat \X S |-> IF p[1] < len THEN Meets(p[2], log[p[1] + 1], n) ELSE p[2]]
             Defines(f) ==
               f = [k \in 0 .. Len(log) |->
                      IF k = 0 THEN [state |-> start[n], position |-> 0, out |-> <<>>]
                      ELSE IF log[k].sprite = n THEN ApplyEvent(f[k - 1], log[k]) ELSE f[k - 1]]
  <1>1. len \in Nat /\ \A k \in 1 .. len : log[k] \in EventType
    OBVIOUS
  <1>2. a \in S
    BY BeforeTyped
  <1>3. h \in [Nat \X S -> S]
    <2>1. ASSUME NEW i \in Nat, NEW r \in S, i < len PROVE Meets(r, log[i + 1], n) \in S
      <3>1. i + 1 \in 1 .. len
        BY <1>1, <2>1
      <3>2. log[i + 1] \in EventType
        BY <1>1, <3>1
      <3>3. QED
        BY <3>2, MeetsTyped
    <2> HIDE DEF S, len
    <2>2. QED
      BY <2>1
  <1>4. PICK f \in [Nat -> S] : Iterates(f, a, h)
    <2> HIDE DEF S, a, h
    <2>1. QED
      BY <1>2, <1>3, Recursion, Zenon
  <1> DEFINE g == [k \in 0 .. len |-> f[k]]
  <1>5. g \in [0 .. len -> S] /\ g[0] = a
    <2>1. 0 \in 0 .. len /\ \A k \in 0 .. len : k \in Nat
      BY <1>1
    <2> HIDE DEF len, S, a
    <2>2. QED
      BY <1>4, <2>1 DEF Iterates
  <1>6. ASSUME NEW k \in 1 .. len PROVE g[k] = Meets(g[k - 1], log[k], n)
    <2>1. k - 1 \in Nat /\ k - 1 + 1 = k /\ k - 1 < len /\ k \in 0 .. len /\ k - 1 \in 0 .. len
      BY <1>1
    <2>2. f[k - 1 + 1] = h[<<k - 1, f[k - 1]>>]
      BY <1>4, <2>1 DEF Iterates
    <2>3. f[k - 1] \in S
      BY <1>4, <2>1
    <2> HIDE DEF S, len
    <2>4. f[k] = Meets(f[k - 1], log[k], n)
      BY <2>1, <2>2, <2>3
    <2>5. QED
      BY <2>1, <2>4
  <1> HIDE DEF g
  <1>7. Defines(g)
    <2>1. ASSUME NEW k \in 0 .. len
          PROVE  g[k] = IF k = 0 THEN [state |-> start[n], position |-> 0, out |-> <<>>]
                        ELSE IF log[k].sprite = n THEN ApplyEvent(g[k - 1], log[k]) ELSE g[k - 1]
      <3>1. CASE k = 0
        BY <1>5, <3>1 DEF Before
      <3>2. CASE k # 0
        <4>1. k \in 1 .. len
          BY <1>1, <3>2
        <4>2. g[k] = Meets(g[k - 1], log[k], n)
          BY <1>6, <4>1
        <4>3. QED
          BY <3>2, <4>2 DEF Meets
      <3>3. QED
        BY <3>1, <3>2
    <2>2. QED
      BY <1>5, <2>1
  <1> DEFINE c == CHOOSE x : Defines(x)
  <1>8. Replay(n, start, log) = c[len]
    BY DEF Replay
  <1>9. Defines(c)
    <2> HIDE DEF Defines
    <2>1. QED
      BY <1>7
  <1>10. c \in [0 .. len -> S] /\ c[0] = a /\ \A k \in 1 .. len : c[k] = Meets(c[k - 1], log[k], n)
    <2> HIDE DEF c
    <2>1. \A k \in 0 .. len : c[k] = IF k = 0 THEN a ELSE Meets(c[k - 1], log[k], n)
      <3>1. \A k \in 0 .. Len(log) :
              c[k] = IF k = 0 THEN [state |-> start[n], position |-> 0, out |-> <<>>]
                     ELSE IF log[k].sprite = n THEN ApplyEvent(c[k - 1], log[k]) ELSE c[k - 1]
        BY <1>9, Zenon
      <3>2. QED
        BY <3>1, Zenon DEF Before, Meets
    <2>2. DOMAIN c = 0 .. len
      BY <1>9, Zenon
    <2>3. c[0] = a
      BY <1>1, <2>1
    <2>4. \A k \in 1 .. len : c[k] = Meets(c[k - 1], log[k], n)
      BY <1>1, <2>1
    <2> DEFINE T == {k \in Nat : k <= len => c[k] \in S}
    <2>5. 0 \in T
      BY <1>2, <2>3
    <2>6. ASSUME NEW k \in Nat, k \in T PROVE k + 1 \in T
      <3>1. SUFFICES ASSUME k + 1 <= len PROVE c[k + 1] \in S
        OBVIOUS
      <3>2. k + 1 \in 1 .. len /\ k + 1 - 1 = k /\ k <= len
        BY <1>1, <3>1
      <3>3. c[k + 1] = Meets(c[k], log[k + 1], n) /\ c[k] \in S
        BY <2>4, <2>6, <3>2
      <3>4. log[k + 1] \in EventType
        BY <1>1, <3>2
      <3>5. QED
        BY <3>3, <3>4, MeetsTyped
    <2> HIDE DEF T, S
    <2>7. Nat \subseteq T
      BY <2>5, <2>6, SetInduction
    <2>8. \A k \in 0 .. len : c[k] \in S
      BY <1>1, <2>7 DEF T
    <2>9. c = [k \in 0 .. len |-> c[k]]
      BY <1>9, <2>2, Zenon
    <2>10. QED
      BY <2>3, <2>4, <2>8, <2>9
  <1> HIDE DEF c
  <1>11. QED
    BY <1>8, <1>10 DEF Replays

\* One event more is one event met after the others.
LEMMA ReplayAppend ==
  ASSUME NEW n, NEW start, start[n] \in SpriteType, NEW log \in Seq(EventType), NEW e \in EventType
  PROVE  /\ Replay(n, start, log) \in ReplayType
         /\ Replay(n, start, Append(log, e)) = Meets(Replay(n, start, log), e, n)
  <1> DEFINE len == Len(log)
             more == Append(log, e)
  <1>1. /\ more \in Seq(EventType) /\ Len(more) = len + 1 /\ len \in Nat /\ more[len + 1] = e
        /\ \A k \in 1 .. len : more[k] = log[k]
    OBVIOUS
  <1>2. PICK f : Replays(f, n, start, log) /\ Replay(n, start, log) = f[len]
    BY ReplayDefined
  <1> HIDE DEF more
  <1>3. PICK g : Replays(g, n, start, more) /\ Replay(n, start, more) = g[len + 1]
    BY <1>1, ReplayDefined
  <1> DEFINE T == {k \in Nat : k <= len => f[k] = g[k]}
  <1>4. 0 \in T
    BY <1>2, <1>3 DEF Replays
  <1>5. ASSUME NEW k \in Nat, k \in T PROVE k + 1 \in T
    <2> SUFFICES ASSUME k + 1 <= len PROVE f[k + 1] = g[k + 1]
      OBVIOUS
    <2>1. k + 1 \in 1 .. len /\ k + 1 \in 1 .. Len(more) /\ k + 1 - 1 = k /\ k <= len
      BY <1>1
    <2>2. f[k + 1] = Meets(f[k + 1 - 1], log[k + 1], n) /\ g[k + 1] = Meets(g[k + 1 - 1], more[k + 1], n)
      BY <1>2, <1>3, <2>1 DEF Replays
    <2>3. QED
      BY <1>1, <1>5, <2>1, <2>2
  <1>6. f[len] = g[len]
    <2> HIDE DEF T
    <2>1. Nat \subseteq T
      BY <1>4, <1>5, SetInduction
    <2>2. QED
      BY <1>1, <2>1 DEF T
  <1>7. len + 1 \in 1 .. Len(more) /\ len + 1 - 1 = len /\ len \in 0 .. len
    BY <1>1
  <1>8. g[len + 1] = Meets(g[len], e, n)
    BY <1>1, <1>3, <1>7 DEF Replays
  <1>9. f[len] \in ReplayType
    BY <1>2, <1>7 DEF Replays
  <1>10. QED
    BY <1>2, <1>3, <1>6, <1>8, <1>9 DEF more

LEMMA ReplayNothing ==
  ASSUME NEW n, NEW start, start[n] \in SpriteType
  PROVE  Replay(n, start, <<>>) = Before(start[n])
  <1>1. <<>> \in Seq(EventType) /\ Len(<<>>) = 0
    OBVIOUS
  <1>2. PICK f : Replays(f, n, start, <<>>) /\ Replay(n, start, <<>>) = f[Len(<<>>)]
    BY <1>1, ReplayDefined
  <1>3. QED
    BY <1>1, <1>2 DEF Replays

-----------------------------------------------------------------------------
(* The log of a line against the beam.                                     *)

\* The replay, as far as the beam, has the sprite as it is and the starts the
\* beam has come to.
Matches(r, s, beam, starts) ==
  /\ r \in ReplayType /\ SameShown(r.state, s)
  /\ r.position <= beam /\ Start(r, beam).out = Fitting(starts)

LogMatches(g) ==
  ~g.lost => \A n \in SpriteIds : Matches(Replay(n, line_start, g.events), g.sprites[n], 2 * hpos, seen[n])

LEMMA ShownAppend ==
  ASSUME NEW starts \in Seq(TriggerType), NEW x \in TriggerType
  PROVE  Fitting(Append(starts, x)) = Longer(Fitting(starts), x)
  <1> DEFINE len == Len(starts)
             more == Append(starts, x)
             m == MaxTriggers
  <1>1. len \in Nat /\ m \in Nat /\ more \in Seq(TriggerType) /\ Len(more) = len + 1 /\ more[len + 1] = x
        /\ \A i \in 1 .. len : more[i] = starts[i]
    BY SpritesAssumption
  <1> HIDE DEF more, m
  <1>2. CASE len < m
    <2>1. Fitting(starts) = starts
      <3>1. Fitting(starts) = SubSeq(starts, 1, len)
        BY <1>2 DEF Fitting, m
      <3>2. QED
        BY <3>1
    <2>2. Fitting(more) = more
      <3>1. Fitting(more) = SubSeq(more, 1, len + 1)
        BY <1>1, <1>2 DEF Fitting, m
      <3>2. QED
        BY <1>1, <3>1
    <2>3. QED
      BY <1>2, <2>1, <2>2 DEF Longer, more, m
  <1>3. CASE len >= m
    <2>1. Fitting(starts) = SubSeq(starts, 1, m) /\ Fitting(more) = SubSeq(more, 1, m)
      <3>1. (IF len < m THEN len ELSE m) = m /\ (IF len + 1 < m THEN len + 1 ELSE m) = m
        BY <1>1, <1>3
      <3>2. QED
        BY <1>1, <3>1 DEF Fitting, m
    <2>2. SubSeq(starts, 1, m) = SubSeq(more, 1, m)
      BY <1>1, <1>3
    <2>3. Len(SubSeq(starts, 1, m)) = m
      BY <1>1, <1>3
    <2> DEFINE first == SubSeq(starts, 1, m)
    <2>4. Longer(first, x) = first
      <3> HIDE DEF first
      <3>1. QED
        BY <1>1, <2>3 DEF Longer, m, first
    <2>5. QED
      BY <2>1, <2>2, <2>4 DEF more
  <1>4. QED
    BY <1>1, <1>2, <1>3

\* A write where the beam is changes the sprite and its replay alike.
LEMMA EventMatches ==
  ASSUME NEW r, NEW s \in SpriteType, NEW h \in Nat, NEW starts,
         Matches(r, s, 2 * h, starts), NEW e \in EventType, e.hpos = h
  PROVE  Matches(ApplyEvent(r, e), apply(s, e.reg, e.value), 2 * h, starts)
  <1> DEFINE t == ApplyEvent(r, e)
             b == 2 * h
  <1>1. b \in Nat /\ r \in ReplayType /\ r.state \in SpriteType /\ Fits(e.reg, e.value)
    BY EventFits DEF Matches, ReplayType
  <1>2. /\ t \in ReplayType /\ t.state = apply(r.state, e.reg, e.value)
        /\ t.out = Start(r, b).out /\ t.position = b
    BY <1>1, EventFields DEF Matches
  <1>3. SameShown(t.state, apply(s, e.reg, e.value))
    BY <1>1, <1>2, ApplyShown DEF Matches
  <1>4. Start(t, b) = t
    <2>1. hstart(t.state) \in Nat
      BY <1>2, Positions DEF ReplayType
    <2> HIDE DEF t, b
    <2>2. ~Starts(t, b)
      BY <1>1, <1>2, <2>1 DEF Starts
    <2>3. QED
      BY <1>1, <1>2, <2>2, StartFields
  <1> HIDE DEF t, b
  <1>5. t.position <= b
    BY <1>1, <1>2
  <1>6. Start(r, b).out = Fitting(starts)
    BY DEF Matches, b
  <1>7. Matches(t, apply(s, e.reg, e.value), b, starts)
    BY <1>2, <1>3, <1>4, <1>5, <1>6 DEF Matches
  <1>8. QED
    BY <1>7 DEF t, b

\* The beam passes a color clock.
LEMMA BeamMatches ==
  ASSUME NEW n, NEW r, NEW s \in SpriteType, hpos \in Nat, NEW starts \in Seq(TriggerType),
         Matches(r, s, 2 * hpos, starts)
  PROVE  Matches(r, s, 2 * hpos + 2, Passed(n, s, starts)) /\ Passed(n, s, starts) \in Seq(TriggerType)
  <1> DEFINE b == 2 * hpos
             h == hstart(s)
             x == Trigger(s)
             after == Passed(n, s, starts)
  <1>1. /\ r \in ReplayType /\ r.state \in SpriteType /\ r.position \in Nat /\ b \in Nat /\ h \in Nat
        /\ r.position <= b
    BY Positions DEF Matches, ReplayType
  <1>2. Trigger(r.state) = x /\ hstart(r.state) = h /\ r.state.armed = s.armed /\ x \in TriggerType
    BY <1>1, SameTrigger, TriggerTyped DEF Matches
  <1> HIDE DEF h, x
  <1>3. CASE s.armed /\ h \in {b, b + 1}
    <2>1. after = Append(starts, x)
      BY <1>3 DEF Passed, h, x
    <2>2. Starts(r, b + 2) /\ ~Starts(r, b)
      BY <1>1, <1>2, <1>3 DEF Starts
    <2>3. Start(r, b).out = r.out
      BY <1>1, <2>2, StartFields
    <2>4. Start(r, b + 2).out = Longer(r.out, x)
      <3>1. b + 2 \in Nat
        BY <1>1
      <3>2. QED
        BY <1>1, <1>2, <2>2, <3>1, StartFields
    <2>5. Longer(Fitting(starts), x) = Fitting(after)
      BY <1>2, <2>1, ShownAppend
    <2>6. r.position <= b + 2 /\ after \in Seq(TriggerType)
      BY <1>1, <1>2, <2>1
    <2> HIDE DEF after
    <2>7. QED
      BY <1>1, <2>3, <2>4, <2>5, <2>6 DEF Matches, after
  <1>4. CASE ~(s.armed /\ h \in {b, b + 1})
    <2>1. after = starts
      BY <1>4 DEF Passed, h
    <2>2. Starts(r, b + 2) <=> Starts(r, b)
      BY <1>1, <1>2, <1>4 DEF Starts
    <2>3. Start(r, b).out = Start(r, b + 2).out
      <3>1. b + 2 \in Nat
        BY <1>1
      <3>2. CASE Starts(r, b)
        <4>1. Start(r, b).out = Longer(r.out, Trigger(r.state))
          BY <1>1, <3>2, StartFields
        <4>2. Start(r, b + 2).out = Longer(r.out, Trigger(r.state))
          BY <1>1, <2>2, <3>1, <3>2, StartFields
        <4>3. QED
          BY <4>1, <4>2
      <3>3. CASE ~Starts(r, b)
        <4>1. Start(r, b) = r
          BY <1>1, <3>3, StartFields
        <4>2. Start(r, b + 2) = r
          BY <1>1, <2>2, <3>1, <3>3, StartFields
        <4>3. QED
          BY <4>1, <4>2
      <3>4. QED
        BY <3>2, <3>3
    <2>4. r.position <= b + 2
      BY <1>1
    <2> HIDE DEF after
    <2>5. QED
      BY <1>1, <2>1, <2>3, <2>4 DEF Matches, after
  <1>5. QED
    BY <1>3, <1>4

\* The beginning of a line, before its first clock.
LEMMA LineMatches ==
  ASSUME NEW s \in SpriteType, NEW start, NEW n, start[n] = s
  PROVE  Matches(Replay(n, start, <<>>), s, 0, <<>>)
  <1> DEFINE r == Before(s)
  <1>1. Replay(n, start, <<>>) = r
    BY ReplayNothing
  <1>2. r \in ReplayType /\ r.state = s /\ r.position = 0 /\ r.out = <<>>
    BY BeforeTyped DEF Before
  <1> HIDE DEF r
  <1>3. Start(r, 0) = r
    <2>1. hstart(r.state) \in Nat
      BY <1>2, Positions
    <2>2. ~Starts(r, 0)
      BY <1>2, <2>1 DEF Starts
    <2>3. QED
      BY <1>2, <2>2, StartFields
  <1>4. Fitting(<<>>) = <<>>
    <2>1. Len(<<>>) = 0 /\ SubSeq(<<>>, 1, 0) = <<>>
      OBVIOUS
    <2>2. (IF 0 < MaxTriggers THEN 0 ELSE MaxTriggers) = 0
      BY SpritesAssumption
    <2>3. QED
      BY <2>1, <2>2 DEF Fitting
  <1>5. QED
    BY <1>1, <1>2, <1>3, <1>4 DEF Matches, SameShown

-----------------------------------------------------------------------------
(* A step that concerns one sprite.                                        *)

LineTyped ==
  /\ hpos \in 0 .. LineClocks - 1 /\ line_start \in [SpriteIds -> SpriteType]
  /\ seen \in [SpriteIds -> Seq(TriggerType)]

\* t is g but for sprite n and the log, which still tells what is shown.
Along(g, n, t) ==
  /\ t \in LogType
  /\ \A m \in SpriteIds : m # n => t.sprites[m] = g.sprites[m]
  /\ LogMatches(g) => LogMatches(t)

LEMMA AlongSelf ==
  ASSUME NEW g \in LogType, NEW n PROVE Along(g, n, g)
  BY DEF Along

LEMMA AlongTwice ==
  ASSUME NEW g, NEW n, NEW t, NEW u, Along(g, n, t), Along(t, n, u)
  PROVE  Along(g, n, u)
  BY DEF Along

LEMMA SetAlong ==
  ASSUME LineTyped, NEW g \in LogType, NEW n \in SpriteIds, NEW reg, NEW value, Fits(reg, value),
         NEW t, t = set(g, n, reg, value)
  PROVE  Along(g, n, t) /\ t.sprites[n] = apply(g.sprites[n], reg, value)
  <1> DEFINE full == Len(g.events) >= MaxEvents
             e == [hpos |-> hpos, sprite |-> n, reg |-> reg, value |-> value]
             s == apply(g.sprites[n], reg, value)
             log == IF full THEN g.events ELSE Append(g.events, e)
             sprs == [g.sprites EXCEPT ![n] = s]
  <1>1. g.sprites \in [SpriteIds -> SpriteType] /\ g.events \in Seq(EventType) /\ g.lost \in BOOLEAN
    BY DEF LogType
  <1>2. e \in EventType /\ e.hpos = hpos /\ e.sprite = n /\ e.reg = reg /\ e.value = value
    BY FitsEvent DEF LineTyped
  <1>3. s \in SpriteType
    BY <1>1, ApplyFields
  <1>4. t = [sprites |-> sprs, events |-> log, lost |-> g.lost \/ full]
    BY DEF set
  <1> HIDE DEF e, s
  <1>5. log \in Seq(EventType) /\ sprs \in [SpriteIds -> SpriteType]
    BY <1>1, <1>2, <1>3
  <1>6. sprs[n] = s /\ \A m \in SpriteIds : m # n => sprs[m] = g.sprites[m]
    BY <1>1
  <1>7. (g.lost \/ full) \in BOOLEAN
    BY <1>1
  <1> HIDE DEF sprs, log, full
  <1>8. t \in LogType /\ t.sprites = sprs /\ t.events = log /\ t.lost = (g.lost \/ full)
    BY <1>4, <1>5, <1>7 DEF LogType
  <1>9. ASSUME LogMatches(g), ~t.lost, NEW m \in SpriteIds
        PROVE  Matches(Replay(m, line_start, t.events), t.sprites[m], 2 * hpos, seen[m])
    <2> DEFINE r == Replay(m, line_start, g.events)
    <2>1. Matches(r, g.sprites[m], 2 * hpos, seen[m])
      BY <1>8, <1>9 DEF LogMatches
    <2>2. t.events = Append(g.events, e)
      BY <1>8, <1>9 DEF log
    <2>3. Replay(m, line_start, t.events) = Meets(r, e, m)
      BY <1>1, <1>2, <2>2, ReplayAppend DEF LineTyped
    <2> HIDE DEF r
    <2>4. CASE m = n
      <3>1. Meets(r, e, m) = ApplyEvent(r, e) /\ t.sprites[m] = s
        BY <1>2, <1>6, <1>8, <2>4 DEF Meets
      <3>2. hpos \in Nat /\ g.sprites[m] \in SpriteType
        BY <1>1, SpritesAssumption DEF LineTyped
      <3>3. Matches(ApplyEvent(r, e), apply(g.sprites[m], e.reg, e.value), 2 * hpos, seen[m])
        BY <1>2, <2>1, <3>2, EventMatches
      <3>4. QED
        BY <1>2, <2>3, <2>4, <3>1, <3>3 DEF s
    <2>5. CASE m # n
      BY <1>2, <1>6, <1>8, <2>1, <2>3, <2>5 DEF Meets
    <2>6. QED
      BY <2>4, <2>5
  <1>10. LogMatches(g) => LogMatches(t)
    BY <1>9 DEF LogMatches
  <1>11. QED
    BY <1>6, <1>8, <1>10 DEF Along, s

Replaced(g, n, s) == [g EXCEPT !.sprites = [@ EXCEPT ![n] = s]]

\* A change of a sprite that neither shows nor is logged.
LEMMA ElseAlong ==
  ASSUME NEW g \in LogType, NEW n \in SpriteIds, NEW s \in SpriteType, SameShown(s, g.sprites[n]),
         NEW t, t = Replaced(g, n, s)
  PROVE  Along(g, n, t) /\ t.sprites[n] = s
  <1> DEFINE sprs == [g.sprites EXCEPT ![n] = s]
  <1>1. g.sprites \in [SpriteIds -> SpriteType] /\ g.events \in Seq(EventType) /\ g.lost \in BOOLEAN
    BY DEF LogType
  <1>2. sprs \in [SpriteIds -> SpriteType] /\ sprs[n] = s /\ \A m \in SpriteIds : m # n => sprs[m] = g.sprites[m]
    BY <1>1
  <1>3. t = [g EXCEPT !.sprites = sprs]
    BY DEF Replaced
  <1> HIDE DEF sprs
  <1>4. t \in LogType /\ t.sprites = sprs /\ t.events = g.events /\ t.lost = g.lost
    BY <1>1, <1>2, <1>3 DEF LogType
  <1>5. ASSUME LogMatches(g), ~t.lost, NEW m \in SpriteIds
        PROVE  Matches(Replay(m, line_start, t.events), t.sprites[m], 2 * hpos, seen[m])
    <2>1. Matches(Replay(m, line_start, g.events), g.sprites[m], 2 * hpos, seen[m])
      BY <1>4, <1>5 DEF LogMatches
    <2>2. SameShown(t.sprites[m], g.sprites[m])
      BY <1>2, <1>4 DEF SameShown
    <2>3. QED
      BY <1>4, <2>1, <2>2 DEF Matches, SameShown
  <1>6. QED
    BY <1>2, <1>4, <1>5 DEF Along, LogMatches

LEMMA AdvanceAlong ==
  ASSUME NEW g \in LogType, NEW n \in SpriteIds, NEW t, t = Advance(g, n)
  PROVE  /\ Along(g, n, t) /\ SameShown(t.sprites[n], g.sprites[n])
         /\ t.sprites[n].pointer = (g.sprites[n].pointer + 1) % RamPairs
         /\ t.sprites[n].dma = g.sprites[n].dma
  <1> DEFINE p == (g.sprites[n].pointer + 1) % RamPairs
             s == [g.sprites[n] EXCEPT !.pointer = p]
  <1>1. g.sprites[n] \in SpriteType /\ g.sprites \in [SpriteIds -> SpriteType]
    BY DEF LogType
  <1>2. p \in 0 .. RamPairs - 1
    <2>1. g.sprites[n].pointer \in 0 .. RamPairs - 1
      BY <1>1 DEF SpriteType
    <2>2. QED
      BY <2>1, SpritesAssumption
  <1>3. t = Replaced(g, n, s)
    BY <1>1 DEF Advance, LogType, Replaced
  <1> HIDE DEF p
  <1>4. s \in SpriteType /\ SameShown(s, g.sprites[n]) /\ s.pointer = p /\ s.dma = g.sprites[n].dma
    BY <1>1, <1>2 DEF SpriteType, SameShown
  <1> HIDE DEF s
  <1>6. Along(g, n, t) /\ t.sprites[n] = s
    BY <1>3, <1>4, ElseAlong
  <1>7. QED
    BY <1>4, <1>6 DEF p

Switched(g, n, d) == [g EXCEPT !.sprites[n].dma = d]

LEMMA SwitchAlong ==
  ASSUME NEW g \in LogType, NEW n \in SpriteIds, NEW d \in Dma, NEW t, t = Switched(g, n, d)
  PROVE  /\ Along(g, n, t) /\ SameShown(t.sprites[n], g.sprites[n])
         /\ t.sprites[n].pointer = g.sprites[n].pointer
         /\ t.sprites[n].dma = d
  <1> DEFINE s == [g.sprites[n] EXCEPT !.dma = d]
  <1>1. g.sprites[n] \in SpriteType /\ g.sprites \in [SpriteIds -> SpriteType]
    BY DEF LogType
  <1>2. t = Replaced(g, n, s)
    BY <1>1 DEF LogType, Replaced, Switched
  <1>3. s \in SpriteType /\ SameShown(s, g.sprites[n]) /\ s.pointer = g.sprites[n].pointer /\ s.dma = d
    BY <1>1 DEF SpriteType, SameShown
  <1> HIDE DEF s
  <1>5. Along(g, n, t) /\ t.sprites[n] = s
    BY <1>2, <1>3, ElseAlong
  <1>6. QED
    BY <1>3, <1>5

-----------------------------------------------------------------------------
(* What DMA fetches.                                                       *)

\* What the writes of DMA leave of a sprite.
LEMMA WriteFields ==
  ASSUME NEW s \in SpriteType, NEW value, NEW t
  PROVE  /\ t = apply(s, "POS", value) => t.pointer = s.pointer
         /\ t = apply(s, "CTL", value) => t.pointer = s.pointer
         /\ t = apply(s, "DATB", value)
              => /\ t.pos = s.pos /\ t.ctl = s.ctl /\ t.datb = value
                 /\ t.pointer = s.pointer /\ t.dma = s.dma
         /\ t = apply(s, "DATA", value)
              => /\ t.pos = s.pos /\ t.ctl = s.ctl /\ t.data = value /\ t.datb = s.datb /\ t.armed
                 /\ t.pointer = s.pointer /\ t.dma = s.dma
  <1>1. t = apply(s, "POS", value) => t.pointer = s.pointer
    BY DEF apply, SpriteType
  <1>2. t = apply(s, "CTL", value) => t.pointer = s.pointer
    BY DEF apply, SpriteType
  <1>3. t = apply(s, "DATB", value)
          => /\ t.pos = s.pos /\ t.ctl = s.ctl /\ t.datb = value
             /\ t.pointer = s.pointer /\ t.dma = s.dma
    BY DEF apply, SpriteType
  <1>4. t = apply(s, "DATA", value)
          => /\ t.pos = s.pos /\ t.ctl = s.ctl /\ t.data = value /\ t.datb = s.datb /\ t.armed
             /\ t.pointer = s.pointer /\ t.dma = s.dma
    BY DEF apply, SpriteType
  <1>5. QED
    BY <1>1, <1>2, <1>3, <1>4

LEMMA FetchControlAlong ==
  ASSUME LineTyped, NEW g \in LogType, NEW n \in SpriteIds, NEW c, c.pos \in Pos, c.ctl \in Ctl,
         NEW t, t = fetch_control(g, n, c)
  PROVE  /\ Along(g, n, t) /\ t.sprites[n] \in SpriteType
         /\ t.sprites[n].pointer = (g.sprites[n].pointer + 1) % RamPairs
         /\ t.sprites[n].dma # "Active"
         /\ t.sprites[n].dma = "WaitStart" => t.sprites[n].ctl.vstop > vstart(t.sprites[n])
  <1> DEFINE u == set(g, n, "POS", c.pos)
             v == set(u, n, "CTL", c.ctl)
             f == Advance(v, n)
             d == IF f.sprites[n].ctl.vstop > vstart(f.sprites[n]) THEN "WaitStart" ELSE "Idle"
  <1>1. t = Switched(f, n, d)
    BY DEF fetch_control, Switched
  <1>2. Along(g, n, u) /\ u.sprites[n] = apply(g.sprites[n], "POS", c.pos)
    BY SetAlong DEF Fits
  <1>3. u \in LogType /\ u.sprites[n] \in SpriteType
    BY <1>2 DEF Along, LogType
  <1> HIDE DEF u
  <1>4. Along(u, n, v) /\ v.sprites[n] = apply(u.sprites[n], "CTL", c.ctl)
    BY <1>3, SetAlong DEF Fits
  <1>5. v \in LogType /\ v.sprites[n] \in SpriteType
    BY <1>4 DEF Along, LogType
  <1>6. v.sprites[n].pointer = g.sprites[n].pointer
    <2>1. g.sprites[n] \in SpriteType
      BY DEF LogType
    <2>2. u.sprites[n].pointer = g.sprites[n].pointer
      <3> DEFINE x == u.sprites[n]
                 y == g.sprites[n]
      <3>1. x = apply(y, "POS", c.pos) /\ c.pos \in Pos /\ y \in SpriteType
        BY <1>2, <2>1
      <3> HIDE DEF x, y
      <3>2. x.pointer = y.pointer
        BY <3>1, WriteFields
      <3>3. QED
        BY <3>2 DEF x, y
    <2>3. v.sprites[n].pointer = u.sprites[n].pointer
      BY <1>3, <1>4, WriteFields
    <2>4. QED
      BY <2>2, <2>3
  <1> HIDE DEF v
  <1>7. /\ Along(v, n, f) /\ f.sprites[n].pointer = (v.sprites[n].pointer + 1) % RamPairs
    BY <1>5, AdvanceAlong
  <1>8. f \in LogType
    BY <1>7 DEF Along
  <1> HIDE DEF f
  <1>9. d \in Dma /\ d # "Active" /\ (d = "WaitStart" => f.sprites[n].ctl.vstop > vstart(f.sprites[n]))
    BY DEF Dma
  <1> HIDE DEF d
  <1>10. /\ Along(f, n, t) /\ SameShown(t.sprites[n], f.sprites[n])
         /\ t.sprites[n].pointer = f.sprites[n].pointer /\ t.sprites[n].dma = d
    BY <1>1, <1>8, <1>9, SwitchAlong
  <1>11. Along(g, n, t)
    BY <1>2, <1>4, <1>7, <1>10, AlongTwice
  <1>12. t.sprites[n].ctl.vstop = f.sprites[n].ctl.vstop /\ vstart(t.sprites[n]) = vstart(f.sprites[n])
    BY <1>10 DEF SameShown, vstart
  <1>13. t.sprites[n] \in SpriteType
    BY <1>11 DEF Along, LogType
  <1>14. QED
    BY <1>6, <1>7, <1>9, <1>10, <1>11, <1>12, <1>13

LEMMA FetchDataAlong ==
  ASSUME LineTyped, NEW g \in LogType, NEW n \in SpriteIds, NEW t, t = fetch_data(g, n),
         NEW p, p = g.sprites[n].pointer
  PROVE  /\ Along(g, n, t) /\ t.sprites[n] \in SpriteType
         /\ t.sprites[n].pos = g.sprites[n].pos /\ t.sprites[n].ctl = g.sprites[n].ctl
         /\ t.sprites[n].data = p /\ t.sprites[n].datb = p /\ t.sprites[n].armed
         /\ t.sprites[n].pointer = (p + 1) % RamPairs /\ t.sprites[n].dma = g.sprites[n].dma
  <1> DEFINE u == set(g, n, "DATB", p)
             v == set(u, n, "DATA", p)
  <1>1. t = Advance(v, n)
    BY DEF fetch_data
  <1>2. g.sprites[n] \in SpriteType /\ p \in SpriteData
    <2>1. g.sprites[n] \in SpriteType
      BY DEF LogType
    <2>2. p \in 0 .. RamPairs - 1
      BY <2>1 DEF SpriteType
    <2>3. QED
      BY <2>1, <2>2, SpritesAssumption DEF SpriteData
  <1>3. Along(g, n, u) /\ u.sprites[n] = apply(g.sprites[n], "DATB", p)
    BY <1>2, SetAlong DEF Fits
  <1>4. u \in LogType /\ u.sprites[n] \in SpriteType
    BY <1>3 DEF Along, LogType
  <1>5. /\ u.sprites[n].pos = g.sprites[n].pos /\ u.sprites[n].ctl = g.sprites[n].ctl
        /\ u.sprites[n].datb = p /\ u.sprites[n].pointer = p /\ u.sprites[n].dma = g.sprites[n].dma
    BY <1>2, <1>3, WriteFields
  <1> HIDE DEF u
  <1>6. Along(u, n, v) /\ v.sprites[n] = apply(u.sprites[n], "DATA", p)
    BY <1>2, <1>4, SetAlong DEF Fits
  <1>7. v \in LogType /\ v.sprites[n] \in SpriteType
    BY <1>6 DEF Along, LogType
  <1>8. /\ v.sprites[n].pos = g.sprites[n].pos /\ v.sprites[n].ctl = g.sprites[n].ctl
        /\ v.sprites[n].data = p /\ v.sprites[n].datb = p /\ v.sprites[n].armed
        /\ v.sprites[n].pointer = p /\ v.sprites[n].dma = g.sprites[n].dma
    BY <1>2, <1>4, <1>5, <1>6, WriteFields
  <1> HIDE DEF v
  <1>9. /\ Along(v, n, t) /\ SameShown(t.sprites[n], v.sprites[n])
        /\ t.sprites[n].pointer = (v.sprites[n].pointer + 1) % RamPairs
        /\ t.sprites[n].dma = v.sprites[n].dma
    BY <1>1, <1>7, AdvanceAlong
  <1>10. Along(g, n, t)
    BY <1>3, <1>6, <1>9, AlongTwice
  <1>11. t.sprites[n] \in SpriteType
    BY <1>10 DEF Along, LogType
  <1>12. QED
    BY <1>8, <1>9, <1>10, <1>11 DEF SameShown

LEMMA BegunAlong ==
  ASSUME NEW g \in LogType, NEW n \in SpriteIds, NEW t, t = Begun(g, n)
  PROVE  /\ Along(g, n, t) /\ t.sprites[n] \in SpriteType /\ SameShown(t.sprites[n], g.sprites[n])
         /\ t.sprites[n].pointer = g.sprites[n].pointer
         /\ t.sprites[n].dma = IF g.sprites[n].dma = "WaitStart" /\ vpos = vstart(g.sprites[n])
                               THEN "Active" ELSE g.sprites[n].dma
  <1> DEFINE starts == g.sprites[n].dma = "WaitStart" /\ vpos = vstart(g.sprites[n])
  <1>1. CASE starts
    <2>1. t = Switched(g, n, "Active")
      BY <1>1 DEF Begun, Switched
    <2>2. "Active" \in Dma
      BY DEF Dma
    <2>3. /\ Along(g, n, t) /\ SameShown(t.sprites[n], g.sprites[n])
          /\ t.sprites[n].pointer = g.sprites[n].pointer /\ t.sprites[n].dma = "Active"
      BY <2>1, <2>2, SwitchAlong
    <2>4. QED
      BY <1>1, <2>3 DEF Along, LogType
  <1>2. CASE ~starts
    <2>1. t = g
      BY <1>2 DEF Begun
    <2>2. QED
      BY <1>2, <2>1, AlongSelf DEF SameShown, LogType
  <1>3. QED
    BY <1>1, <1>2

-----------------------------------------------------------------------------
(* The place of a sprite in its image.                                     *)

\* A sprite with its image at words at, after the DMA of line.
InPlace(s, at, line) ==
  LET row == line - vstart(s)
  IN /\ s.dma = "WaitStart" => s.pointer = at /\ s.ctl.vstop > vstart(s)
     /\ s.dma = "Active" =>
          /\ row >= 0 /\ line < s.ctl.vstop
          /\ s.armed /\ s.data = (at + row) % RamPairs /\ s.datb = s.data
          /\ s.pointer = (at + row + 1) % RamPairs

\* The words of a line, for a sprite that is active: the first of its image
\* or the next.
LEMMA DataInPlace ==
  ASSUME LineTyped, vpos \in Nat, NEW g \in LogType, NEW n \in SpriteIds, NEW at \in 0 .. RamPairs - 1,
         NEW s, s = g.sprites[n], s.dma = "Active",
         vstart(s) <= vpos, vpos < s.ctl.vstop,
         s.pointer = (at + (vpos - vstart(s))) % RamPairs,
         NEW t, t = fetch_data(g, n)
  PROVE  Along(g, n, t) /\ InPlace(t.sprites[n], at, vpos)
  <1> DEFINE u == t.sprites[n]
             p == s.pointer
             row == vpos - vstart(s)
             x == at + row
  <1>1. /\ Along(g, n, t) /\ u.pos = s.pos /\ u.ctl = s.ctl
        /\ u.data = p /\ u.datb = p /\ u.armed
        /\ u.pointer = (p + 1) % RamPairs /\ u.dma = s.dma
    BY FetchDataAlong
  <1>2. vstart(u) = vstart(s)
    BY <1>1 DEF vstart
  <1>3. s \in SpriteType /\ vstart(s) \in Nat /\ row \in Nat /\ x \in Nat /\ RamPairs \in Nat \ {0}
    <2>1. s \in SpriteType /\ RamPairs \in Nat \ {0}
      BY SpritesAssumption DEF LogType
    <2>2. vstart(s) \in Nat
      BY <2>1, Positions
    <2>3. row \in Nat /\ at \in Nat
      BY <2>1, <2>2
    <2>4. QED
      BY <2>1, <2>2, <2>3
  <1>4. (p + 1) % RamPairs = (x + 1) % RamPairs
    <2> HIDE DEF x, row
    <2>1. ((x % RamPairs) + 1) % RamPairs = (x + 1) % RamPairs
      BY <1>3, WrapsAt
    <2>2. p = x % RamPairs
      BY DEF x, row
    <2>3. QED
      BY <2>1, <2>2
  <1>5. x + 1 = at + row + 1 /\ p = (at + row) % RamPairs
    BY <1>3
  <1> HIDE DEF u, p, row, x
  <1>6. InPlace(u, at, vpos)
    BY <1>1, <1>2, <1>3, <1>4, <1>5 DEF InPlace, row
  <1>7. QED
    BY <1>1, <1>6 DEF u

LEMMA SpriteDmaAlong ==
  ASSUME LineTyped, NEW g \in LogType, NEW n \in SpriteIds, NEW c,
         FetchesControl(g, n) => c.pos \in Pos /\ c.ctl \in Ctl,
         NEW t, t = SpriteDma(g, n, c)
  PROVE  Along(g, n, t)
  <1> DEFINE r == IF vpos = FirstDmaLine THEN fetch_control(g, n, c) ELSE g
             b == Begun(r, n)
             h == IF Ends(b, n) THEN Begun(fetch_control(b, n, c), n) ELSE b
  <1>1. t = IF h.sprites[n].dma = "Active" THEN fetch_data(h, n) ELSE h
    BY DEF SpriteDma
  <1>2. (vpos = FirstDmaLine \/ Ends(b, n)) => FetchesControl(g, n)
    BY DEF FetchesControl
  <1>3. Along(g, n, r) /\ r \in LogType
    <2>1. CASE vpos = FirstDmaLine
      <3>1. r = fetch_control(g, n, c) /\ c.pos \in Pos /\ c.ctl \in Ctl
        BY <1>2, <2>1
      <3> HIDE DEF r
      <3>2. Along(g, n, r)
        BY <3>1, FetchControlAlong
      <3>3. QED
        BY <3>2 DEF Along
    <2>2. CASE vpos # FirstDmaLine
      BY <2>2, AlongSelf
    <2>3. QED
      BY <2>1, <2>2
  <1> HIDE DEF r
  <1>4. Along(r, n, b) /\ b \in LogType
    BY <1>3, BegunAlong DEF Along
  <1> HIDE DEF b
  <1>5. Along(b, n, h) /\ h \in LogType
    <2>1. CASE Ends(b, n)
      <3> DEFINE f == fetch_control(b, n, c)
      <3>1. c.pos \in Pos /\ c.ctl \in Ctl
        BY <1>2, <2>1
      <3>2. Along(b, n, f)
        BY <1>4, <3>1, FetchControlAlong
      <3>3. f \in LogType
        BY <3>2 DEF Along
      <3> HIDE DEF f
      <3>4. Along(f, n, Begun(f, n))
        BY <3>3, BegunAlong
      <3>5. h = Begun(f, n)
        BY <2>1 DEF f
      <3> HIDE DEF h
      <3>6. Along(b, n, h)
        BY <3>2, <3>4, <3>5, AlongTwice
      <3>7. QED
        BY <3>6 DEF Along
    <2>2. CASE ~Ends(b, n)
      BY <1>4, <2>2, AlongSelf
    <2>3. QED
      BY <2>1, <2>2
  <1> HIDE DEF h
  <1>6. Along(h, n, t)
    BY <1>1, <1>5, FetchDataAlong, AlongSelf
  <1>7. QED
    BY <1>3, <1>4, <1>5, <1>6, AlongTwice

\* The rest of a line's DMA, for a sprite that is not active.
LEMMA Finish ==
  ASSUME LineTyped, vpos \in Nat, NEW g \in LogType, NEW n \in SpriteIds, NEW at \in 0 .. RamPairs - 1,
         NEW s, s = g.sprites[n], s.dma # "Active",
         s.dma = "WaitStart" => s.pointer = at /\ s.ctl.vstop > vstart(s),
         NEW b, b = Begun(g, n),
         NEW t, t = IF b.sprites[n].dma = "Active" THEN fetch_data(b, n) ELSE b
  PROVE  InPlace(t.sprites[n], at, vpos) /\ ~Ends(b, n)
  <1> DEFINE u == b.sprites[n]
  <1>1. /\ Along(g, n, b) /\ u \in SpriteType /\ SameShown(u, s) /\ u.pointer = s.pointer
        /\ u.dma = IF s.dma = "WaitStart" /\ vpos = vstart(s) THEN "Active" ELSE s.dma
    BY BegunAlong
  <1>2. b \in LogType /\ s \in SpriteType
    BY <1>1 DEF Along, LogType
  <1>3. vstart(u) = vstart(s) /\ u.ctl = s.ctl /\ vstart(s) \in Nat /\ s.ctl.vstop \in Nat
    <2>1. vstart(u) = vstart(s) /\ u.ctl = s.ctl
      BY <1>1 DEF SameShown, vstart
    <2>2. vstart(s) \in Nat /\ s.ctl.vstop \in Nat
      BY <1>2, Positions
    <2>3. QED
      BY <2>1, <2>2
  <1> HIDE DEF u
  <1>4. CASE s.dma = "WaitStart" /\ vpos = vstart(s)
    <2>1. u.dma = "Active" /\ vpos = vstart(u) /\ vpos < u.ctl.vstop /\ u.pointer = at
      BY <1>1, <1>3, <1>4
    <2>2. at = (at + (vpos - vstart(u))) % RamPairs
      <3>1. vpos - vstart(u) = 0 /\ RamPairs \in Nat \ {0}
        BY <2>1, SpritesAssumption
      <3>2. at + 0 = at /\ at % RamPairs = at
        BY <3>1
      <3>3. QED
        BY <3>1, <3>2
    <2>3. t = fetch_data(b, n) /\ ~Ends(b, n)
      BY <1>3, <2>1 DEF u, Ends
    <2>4. vstart(u) <= vpos
      BY <2>1
    <2>5. InPlace(t.sprites[n], at, vpos)
      BY <1>2, <2>1, <2>2, <2>3, <2>4, DataInPlace DEF u
    <2>6. QED
      BY <2>3, <2>5
  <1>5. CASE ~(s.dma = "WaitStart" /\ vpos = vstart(s))
    <2>1. u.dma = s.dma /\ u.dma # "Active"
      BY <1>1, <1>5
    <2>2. t = b /\ ~Ends(b, n)
      BY <2>1 DEF u, Ends
    <2>3. InPlace(u, at, vpos)
      BY <1>1, <1>3, <2>1 DEF InPlace
    <2>4. QED
      BY <2>2, <2>3 DEF u
  <1>6. QED
    BY <1>4, <1>5

LEMMA SpriteDmaPlace ==
  ASSUME LineTyped, vpos \in Nat, NEW g \in LogType, NEW n \in SpriteIds, NEW c,
         FetchesControl(g, n) => c.pos \in Pos /\ c.ctl \in Ctl,
         NEW at \in 0 .. RamPairs - 1,
         IF FetchesControl(g, n) THEN at = (g.sprites[n].pointer + 1) % RamPairs
         ELSE InPlace(g.sprites[n], at, vpos - 1),
         NEW t, t = SpriteDma(g, n, c)
  PROVE  InPlace(t.sprites[n], at, vpos)
  <1> DEFINE r == IF vpos = FirstDmaLine THEN fetch_control(g, n, c) ELSE g
             b == Begun(r, n)
             h == IF Ends(b, n) THEN Begun(fetch_control(b, n, c), n) ELSE b
  <1>1. t = IF h.sprites[n].dma = "Active" THEN fetch_data(h, n) ELSE h
    BY DEF SpriteDma
  <1>2. CASE vpos = FirstDmaLine
    <2> DEFINE f == fetch_control(g, n, c)
               d == IF b.sprites[n].dma = "Active" THEN fetch_data(b, n) ELSE b
    <2>1. FetchesControl(g, n) /\ r = f
      BY <1>2 DEF FetchesControl
    <2>2. /\ Along(g, n, f)
          /\ f.sprites[n].pointer = at /\ f.sprites[n].dma # "Active"
          /\ f.sprites[n].dma = "WaitStart" => f.sprites[n].ctl.vstop > vstart(f.sprites[n])
      BY <2>1, FetchControlAlong
    <2>3. f \in LogType
      BY <2>2 DEF Along
    <2> HIDE DEF f, r
    <2>4. b = Begun(f, n)
      BY <2>1
    <2> HIDE DEF b
    <2>5. InPlace(d.sprites[n], at, vpos) /\ ~Ends(b, n)
      BY <2>2, <2>3, <2>4, Finish
    <2>6. t = d
      BY <1>1, <2>5
    <2> HIDE DEF d
    <2>7. QED
      BY <2>5, <2>6
  <1>3. CASE vpos # FirstDmaLine
    <2>1. r = g /\ (Ends(b, n) <=> FetchesControl(g, n))
      BY <1>3 DEF FetchesControl
    <2>2. b = Begun(g, n)
      BY <2>1
    <2> HIDE DEF r, b
    <2>3. /\ Along(g, n, b) /\ SameShown(b.sprites[n], g.sprites[n])
          /\ b.sprites[n].pointer = g.sprites[n].pointer
          /\ b.sprites[n].dma = IF g.sprites[n].dma = "WaitStart" /\ vpos = vstart(g.sprites[n])
                                THEN "Active" ELSE g.sprites[n].dma
      BY <2>2, BegunAlong
    <2>4. b \in LogType
      BY <2>3 DEF Along
    <2>5. CASE Ends(b, n)
      <3> DEFINE f == fetch_control(b, n, c)
                 e == Begun(f, n)
                 d == IF e.sprites[n].dma = "Active" THEN fetch_data(e, n) ELSE e
      <3>1. c.pos \in Pos /\ c.ctl \in Ctl /\ at = (g.sprites[n].pointer + 1) % RamPairs
        BY <2>1, <2>5
      <3>2. /\ Along(b, n, f)
            /\ f.sprites[n].pointer = at /\ f.sprites[n].dma # "Active"
            /\ f.sprites[n].dma = "WaitStart" => f.sprites[n].ctl.vstop > vstart(f.sprites[n])
        BY <2>3, <2>4, <3>1, FetchControlAlong
      <3>3. f \in LogType
        BY <3>2 DEF Along
      <3>4. h = e
        BY <2>5
      <3> HIDE DEF f, e
      <3>5. e = Begun(f, n)
        BY DEF e
      <3>6. InPlace(d.sprites[n], at, vpos)
        BY <3>2, <3>3, <3>5, Finish
      <3>7. t = d
        <4> HIDE DEF h
        <4>1. QED
          BY <1>1, <3>4
      <3> HIDE DEF d
      <3>8. QED
        BY <3>6, <3>7
    <2>6. CASE ~Ends(b, n)
      <3> DEFINE s == g.sprites[n]
                 d == IF b.sprites[n].dma = "Active" THEN fetch_data(b, n) ELSE b
      <3>1. InPlace(s, at, vpos - 1)
        BY <2>1, <2>6
      <3>2. t = d
        <4>1. h = b
          BY <2>6
        <4> HIDE DEF h
        <4>2. QED
          BY <1>1, <4>1
      <3>3. s \in SpriteType /\ vstart(s) \in Nat /\ s.ctl.vstop \in Nat
        <4>1. s \in SpriteType
          BY DEF LogType
        <4> HIDE DEF s
        <4>2. QED
          BY <4>1, Positions
      <3>4. CASE s.dma # "Active"
        <4>1. s.dma = "WaitStart" => s.pointer = at /\ s.ctl.vstop > vstart(s)
          BY <3>1 DEF InPlace
        <4> HIDE DEF d
        <4>2. d = IF b.sprites[n].dma = "Active" THEN fetch_data(b, n) ELSE b
          BY DEF d
        <4>3. InPlace(d.sprites[n], at, vpos)
          BY <2>2, <3>4, <4>1, <4>2, Finish
        <4>4. QED
          BY <3>2, <4>3
      <3>5. CASE s.dma = "Active"
        <4> DEFINE u == b.sprites[n]
        <4>1. /\ u.dma = "Active" /\ u.pointer = s.pointer /\ u.ctl = s.ctl /\ vstart(u) = vstart(s)
          BY <2>3, <3>5 DEF SameShown, vstart
        <4>2. t = fetch_data(b, n)
          BY <3>2, <4>1
        <4>3. /\ vpos - 1 - vstart(s) >= 0 /\ vpos - 1 < s.ctl.vstop
              /\ s.pointer = (at + (vpos - 1 - vstart(s)) + 1) % RamPairs
          BY <3>1, <3>5 DEF InPlace
        <4>4. vpos # s.ctl.vstop
          BY <2>6, <4>1 DEF Ends
        <4> HIDE DEF s, u
        <4>5. vstart(u) <= vpos /\ vpos < u.ctl.vstop
          BY <3>3, <4>1, <4>3, <4>4
        <4>6. at + (vpos - 1 - vstart(s)) + 1 = at + (vpos - vstart(u))
          BY <3>3, <4>1
        <4>7. u.pointer = (at + (vpos - vstart(u))) % RamPairs
          BY <4>1, <4>3, <4>6
        <4>8. u = b.sprites[n]
          BY DEF u
        <4>9. QED
          BY <2>4, <4>1, <4>2, <4>5, <4>7, <4>8, DataInPlace
      <3>6. QED
        BY <3>4, <3>5
    <2>7. QED
      BY <2>5, <2>6
  <1>4. QED
    BY <1>2, <1>3

-----------------------------------------------------------------------------
(* One sprite after the other.                                             *)

\* The control pairs that chip RAM holds for the sprites that fetch one.
Controlled(g, controls) ==
  \A n \in SpriteIds : FetchesControl(g, n) => controls[n].pos \in Pos /\ controls[n].ctl \in Ctl

\* A sprite s after the line's DMA, from g.
Landed(g, n, s) ==
  \A at \in 0 .. RamPairs - 1 :
    (IF FetchesControl(g, n) THEN at = (g.sprites[n].pointer + 1) % RamPairs
     ELSE InPlace(g.sprites[n], at, vpos - 1))
    => InPlace(s, at, vpos)

\* x is g after the DMA of the first k sprites.
Done(g, k, x) ==
  /\ x \in LogType
  /\ LogMatches(g) => LogMatches(x)
  /\ \A m \in SpriteIds : IF m < k THEN Landed(g, m, x.sprites[m]) ELSE x.sprites[m] = g.sprites[m]

\* Whether a sprite fetches a control pair is up to that sprite alone.
LEMMA FetchesAlone ==
  ASSUME NEW g \in LogType, NEW x \in LogType, NEW n \in SpriteIds, x.sprites[n] = g.sprites[n]
  PROVE  FetchesControl(x, n) <=> FetchesControl(g, n)
  <1> DEFINE b == Begun(g, n)
             c == Begun(x, n)
  <1>1. /\ SameShown(b.sprites[n], g.sprites[n])
        /\ b.sprites[n].dma = IF g.sprites[n].dma = "WaitStart" /\ vpos = vstart(g.sprites[n])
                              THEN "Active" ELSE g.sprites[n].dma
    BY BegunAlong
  <1>2. /\ SameShown(c.sprites[n], x.sprites[n])
        /\ c.sprites[n].dma = IF x.sprites[n].dma = "WaitStart" /\ vpos = vstart(x.sprites[n])
                              THEN "Active" ELSE x.sprites[n].dma
    BY BegunAlong
  <1> HIDE DEF b, c
  <1>3. b.sprites[n].dma = c.sprites[n].dma /\ b.sprites[n].ctl = c.sprites[n].ctl
    BY <1>1, <1>2 DEF SameShown
  <1>4. Ends(b, n) <=> Ends(c, n)
    BY <1>3 DEF Ends
  <1>5. QED
    BY <1>4 DEF FetchesControl, b, c

LEMMA DmaStep ==
  ASSUME LineTyped, vpos \in Nat, NEW g \in LogType, NEW controls, Controlled(g, controls),
         NEW n \in SpriteIds, NEW x, Done(g, n, x), NEW y, y = SpriteDma(x, n, controls[n])
  PROVE  Done(g, n + 1, y)
  <1>1. x \in LogType /\ n \in Nat /\ n + 0 = n /\ x.sprites[n] = g.sprites[n]
    BY SpritesAssumption DEF Done, SpriteIds
  <1>2. FetchesControl(x, n) <=> FetchesControl(g, n)
    BY <1>1, FetchesAlone
  <1>3. FetchesControl(x, n) => controls[n].pos \in Pos /\ controls[n].ctl \in Ctl
    BY <1>2 DEF Controlled
  <1>4. Along(x, n, y)
    BY <1>1, <1>3, SpriteDmaAlong
  <1>5. ASSUME NEW at \in 0 .. RamPairs - 1,
               IF FetchesControl(g, n) THEN at = (g.sprites[n].pointer + 1) % RamPairs
               ELSE InPlace(g.sprites[n], at, vpos - 1)
        PROVE  InPlace(y.sprites[n], at, vpos)
    <2>1. IF FetchesControl(x, n) THEN at = (x.sprites[n].pointer + 1) % RamPairs
          ELSE InPlace(x.sprites[n], at, vpos - 1)
      BY <1>1, <1>2, <1>5
    <2>2. QED
      BY <1>1, <1>3, <2>1, SpriteDmaPlace
  <1>6. Landed(g, n, y.sprites[n])
    BY <1>5 DEF Landed
  <1>7. ASSUME NEW m \in SpriteIds
        PROVE  IF m < n + 1 THEN Landed(g, m, y.sprites[m]) ELSE y.sprites[m] = g.sprites[m]
    <2>1. CASE m = n
      BY <1>1, <1>6, <2>1
    <2>2. CASE m # n
      <3>1. y.sprites[m] = x.sprites[m]
        BY <1>4, <2>2 DEF Along
      <3>2. IF m < n THEN Landed(g, m, x.sprites[m]) ELSE x.sprites[m] = g.sprites[m]
        BY DEF Done
      <3>3. m < n + 1 <=> m < n
        BY <1>1, <2>2, SpritesAssumption DEF SpriteIds
      <3>4. QED
        BY <3>1, <3>2, <3>3
    <2>3. QED
      BY <2>1, <2>2
  <1>8. QED
    BY <1>4, <1>7 DEF Along, Done

LEMMA DmaLine ==
  ASSUME LineTyped, vpos \in Nat, NEW g \in LogType, NEW controls, Controlled(g, controls)
  PROVE  Done(g, SpriteCount, dma_line(g, controls))
  <1> DEFINE N == SpriteCount
             S == LogType
             h == [p \in Nat \X S |-> IF SpriteDma(p[2], p[1], controls[p[1]]) \in S
                                      THEN SpriteDma(p[2], p[1], controls[p[1]]) ELSE p[2]]
             Chain(f) == \A k \in 1 .. N : f[k] = SpriteDma(f[k - 1], k - 1, controls[k - 1])
             Defines(f) ==
               f = [n \in 0 .. N |->
                      IF n = 0 THEN g ELSE SpriteDma(f[n - 1], n - 1, controls[n - 1])]
  <1>1. N \in Nat /\ \A k \in Nat : k < N => k \in SpriteIds
    BY SpritesAssumption DEF SpriteIds
  <1>2. Done(g, 0, g)
    <2>1. \A m \in SpriteIds : ~(m < 0)
      BY SpritesAssumption DEF SpriteIds
    <2>2. QED
      BY <2>1 DEF Done
  <1>3. h \in [Nat \X S -> S]
    <2> HIDE DEF S
    <2>1. QED
      OBVIOUS
  <1>4. PICK f \in [Nat -> S] : Iterates(f, g, h)
    <2> HIDE DEF S, h
    <2>1. g \in S
      BY DEF S
    <2>2. QED
      BY <1>3, <2>1, Recursion, Zenon
  <1>5. ASSUME NEW k \in Nat, k < N, Done(g, k, f[k])
        PROVE  f[k + 1] = SpriteDma(f[k], k, controls[k]) /\ Done(g, k + 1, f[k + 1])
    <2>1. Done(g, k + 1, SpriteDma(f[k], k, controls[k]))
      BY <1>1, <1>5, DmaStep
    <2>2. SpriteDma(f[k], k, controls[k]) \in S /\ f[k] \in S
      BY <1>4, <2>1 DEF Done
    <2>3. f[k + 1] = h[<<k, f[k]>>]
      BY <1>4 DEF Iterates
    <2> HIDE DEF S
    <2>4. f[k + 1] = SpriteDma(f[k], k, controls[k])
      BY <2>2, <2>3
    <2>5. QED
      BY <2>1, <2>4
  <1> DEFINE T == {k \in Nat : k <= N => Done(g, k, f[k])}
  <1>6. Nat \subseteq T
    <2>1. 0 \in T
      BY <1>2, <1>4 DEF Iterates
    <2>2. ASSUME NEW k \in Nat, k \in T PROVE k + 1 \in T
      BY <1>1, <1>5, <2>2
    <2> HIDE DEF T
    <2>3. QED
      BY <2>1, <2>2, SetInduction
  <1> DEFINE a == [k \in 0 .. N |-> f[k]]
  <1>7. Defines(a)
    <2>1. ASSUME NEW k \in 0 .. N
          PROVE  a[k] = IF k = 0 THEN g ELSE SpriteDma(a[k - 1], k - 1, controls[k - 1])
      <3>1. CASE k = 0
        BY <1>4, <3>1 DEF Iterates
      <3>2. CASE k # 0
        <4>1. k - 1 \in Nat /\ k - 1 < N /\ k - 1 <= N /\ k - 1 + 1 = k /\ k - 1 \in 0 .. N
          BY <1>1, <3>2
        <4>2. k - 1 \in T
          BY <1>6, <4>1
        <4>3. Done(g, k - 1, f[k - 1])
          BY <4>1, <4>2
        <4>4. f[k - 1 + 1] = SpriteDma(f[k - 1], k - 1, controls[k - 1])
          BY <1>5, <4>1, <4>3
        <4>5. a[k] = f[k] /\ a[k - 1] = f[k - 1]
          BY <4>1
        <4> HIDE DEF a
        <4>6. QED
          BY <3>2, <4>1, <4>4, <4>5
      <3>3. QED
        BY <3>1, <3>2
    <2>2. a = [k \in 0 .. N |-> a[k]]
      OBVIOUS
    <2> HIDE DEF a
    <2>3. QED
      BY <2>1, <2>2
  <1> HIDE DEF a
  <1> DEFINE c == CHOOSE x : Defines(x)
  <1>8. dma_line(g, controls) = c[N]
    BY DEF dma_line
  <1>9. Defines(c)
    <2> HIDE DEF Defines
    <2>1. QED
      BY <1>7
  <1> HIDE DEF c
  <1>10. \A k \in 0 .. N : c[k] = IF k = 0 THEN g ELSE SpriteDma(c[k - 1], k - 1, controls[k - 1])
    BY <1>9, Zenon
  <1> DEFINE U == {k \in Nat : k <= N => Done(g, k, c[k])}
  <1>11. 0 \in U
    <2>1. c[0] = g
      BY <1>1, <1>10
    <2>2. QED
      BY <1>2, <2>1
  <1>12. ASSUME NEW k \in Nat, k \in U PROVE k + 1 \in U
    <2>1. SUFFICES ASSUME k + 1 <= N PROVE Done(g, k + 1, c[k + 1])
      OBVIOUS
    <2>2. k + 1 \in 0 .. N /\ k + 1 # 0 /\ k + 1 - 1 = k /\ k <= N /\ k < N
      BY <1>1, <2>1
    <2>3. c[k + 1] = SpriteDma(c[k], k, controls[k]) /\ Done(g, k, c[k])
      BY <1>10, <1>12, <2>2
    <2>4. QED
      BY <1>1, <2>2, <2>3, DmaStep
  <1>13. N \in U
    <2> HIDE DEF U
    <2>1. Nat \subseteq U
      BY <1>11, <1>12, SetInduction
    <2>2. QED
      BY <1>1, <2>1
  <1>14. QED
    BY <1>1, <1>8, <1>13

-----------------------------------------------------------------------------
(* The invariant.                                                          *)

\* The registers and their log.
Log == [sprites |-> sprites, events |-> events, lost |-> lost]

\* The line whose DMA is the last past.
DmaPast == IF hpos > DmaHpos THEN vpos ELSE vpos - 1

SpritesInv ==
  /\ Log \in LogType /\ LineTyped /\ vpos \in 0 .. Lines - 1
  /\ image \in [SpriteIds -> (0 .. RamPairs - 1) \cup {-1}]
  /\ \A n \in SpriteIds : image[n] # -1 => InPlace(sprites[n], image[n], DmaPast)
  /\ hpos # 0 => LogMatches(Log)

LEMMA LogFields ==
  Log.sprites = sprites /\ Log.events = events /\ Log.lost = lost
  BY DEF Log

LEMMA LogTyped ==
  ASSUME NEW s \in [SpriteIds -> SpriteType], NEW log \in Seq(EventType), NEW l \in BOOLEAN
  PROVE  [sprites |-> s, events |-> log, lost |-> l] \in LogType
  BY DEF LogType

LEMMA SpritesInitInv == SpritesInit => SpritesInv
  <1> SUFFICES ASSUME SpritesInit PROVE SpritesInv
    OBVIOUS
  <1> DEFINE s == [pointer |-> 0, pos |-> [h |-> 0, v |-> 0],
                   ctl |-> [h0 |-> 0, v8 |-> 0, vstop |-> 0, attach |-> FALSE],
                   data |-> 0, datb |-> 0, armed |-> FALSE, dma |-> "Idle"]
  <1>1. 0 \in 0 .. RamPairs - 1 /\ 0 \in SpriteData /\ 0 \in Nat /\ 0 \in 0 .. 1
        /\ 0 \in 0 .. LineClocks - 1 /\ 0 \in 0 .. Lines - 1
    BY SpritesAssumption DEF SpriteData
  <1>2. s \in SpriteType
    BY <1>1 DEF SpriteType, Pos, Ctl, Dma
  <1> HIDE DEF s
  <1>3. sprites = [n \in SpriteIds |-> s]
    BY DEF SpritesInit, s
  <1>4. sprites \in [SpriteIds -> SpriteType] /\ line_start \in [SpriteIds -> SpriteType]
    BY <1>2, <1>3 DEF SpritesInit
  <1>5. Log \in LogType
    <2>1. events \in Seq(EventType) /\ lost \in BOOLEAN
      <3>1. events = <<>> /\ lost = FALSE
        BY Zenon DEF SpritesInit
      <3>2. events \in Seq(EventType)
        BY <3>1
      <3>3. lost \in BOOLEAN
        BY <3>1, Zenon
      <3>4. QED
        BY <3>2, <3>3
    <2>2. QED
      BY <1>4, <2>1, LogTyped DEF Log
  <1>6. LineTyped /\ hpos = 0 /\ vpos \in 0 .. Lines - 1
    BY <1>1, <1>4 DEF SpritesInit, LineTyped
  <1>7. image \in [SpriteIds -> (0 .. RamPairs - 1) \cup {-1}] /\ \A n \in SpriteIds : image[n] = -1
    BY DEF SpritesInit
  <1>8. QED
    BY <1>5, <1>6, <1>7 DEF SpritesInv

\* A write in another sprite's registers, or in one's own, whose image is then
\* no longer followed.
LEMMA WriteKeeps ==
  ASSUME SpritesInv, NEW w \in SpriteWrites, WriteSprite(w)
  PROVE  SpritesInv'
  <1> DEFINE t == [sprites |-> sprites', events |-> events', lost |-> lost']
             v == w.value
  <1>1. Log \in LogType /\ LineTyped /\ vpos \in 0 .. Lines - 1
    BY DEF SpritesInv
  <1>2. w.n \in SpriteIds /\ IF w.reg = "pointer" THEN v \in 0 .. RamPairs - 1 ELSE Fits(w.reg, v)
    <2>1. PosWords \subseteq Pos /\ CtlWords \subseteq Ctl
      BY SpritesAssumption DEF Pos, Ctl
    <2>2. \/ w \in [n : SpriteIds, reg : {"POS"}, value : PosWords]
          \/ w \in [n : SpriteIds, reg : {"CTL"}, value : CtlWords]
          \/ w \in [n : SpriteIds, reg : {"DATA", "DATB"}, value : SpriteData]
          \/ w \in [n : SpriteIds, reg : {"pointer"}, value : 0 .. RamPairs - 1]
      BY SpritesAssumption
    <2>3. w \in [n : SpriteIds, reg : {"POS"}, value : PosWords]
            => w.n \in SpriteIds /\ w.reg = "POS" /\ v \in Pos
      BY <2>1
    <2>4. w \in [n : SpriteIds, reg : {"CTL"}, value : CtlWords]
            => w.n \in SpriteIds /\ w.reg = "CTL" /\ v \in Ctl
      BY <2>1
    <2>5. w \in [n : SpriteIds, reg : {"DATA", "DATB"}, value : SpriteData]
            => w.n \in SpriteIds /\ w.reg \in {"DATA", "DATB"} /\ v \in SpriteData
      OBVIOUS
    <2>6. w \in [n : SpriteIds, reg : {"pointer"}, value : 0 .. RamPairs - 1]
            => w.n \in SpriteIds /\ w.reg = "pointer" /\ v \in 0 .. RamPairs - 1
      OBVIOUS
    <2> HIDE DEF v
    <2>7. (w.reg = "POS" \/ w.reg = "CTL" \/ w.reg \in {"DATA", "DATB"}) => w.reg # "pointer"
      OBVIOUS
    <2>8. QED
      BY <2>2, <2>3, <2>4, <2>5, <2>6, <2>7, Zenon DEF Fits
  <1>3. Along(Log, w.n, t)
    <2>1. CASE w.reg = "pointer"
      <3> DEFINE s == [sprites[w.n] EXCEPT !.pointer = v]
      <3>1. sprites[w.n] \in SpriteType /\ sprites \in [SpriteIds -> SpriteType]
        BY <1>1, <1>2, LogFields DEF LogType
      <3>2. s \in SpriteType /\ SameShown(s, Log.sprites[w.n])
        BY <1>2, <2>1, <3>1, LogFields DEF SpriteType, SameShown
      <3>3. t = Replaced(Log, w.n, s)
        <4>1. sprites' = [sprites EXCEPT ![w.n].pointer = v] /\ events' = events /\ lost' = lost
          BY <2>1 DEF WriteSprite
        <4>2. sprites' = [sprites EXCEPT ![w.n] = s]
          BY <3>1, <4>1
        <4> HIDE DEF s
        <4>3. QED
          BY <4>1, <4>2 DEF Replaced, Log
      <3> HIDE DEF s, t
      <3>4. QED
        BY <1>1, <1>2, <3>2, <3>3, ElseAlong
    <2>2. CASE w.reg # "pointer"
      <3> DEFINE g == set(Log, w.n, w.reg, v)
      <3>1. Along(Log, w.n, g)
        BY <1>1, <1>2, <2>2, SetAlong
      <3>2. sprites' = g.sprites /\ events' = g.events /\ lost' = g.lost
        BY <2>2 DEF WriteSprite, Log
      <3> HIDE DEF g
      <3>3. t = g
        BY <3>1, <3>2 DEF Along, LogType
      <3> HIDE DEF t
      <3>4. QED
        BY <3>1, <3>3
    <2>3. QED
      BY <2>1, <2>2
  <1>4. t = Log'
    BY DEF Log
  <1>5. line_start' = line_start /\ vpos' = vpos /\ hpos' = hpos /\ seen' = seen
        /\ image' = [image EXCEPT ![w.n] = -1]
    BY DEF WriteSprite
  <1>6. LineTyped' /\ (vpos \in 0 .. Lines - 1)'
    BY <1>1, <1>5 DEF LineTyped
  <1>7. (image \in [SpriteIds -> (0 .. RamPairs - 1) \cup {-1}])'
    BY <1>5 DEF SpritesInv
  <1>8. ASSUME NEW n \in SpriteIds, image'[n] # -1
        PROVE  InPlace(sprites'[n], image'[n], DmaPast')
    <2>1. n # w.n /\ image'[n] = image[n]
      BY <1>2, <1>5, <1>8 DEF SpritesInv
    <2>2. sprites'[n] = sprites[n]
      BY <1>3, <2>1, LogFields DEF Along
    <2>3. DmaPast' = DmaPast
      BY <1>5 DEF DmaPast
    <2>4. InPlace(sprites[n], image[n], DmaPast)
      BY <1>8, <2>1 DEF SpritesInv
    <2>5. QED
      BY <2>1, <2>2, <2>3, <2>4
  <1>9. hpos' # 0 => LogMatches(Log)'
    <2>1. hpos' # 0 => LogMatches(t)
      BY <1>3, <1>5 DEF Along, SpritesInv
    <2>2. LogMatches(t) => LogMatches(Log)'
      BY <1>4, <1>5 DEF LogMatches
    <2>3. QED
      BY <2>1, <2>2
  <1>10. (Log \in LogType)'
    BY <1>3, <1>4 DEF Along
  <1>11. QED
    BY <1>6, <1>7, <1>8, <1>9, <1>10 DEF SpritesInv

\* The replay of the line, as far as the color clock that ends.
ClockMatches ==
  ~lost' => \A n \in SpriteIds :
              Matches(Replay(n, line_start', events'), sprites'[n], 2 * hpos + 2, seen'[n])

LEMMA TickKeeps ==
  ASSUME SpritesInv, NEW enabled \in BOOLEAN, SpritesTick(enabled)
  PROVE  SpritesInv' /\ ClockMatches
  <1> DEFINE begin == hpos = 0
             g == [sprites |-> sprites, events |-> IF begin THEN <<>> ELSE events,
                   lost |-> lost /\ ~begin]
             dma == hpos = DmaHpos /\ enabled /\ vpos >= FirstDmaLine
             last == hpos = LineClocks - 1
             newFrame == last /\ vpos = Lines - 1
             fetching == {n \in SpriteIds : dma /\ FetchesControl(g, n)}
  <1>1. PICK controls \in [fetching -> ControlPairs] :
          LET done == IF dma THEN dma_line(g, controls) ELSE g
          IN /\ sprites' = done.sprites /\ events' = done.events /\ lost' = done.lost
             /\ line_start' = IF begin THEN sprites ELSE line_start
             /\ seen' = [n \in SpriteIds |-> Passed(n, done.sprites[n], IF begin THEN <<>> ELSE seen[n])]
             /\ image' = [n \in SpriteIds |->
                            IF newFrame \/ (hpos = DmaHpos /\ ~dma) THEN -1
                            ELSE IF n \in fetching THEN (sprites[n].pointer + 1) % RamPairs
                            ELSE image[n]]
             /\ hpos' = IF last THEN 0 ELSE hpos + 1
             /\ vpos' = IF newFrame THEN 0 ELSE IF last THEN vpos + 1 ELSE vpos
    BY DEF SpritesTick
  <1> DEFINE done == IF dma THEN dma_line(g, controls) ELSE g
  <1>2. /\ sprites' = done.sprites /\ events' = done.events /\ lost' = done.lost
        /\ line_start' = IF begin THEN sprites ELSE line_start
        /\ seen' = [n \in SpriteIds |-> Passed(n, done.sprites[n], IF begin THEN <<>> ELSE seen[n])]
        /\ image' = [n \in SpriteIds |->
                       IF newFrame \/ (hpos = DmaHpos /\ ~dma) THEN -1
                       ELSE IF n \in fetching THEN (sprites[n].pointer + 1) % RamPairs
                       ELSE image[n]]
    BY <1>1
  <1>3. hpos' = (IF last THEN 0 ELSE hpos + 1) /\ vpos' = IF newFrame THEN 0 ELSE IF last THEN vpos + 1 ELSE vpos
    BY <1>1
  <1>4. /\ Log \in LogType /\ LineTyped
        /\ sprites \in [SpriteIds -> SpriteType] /\ events \in Seq(EventType) /\ lost \in BOOLEAN
    BY LogFields DEF SpritesInv, LogType
  <1>5. /\ vpos \in 0 .. Lines - 1 /\ vpos \in Nat /\ hpos \in 0 .. LineClocks - 1 /\ hpos \in Nat
        /\ LineClocks \in Nat /\ Lines \in Nat /\ DmaHpos \in 1 .. LineClocks - 2
    BY <1>4, SpritesAssumption DEF SpritesInv, LineTyped
  <1>6. g \in LogType /\ g.sprites = sprites
    <2>1. (IF begin THEN <<>> ELSE events) \in Seq(EventType)
      BY <1>4
    <2>2. (lost /\ ~begin) \in BOOLEAN
      OBVIOUS
    <2>3. QED
      BY <1>4, <2>1, <2>2, LogTyped
  <1>7. ~begin => g = Log
    <2>1. ~begin => (lost /\ ~begin) = lost
      BY <1>4, Zenon
    <2>2. QED
      BY <2>1 DEF Log
  <1>8. Controlled(g, controls) \/ ~dma
    <2> SUFFICES ASSUME dma PROVE Controlled(g, controls)
      OBVIOUS
    <2>1. ASSUME NEW n \in SpriteIds, FetchesControl(g, n)
          PROVE  controls[n].pos \in Pos /\ controls[n].ctl \in Ctl
      <3>1. n \in fetching
        BY <2>1
      <3> HIDE DEF fetching
      <3>2. controls[n] \in ControlPairs
        BY <1>1, <3>1
      <3>3. PosWords \subseteq Pos /\ CtlWords \subseteq Ctl
        BY SpritesAssumption DEF Pos, Ctl
      <3>4. QED
        BY <3>2, <3>3, SpritesAssumption
    <2>2. QED
      BY <2>1 DEF Controlled
  <1>9. dma => Done(g, SpriteCount, done)
    <2> HIDE DEF g
    <2>1. QED
      BY <1>4, <1>5, <1>6, <1>8, DmaLine
  <1>10. /\ done \in LogType
         /\ LogMatches(g) => LogMatches(done)
    BY <1>6, <1>9 DEF Done
  <1>11. ~dma => done = g
    OBVIOUS
  <1>12. dma => ~begin
    BY <1>5
  <1>13. /\ done.sprites \in [SpriteIds -> SpriteType] /\ done.events \in Seq(EventType)
         /\ done.lost \in BOOLEAN
    BY <1>10 DEF LogType
  <1> DEFINE starts(n) == IF begin THEN <<>> ELSE seen[n]
  <1>14. ASSUME NEW n \in SpriteIds
         PROVE  seen'[n] = Passed(n, sprites'[n], starts(n)) /\ starts(n) \in Seq(TriggerType)
    <2>1. seen'[n] = Passed(n, done.sprites[n], starts(n))
      BY <1>2
    <2>2. seen[n] \in Seq(TriggerType)
      BY <1>4 DEF LineTyped
    <2>3. QED
      BY <1>2, <2>1, <2>2
  <1>15. DOMAIN seen' = SpriteIds /\ DOMAIN image' = SpriteIds
         /\ seen' = [n \in SpriteIds |-> seen'[n]] /\ image' = [n \in SpriteIds |-> image'[n]]
    <2> HIDE DEF fetching, done, g
    <2>1. QED
      BY <1>2
  <1>16. ASSUME ~lost', NEW n \in SpriteIds
         PROVE  Matches(Replay(n, line_start', events'), sprites'[n], 2 * hpos, starts(n))
    <2>1. CASE begin
      <3>1. sprites' = sprites /\ events' = <<>> /\ line_start' = sprites
        BY <1>2, <1>6, <1>11, <1>12, <2>1
      <3>2. line_start'[n] = sprites[n] /\ sprites[n] \in SpriteType
        BY <1>4, <3>1
      <3>3. Matches(Replay(n, line_start', <<>>), sprites[n], 0, <<>>)
        BY <3>2, LineMatches
      <3>4. starts(n) = <<>> /\ 2 * hpos = 0
        BY <2>1
      <3>5. QED
        BY <3>1, <3>3, <3>4
    <2>2. CASE ~begin
      <3>1. LogMatches(done)
        BY <1>7, <1>10, <2>2 DEF SpritesInv
      <3>2. line_start' = line_start /\ starts(n) = seen[n]
        BY <1>2, <2>2
      <3> HIDE DEF done, starts
      <3>3. Matches(Replay(n, line_start, done.events), done.sprites[n], 2 * hpos, seen[n])
        BY <1>2, <1>16, <3>1 DEF LogMatches
      <3>4. QED
        BY <1>2, <3>2, <3>3
    <2>3. QED
      BY <2>1, <2>2
  <1>17. \A n \in SpriteIds : sprites'[n] \in SpriteType /\ seen'[n] \in Seq(TriggerType)
    <2> SUFFICES ASSUME NEW n \in SpriteIds
                 PROVE  sprites'[n] \in SpriteType /\ seen'[n] \in Seq(TriggerType)
      OBVIOUS
    <2> DEFINE before == starts(n)
               s == sprites'[n]
    <2>1. s \in SpriteType
      BY <1>2, <1>13
    <2>2. before \in Seq(TriggerType) /\ seen'[n] = Passed(n, s, before)
      BY <1>14
    <2> HIDE DEF before, s
    <2>3. Trigger(s) \in TriggerType
      BY <2>1, TriggerTyped
    <2>4. Passed(n, s, before) \in Seq(TriggerType)
      BY <2>2, <2>3 DEF Passed
    <2>5. QED
      BY <2>1, <2>2, <2>4 DEF s
  <1>18. ClockMatches
    <2> SUFFICES ASSUME ~lost', NEW n \in SpriteIds
                 PROVE  Matches(Replay(n, line_start', events'), sprites'[n], 2 * hpos + 2, seen'[n])
      BY DEF ClockMatches
    <2> DEFINE r == Replay(n, line_start', events')
               s == sprites'[n]
               before == starts(n)
    <2>1. s \in SpriteType /\ before \in Seq(TriggerType) /\ seen'[n] = Passed(n, s, before)
      BY <1>14, <1>17
    <2>2. Matches(r, s, 2 * hpos, before)
      BY <1>16
    <2> HIDE DEF r, s, before
    <2>3. Matches(r, s, 2 * hpos + 2, Passed(n, s, before))
      BY <1>5, <2>1, <2>2, BeamMatches
    <2>4. QED
      BY <2>1, <2>3 DEF r, s
  <1>19. LineTyped' /\ (vpos \in 0 .. Lines - 1)' /\ (Log \in LogType)'
    <2>1. line_start' \in [SpriteIds -> SpriteType]
      BY <1>2, <1>4 DEF LineTyped
    <2>2. seen' \in [SpriteIds -> Seq(TriggerType)]
      <3> DEFINE S == Seq(TriggerType)
                 f == seen'
      <3>1. f = [n \in SpriteIds |-> f[n]] /\ \A n \in SpriteIds : f[n] \in S
        BY <1>15, <1>17
      <3> HIDE DEF S, f
      <3>2. f \in [SpriteIds -> S]
        BY <3>1
      <3>3. QED
        BY <3>2 DEF S, f
    <2>3. hpos' \in 0 .. LineClocks - 1 /\ vpos' \in 0 .. Lines - 1
      BY <1>3, <1>5
    <2>4. Log' = [sprites |-> sprites', events |-> events', lost |-> lost']
      BY DEF Log
    <2>5. (Log \in LogType)'
      <3> HIDE DEF done
      <3>1. QED
        BY <1>2, <1>13, <2>4, LogTyped
    <2>6. QED
      BY <2>1, <2>2, <2>3, <2>5 DEF LineTyped
  <1>20. hpos' # 0 => LogMatches(Log)'
    <2> SUFFICES ASSUME hpos' # 0, ~lost', NEW n \in SpriteIds
                 PROVE  Matches(Replay(n, line_start', events'), sprites'[n], 2 * hpos', seen'[n])
      BY DEF LogMatches, Log
    <2>1. 2 * hpos' = 2 * hpos + 2
      BY <1>3, <1>5
    <2>2. QED
      BY <1>18, <2>1 DEF ClockMatches
  <1>21. ASSUME NEW n \in SpriteIds
         PROVE  /\ image'[n] \in (0 .. RamPairs - 1) \cup {-1}
                /\ image'[n] # -1 => InPlace(sprites'[n], image'[n], DmaPast')
    <2>1. /\ image[n] \in (0 .. RamPairs - 1) \cup {-1}
          /\ image[n] # -1 => InPlace(sprites[n], image[n], DmaPast)
      BY DEF SpritesInv
    <2>2. CASE newFrame \/ (hpos = DmaHpos /\ ~dma)
      BY <1>2, <2>2
    <2>3. CASE ~newFrame /\ dma
      <3>1. /\ DmaPast = vpos - 1 /\ DmaPast' = vpos
        BY <1>3, <1>5, <2>3 DEF DmaPast
      <3>2. n \in fetching <=> FetchesControl(g, n)
        BY <2>3
      <3>3. image'[n] = IF FetchesControl(g, n) THEN (sprites[n].pointer + 1) % RamPairs ELSE image[n]
        BY <1>2, <2>3, <3>2
      <3>4. (sprites[n].pointer + 1) % RamPairs \in 0 .. RamPairs - 1
        <4>1. sprites[n].pointer \in 0 .. RamPairs - 1
          BY <1>4 DEF SpriteType
        <4>2. QED
          BY <4>1, SpritesAssumption
      <3>5. Landed(g, n, sprites'[n])
        <4>1. Done(g, SpriteCount, done) /\ n < SpriteCount
          BY <1>9, <2>3, SpritesAssumption DEF SpriteIds
        <4>2. sprites'[n] = done.sprites[n]
          BY <1>2
        <4> HIDE DEF done, g
        <4>3. QED
          BY <4>1, <4>2 DEF Done
      <3>6. g.sprites[n] = sprites[n]
        BY <1>6
      <3> HIDE DEF g, fetching, done
      <3>7. QED
        BY <2>1, <3>1, <3>3, <3>4, <3>5, <3>6 DEF Landed
    <2>4. CASE ~newFrame /\ hpos # DmaHpos
      <3>1. n \notin fetching /\ image'[n] = image[n]
        BY <1>2, <2>4
      <3>2. sprites' = sprites
        BY <1>2, <1>6, <2>4
      <3>3. DmaPast' = DmaPast
        BY <1>3, <1>5, <2>4 DEF DmaPast
      <3>4. QED
        BY <2>1, <3>1, <3>2, <3>3
    <2>5. QED
      BY <2>2, <2>3, <2>4
  <1>22. (image \in [SpriteIds -> (0 .. RamPairs - 1) \cup {-1}])'
    <2> HIDE DEF g, fetching, done
    <2>1. QED
      BY <1>15, <1>21
  <1>23. QED
    BY <1>18, <1>19, <1>20, <1>21, <1>22 DEF SpritesInv

LEMMA SpritesInvariant == SpritesSpec => []SpritesInv
  <1>1. SpritesInit => SpritesInv
    BY SpritesInitInv
  <1>2. SpritesInv /\ [SpritesNext]_spriteVars => SpritesInv'
    <2> SUFFICES ASSUME SpritesInv, [SpritesNext]_spriteVars PROVE SpritesInv'
      OBVIOUS
    <2>1. CASE \E w \in SpriteWrites : WriteSprite(w)
      BY <2>1, WriteKeeps
    <2>2. CASE \E enabled \in BOOLEAN : SpritesTick(enabled)
      BY <2>2, TickKeeps
    <2>3. CASE UNCHANGED spriteVars
      BY <2>3 DEF spriteVars, SpritesInv, Log, LogType, LineTyped, LogMatches, DmaPast
    <2>4. QED
      BY <2>1, <2>2, <2>3 DEF SpritesNext
  <1>3. QED
    BY <1>1, <1>2, PTL DEF SpritesSpec

\* With its control pair fetched and its registers left alone, a sprite shows
\* on each line the words of that line, from VSTART to VSTOP, and fetches none
\* after (dma_line, sprites.hpp).
THEOREM ImageInPlaceAlways == SpritesSpec => []ImageInPlace
  <1>1. SpritesInv => ImageInPlace
    <2> SUFFICES ASSUME SpritesInv, NEW n \in SpriteIds, image[n] # -1, sprites[n].dma = "Active"
                 PROVE  LET s    == sprites[n]
                            row  == DmaPast - vstart(s)
                        IN  /\ row >= 0 /\ DmaPast < s.ctl.vstop
                            /\ s.armed /\ s.data = (image[n] + row) % RamPairs /\ s.datb = s.data
                            /\ s.pointer = (image[n] + row + 1) % RamPairs
      BY DEF ImageInPlace, DmaPast
    <2>1. InPlace(sprites[n], image[n], DmaPast)
      BY DEF SpritesInv
    <2>2. QED
      BY <2>1 DEF InPlace
  <1>2. QED
    BY <1>1, SpritesInvariant, PTL

\* A line without events and without a sprite armed at its start shows none.
LEMMA NothingShown ==
  ASSUME LineTyped, ~active_on_line, NEW n \in SpriteIds
  PROVE  events = <<>> /\ triggers(n, line_start, events) = <<>>
  <1> DEFINE r == Before(line_start[n])
  <1>1. events = <<>> /\ ~line_start[n].armed /\ line_start[n] \in SpriteType
    BY DEF active_on_line, LineTyped
  <1>2. Replay(n, line_start, events) = r
    BY <1>1, ReplayNothing
  <1>3. r \in ReplayType /\ ~Starts(r, Never) /\ r.out = <<>>
    BY <1>1, BeforeTyped DEF Before, Starts
  <1>4. Never \in Nat
    BY SpritesAssumption DEF Never
  <1> HIDE DEF r
  <1>5. Start(r, Never) = r
    BY <1>3, <1>4, StartFields
  <1>6. QED
    BY <1>1, <1>2, <1>3, <1>5 DEF triggers

\* Once the beam has come to the end of the line, what the replay still adds is
\* the start past it.
LEMMA PastTheLine ==
  ASSUME NEW r, NEW s \in SpriteType, NEW starts \in Seq(TriggerType),
         Matches(r, s, 2 * LineClocks, starts)
  PROVE  Start(r, Never).out = Fitting(starts \o Stray(s))
  <1> DEFINE b == 2 * LineClocks
             h == hstart(s)
             x == Trigger(s)
  <1>1. /\ r \in ReplayType /\ r.state \in SpriteType /\ r.position \in Nat /\ b \in Nat /\ h \in Nat
        /\ h < 512 /\ r.position <= b
    BY SpritesAssumption, Positions DEF Matches, ReplayType
  <1>2. Trigger(r.state) = x /\ hstart(r.state) = h /\ r.state.armed = s.armed /\ x \in TriggerType
    BY <1>1, SameTrigger, TriggerTyped DEF Matches
  <1>3. Never = 512 /\ Start(r, b).out = Fitting(starts)
    BY DEF Never, Matches
  <1>4. Stray(s) = IF s.armed /\ h >= b THEN <<x>> ELSE <<>>
    BY DEF Stray
  <1> HIDE DEF h, x, b
  <1>5. CASE s.armed /\ h >= b
    <2>1. Starts(r, 512) /\ ~Starts(r, b)
      BY <1>1, <1>2, <1>5 DEF Starts
    <2>2. Start(r, b).out = r.out
      BY <1>1, <2>1, StartFields
    <2>3. Start(r, 512).out = Longer(r.out, x)
      BY <1>1, <1>2, <2>1, StartFields
    <2>4. starts \o Stray(s) = Append(starts, x)
      BY <1>2, <1>4, <1>5
    <2>5. QED
      BY <1>2, <1>3, <2>2, <2>3, <2>4, ShownAppend
  <1>6. CASE ~(s.armed /\ h >= b)
    <2>1. Starts(r, 512) <=> Starts(r, b)
      BY <1>1, <1>2, <1>6 DEF Starts
    <2>2. Start(r, 512).out = Start(r, b).out
      <3>1. CASE Starts(r, b)
        <4>1. Start(r, b).out = Longer(r.out, Trigger(r.state))
          BY <1>1, <3>1, StartFields
        <4>2. Start(r, 512).out = Longer(r.out, Trigger(r.state))
          BY <1>1, <2>1, <3>1, StartFields
        <4>3. QED
          BY <4>1, <4>2
      <3>2. CASE ~Starts(r, b)
        <4>1. Start(r, b) = r
          BY <1>1, <3>2, StartFields
        <4>2. Start(r, 512) = r
          BY <1>1, <2>1, <3>2, StartFields
        <4>3. QED
          BY <4>1, <4>2
      <3>3. QED
        BY <3>1, <3>2
    <2>3. starts \o Stray(s) = starts
      BY <1>4, <1>6
    <2>4. QED
      BY <1>3, <2>2, <2>3
  <1>7. QED
    BY <1>5, <1>6

\* The replay of a line's log (triggers, sprites.hpp) shows the starts a beam
\* meets that reads the registers as they are at each position, and then the
\* start past the line of a sprite left armed with such an HSTART.
THEOREM LineShowsAlways == SpritesSpec => LineShowsWhatTheBeamMeets
  <1> DEFINE Shows ==
        hpos = LineClocks - 1 /\ vpos' # vpos /\ ~lost' =>
          \A n \in SpriteIds :
            (IF active_on_line THEN triggers(n, line_start', events') ELSE <<>>)
            = Fitting(seen'[n] \o Stray(sprites'[n]))
  <1>1. SpritesInv /\ [SpritesNext]_spriteVars => Shows
    <2> SUFFICES ASSUME SpritesInv, [SpritesNext]_spriteVars,
                        hpos = LineClocks - 1, vpos' # vpos, ~lost', NEW n \in SpriteIds
                 PROVE  (IF active_on_line THEN triggers(n, line_start', events') ELSE <<>>)
                        = Fitting(seen'[n] \o Stray(sprites'[n]))
      OBVIOUS
    <2>1. \E enabled \in BOOLEAN : SpritesTick(enabled)
      <3>1. ~(\E w \in SpriteWrites : WriteSprite(w)) /\ spriteVars' # spriteVars
        BY DEF WriteSprite, spriteVars
      <3>2. QED
        BY <3>1 DEF SpritesNext
    <2>2. SpritesInv' /\ ClockMatches
      BY <2>1, TickKeeps
    <2>3. hpos # 0 /\ hpos # DmaHpos /\ 2 * hpos + 2 = 2 * LineClocks
      BY SpritesAssumption
    <2>4. line_start' = line_start /\ events' = events
      BY <2>1, <2>3 DEF SpritesTick
    <2>5. triggers(n, line_start', events') = Fitting(seen'[n] \o Stray(sprites'[n]))
      <3>1. Matches(Replay(n, line_start', events'), sprites'[n], 2 * LineClocks, seen'[n])
        BY <2>2, <2>3 DEF ClockMatches
      <3>2. sprites' \in [SpriteIds -> SpriteType] /\ seen' \in [SpriteIds -> Seq(TriggerType)]
        BY <2>2 DEF SpritesInv, LineTyped, Log, LogType
      <3>3. QED
        BY <3>1, <3>2, PastTheLine DEF triggers
    <2>6. ~active_on_line => triggers(n, line_start', events') = <<>>
      BY <2>4, NothingShown DEF SpritesInv
    <2>7. QED
      BY <2>5, <2>6
  <1>2. SpritesInv /\ [SpritesNext]_spriteVars =>
          [hpos = LineClocks - 1 /\ vpos' # vpos /\ ~lost' =>
             \A n \in SpriteIds :
               (IF active_on_line THEN triggers(n, line_start', events') ELSE <<>>)
               = Fitting(seen'[n] \o Stray(sprites'[n]))]_spriteVars
    BY <1>1 DEF Shows
  <1> HIDE DEF Shows
  <1>3. QED
    BY <1>2, SpritesInvariant, PTL DEF SpritesSpec, LineShowsWhatTheBeamMeets
=============================================================================
