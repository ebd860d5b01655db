----------------------------- MODULE HostInput -----------------------------
(***************************************************************************)
(* The host's keyboard, mouse and gamepad as main.cpp (HostInput) passes   *)
(* them on to the Amiga's keyboard, mouse and joystick ports.  Several     *)
(* host inputs can hold one Amiga key, and the keys change their meaning   *)
(* while they are held: with F12, in the keyboard-joystick mode, when the  *)
(* window loses the focus or the gamepad is unplugged.                     *)
(***************************************************************************)
EXTENDS Integers, FiniteSets, FiniteSetsExt

CONSTANTS
  Keys,        (* Host keys with an Amiga keycode.                          *)
  JoyKeys,     (* Those of them that fire the keyboard joystick.            *)
  DiskKeys,    (* Those that load a disk together with F12.                 *)
  ToggleKey,   (* The one that, with F12, switches the keyboard joystick.   *)
  Codes,       (* Amiga keycodes.                                           *)
  CodeOf,      (* amiga_keycode: the keycode of each host key.              *)
  Buttons,     (* Gamepad buttons that act as Amiga keys or mouse buttons.  *)
  PadKeys,     (* pad_action: the keycodes each of them presses.            *)
  PadMouse     (* pad_action: the mouse buttons each of them presses.       *)

MouseButtons == {"left", "right"}

ASSUME HostInputAssumption ==
  /\ IsFiniteSet(Buttons) /\ JoyKeys \subseteq Keys /\ DiskKeys \subseteq Keys
  /\ ToggleKey \in Keys \ DiskKeys /\ JoyKeys \cap (DiskKeys \cup {ToggleKey}) = {}
  /\ CodeOf \in [Keys -> Codes]
  /\ PadKeys \in [Buttons -> SUBSET Codes]
  /\ PadMouse \in [Buttons -> SUBSET MouseButtons]

VARIABLES
  hostDown,              (* Host keys that are down.                        *)
  f12_held,              (* F12 is, as far as HostInput knows.              *)
  keys_down,             (* Amiga keys held from the host keyboard.         *)
  holds,                 (* KeyHolds: the inputs that hold each Amiga key.  *)
  joyOn, joyHeld,        (* The keyboard-joystick mode, and its keys held.  *)
  pad, pad_held,         (* A gamepad is open; its buttons that are held.   *)
  captured, mouse        (* The mouse is captured; its buttons held.        *)

VARIABLES                (* What the Machine has been told:                 *)
  amigaKeys,             (* key_event: the Amiga keys that are down.        *)
  amigaMouse,            (* mouse_buttons: the mouse buttons that are.      *)
  amigaStick             (* joystick: the keyboard joystick fires.          *)

VARIABLES                (* History:                                       *)
  given,                 (* Host keys down that were passed on as Amiga     *)
                         (* keys, and not let go of by a mode switch since. *)
  taken                  (* Those that went up while F12 gave them another  *)
                         (* meaning: the Amiga was not told, and has not    *)
                         (* been since.                                     *)

keyboard == <<hostDown, f12_held, keys_down, given, taken>>
joystick == <<joyOn, joyHeld, amigaStick>>
gamepad  == <<pad, pad_held>>
pointer  == <<captured, mouse, amigaMouse>>
amiga    == <<holds, amigaKeys>>
vars     == <<keyboard, joystick, gamepad, pointer, amiga>>

Init ==
  /\ hostDown = {} /\ f12_held = FALSE /\ keys_down = {} /\ given = {} /\ taken = {}
  /\ holds = [c \in Codes |-> 0]
  /\ joyOn \in BOOLEAN /\ joyHeld = {}
  /\ pad = FALSE /\ pad_held = {}
  /\ captured = FALSE /\ mouse = {}
  /\ amigaKeys = {} /\ amigaMouse = {} /\ amigaStick = FALSE

-----------------------------------------------------------------------------
(* The Amiga's side.                                                       *)

\* amiga_key, for keycodes held by n[c] more inputs: down with the first.
Press(n) ==
  /\ holds' = [c \in Codes |-> holds[c] + n[c]]
  /\ amigaKeys' = amigaKeys \cup {c \in Codes : n[c] > 0 /\ holds[c] = 0}

\* And held by n[c] fewer: up with the last.
UpAtOnce(n) == {c \in Codes : n[c] > 0}  \* a mutant: up with the first
GoneUp(n)   == {c \in Codes : holds[c] \in 1 .. n[c]}

Release(n) ==
  /\ holds' = [c \in Codes |-> IF holds[c] > n[c] THEN holds[c] - n[c] ELSE 0]
  /\ amigaKeys' = amigaKeys \ GoneUp(n)

ByKeyboard(codes) == [c \in Codes |-> IF c \in codes THEN 1 ELSE 0]

ByPad(held) == [c \in Codes |-> Cardinality({b \in held : c \in PadKeys[b]})]

Both(n, m) == [c \in Codes |-> n[c] + m[c]]

ByPadMouse(held) == UNION {PadMouse[b] : b \in held}

\* set_captured(false): releasing the pointer lets go of its buttons.
LetGo ==
  /\ captured' = FALSE
  /\ mouse' = {}
  /\ amigaMouse' = IF captured THEN ByPadMouse(pad_held) ELSE amigaMouse

-----------------------------------------------------------------------------
(* Keyboard events.  The set-up of the keys makes their meanings exclusive. *)

Moves(k, down) == hostDown' = IF down THEN hostDown \cup {k} ELSE hostDown \ {k}

F12(down) ==
  /\ f12_held' = down
  /\ IF down THEN LetGo ELSE UNCHANGED pointer
  /\ UNCHANGED <<hostDown, keys_down, given, taken, joystick, gamepad, amiga>>

IsJoystick(k) == joyOn /\ k \in JoyKeys
IsToggle(k)   == f12_held /\ k = ToggleKey
IsDisk(k)     == f12_held /\ k \in DiskKeys

\* toggle_keyboard_joystick: the keys the Amiga still sees as held go up.
StillDown == keys_down

Toggle(down) ==
  IF down
  THEN /\ joyOn' = ~joyOn
       /\ keys_down' = keys_down \ StillDown
       /\ Release(ByKeyboard(StillDown))
       /\ joyHeld' = {} /\ amigaStick' = FALSE
  ELSE UNCHANGED <<keys_down, joystick, amiga>>

StickKey(k, down) ==
  /\ joyHeld' = IF down THEN joyHeld \cup {k} ELSE joyHeld \ {k}
  /\ amigaStick' = (joyHeld' # {})
  /\ UNCHANGED <<joyOn, keys_down, amiga>>

AmigaKey(c, down) ==
  /\ UNCHANGED joystick
  /\ IF (c \in keys_down) = down
     THEN UNCHANGED <<keys_down, amiga>>
     ELSE /\ keys_down' = IF down THEN keys_down \cup {c} ELSE keys_down \ {c}
          /\ IF down THEN Press(ByKeyboard({c})) ELSE Release(ByKeyboard({c}))

IsAmiga(k) == ~(IsToggle(k) \/ IsJoystick(k) \/ IsDisk(k))

\* What the Amiga is told of key k, and what it is not.
Noted(k, down) ==
  \/ /\ IsAmiga(k)
     /\ given' = IF down THEN given \cup {k} ELSE given \ {k}
     /\ taken' = taken \ {k}
  \/ IsToggle(k) /\ down /\ given' = {} /\ taken' = {}
  \/ ~IsAmiga(k) /\ ~IsToggle(k) /\ down /\ UNCHANGED <<given, taken>>
  \/ ~IsAmiga(k) /\ ~down /\ given' = given \ {k} /\ taken' = taken \cup (given \cap {k})

\* A press or a release of a key that is not F12; a repeat changes nothing.
OnKey(k, down) ==
  /\ (k \in hostDown) # down
  /\ Moves(k, down) /\ Noted(k, down)
  /\ \/ IsToggle(k) /\ Toggle(down)
     \/ IsJoystick(k) /\ StickKey(k, down)
     \/ IsDisk(k) /\ UNCHANGED <<keys_down, joystick, amiga>>
     \/ IsAmiga(k) /\ AmigaKey(CodeOf[k], down)
  /\ UNCHANGED <<f12_held, gamepad, pointer>>

-----------------------------------------------------------------------------
(* Gamepad and mouse events.                                               *)

GamepadAdded ==
  /\ ~pad /\ pad' = TRUE
  /\ UNCHANGED <<keyboard, joystick, pad_held, pointer, amiga>>

OnPadButton(b, down) ==
  /\ pad /\ (b \in pad_held) # down
  /\ pad_held' = IF down THEN pad_held \cup {b} ELSE pad_held \ {b}
  /\ IF down THEN Press(ByPad({b})) ELSE Release(ByPad({b}))
  /\ amigaMouse' = IF PadMouse[b] = {} THEN amigaMouse
                   ELSE mouse \cup ByPadMouse(pad_held')
  /\ UNCHANGED <<keyboard, joystick, pad, captured, mouse>>

\* release_pad_buttons.
PadReleased == pad_held

ReleasePad ==
  /\ pad_held' = pad_held \ PadReleased
  /\ amigaMouse' = IF ByPadMouse(PadReleased) = {} THEN amigaMouse
                   ELSE mouse \cup ByPadMouse(pad_held')

\* The gamepad in use is unplugged; another one may take its place.
GamepadRemoved ==
  /\ pad /\ pad' \in BOOLEAN
  /\ ReleasePad
  /\ Release(ByPad(PadReleased))
  /\ UNCHANGED <<keyboard, joystick, captured, mouse>>

OnButton(m, down) ==
  /\ IF captured
     THEN /\ mouse' = IF down THEN mouse \cup {m} ELSE mouse \ {m}
          /\ amigaMouse' = mouse' \cup ByPadMouse(pad_held)
          /\ UNCHANGED captured
     ELSE captured' = (down /\ m = "left") /\ UNCHANGED <<mouse, amigaMouse>>
  /\ UNCHANGED <<keyboard, joystick, gamepad, amiga>>

-----------------------------------------------------------------------------

\* release_everything: what is let go of elsewhere is not reported here.
FocusLost ==
  /\ hostDown' = {} /\ given' = {} /\ taken' = {}
  /\ keys_down' = {} /\ pad_held' = {}
  /\ Release(Both(ByKeyboard(keys_down), ByPad(pad_held)))
  /\ captured' = FALSE
  /\ mouse' = IF captured THEN {} ELSE mouse
  /\ amigaMouse' = IF captured \/ ByPadMouse(pad_held) # {} THEN mouse' ELSE amigaMouse
  /\ joyHeld' = {} /\ amigaStick' = FALSE
  /\ UNCHANGED <<f12_held, joyOn, pad>>

Next ==
  \/ \E down \in BOOLEAN :
       \/ F12(down)
       \/ \E k \in Keys : OnKey(k, down)
       \/ \E b \in Buttons : OnPadButton(b, down)
       \/ \E m \in MouseButtons : OnButton(m, down)
  \/ GamepadAdded \/ GamepadRemoved \/ FocusLost

Spec == Init /\ [][Next]_vars

-----------------------------------------------------------------------------

\* An Amiga key is down exactly while KeyHolds counts an input that holds it, and
\* it counts the keyboard once and each pad button once.
KeysMatch ==
  \A c \in Codes :
    /\ holds[c] = ByKeyboard(keys_down)[c] + ByPad(pad_held)[c]
    /\ c \in amigaKeys <=> holds[c] > 0

\* The Amiga's mouse buttons are those of the captured mouse and of the gamepad,
\* and without a gamepad or a captured mouse there are none.
MouseMatches ==
  /\ amigaMouse = mouse \cup ByPadMouse(pad_held)
  /\ ~captured => mouse = {}
  /\ ~pad => pad_held = {}

\* A joystick key is a joystick key or an Amiga key, never both: switching the
\* mode while keys are held leaves nothing of the other mode behind.
ModesApart ==
  /\ joyOn => \A c \in keys_down : \E k \in Keys \ JoyKeys : CodeOf[k] = c
  /\ ~joyOn => joyHeld = {} /\ ~amigaStick

Alone(k) == \A j \in Keys \ {k} : CodeOf[j] # CodeOf[k]

\* An Amiga key that is down is held by a pad button, or by a host key that was
\* passed on as that key and is still down, or that F12 took on its way up
\* (UpWithTheLast).  Conversely what a pad button holds is down, and so is what
\* a host key holds that is the only one for its Amiga key.
InputsMatch ==
  /\ given \subseteq hostDown
  /\ \A c \in amigaKeys : \/ \E k \in given \cup taken : CodeOf[k] = c
                          \/ \E b \in pad_held : c \in PadKeys[b]
  /\ \A k \in given : Alone(k) => CodeOf[k] \in amigaKeys
  /\ \A b \in pad_held : PadKeys[b] \subseteq amigaKeys

\* What the Amiga sees held is what the host's keys and buttons hold, in the
\* mode the host is in, whatever the order of events, losses of the focus and of
\* the gamepad included.  There are two exceptions, and both break what
\* gamepad_mapping.hpp:46-47 says: a release that F12 takes leaves its key down,
\* and of two host keys for one Amiga key the first release lets it go.
HoldsMatch == InputsMatch /\ KeysMatch /\ MouseMatches /\ ModesApart

\* Violated.  gamepad_mapping.hpp:46-47: the key goes up with the last host input
\* that holds it, so one that is down is held by some host key or pad button.
UpWithTheLast ==
  \A c \in amigaKeys :
    (\E k \in hostDown : CodeOf[k] = c) \/ \E b \in pad_held : c \in PadKeys[b]
=============================================================================
