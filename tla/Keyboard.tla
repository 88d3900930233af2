------------------------------ MODULE Keyboard ------------------------------
(***************************************************************************)
(* devices/kbd.c: scancodes into characters, with the state of the shift   *)
(* keys.  Characters are ASCII codes.  What is stored goes to the input    *)
(* buffer (module Console).                                                *)
(***************************************************************************)
EXTENDS Integers, Sequences, FiniteSets

CONSTANTS KeyCodes   \* scancodes of the keys that are used, prefix included

VARIABLES shift_state, \* the shift_keys table's variables that are true
          caps_lock,   \* status of Caps Lock
          stored,      \* the last character stored, or NoChar; 256: a reboot
          held_keys,   \* the keys that are down (the keyboard itself)
          caps_presses \* parity of the times Caps Lock was pressed
KbVars == <<shift_state, caps_lock, stored, held_keys, caps_presses>>

NoChar == -1
Reboot == 256
CapsLock == 58
ShiftKeys == {42, 54, 56, 57400, 29, 57373}   \* left, right: Shift, Alt, Ctrl

KbInit == /\ shift_state = {} /\ caps_lock = FALSE /\ stored = NoChar /\ held_keys = {} /\ caps_presses = 0

\* struct keymap: the first scancode and the characters from there on.
invariant_keymap ==
  <<<<1, <<27>>>>, <<14, <<8>>>>, <<15, <<9, 81, 87, 69, 82, 84, 89, 85, 73, 79, 80>>>>, <<28, <<13>>>>,
    <<30, <<65, 83, 68, 70, 71, 72, 74, 75, 76>>>>, <<44, <<90, 88, 67, 86, 66, 78, 77>>>>,
    <<55, <<42>>>>, <<57, <<32>>>>, <<83, <<127>>>>>>
unshifted_keymap ==
  <<<<2, <<49, 50, 51, 52, 53, 54, 55, 56, 57, 48, 45, 61>>>>, <<26, <<91, 93>>>>, <<39, <<59, 39, 96>>>>,
    <<43, <<92>>>>, <<51, <<44, 46, 47>>>>>>
shifted_keymap ==
  <<<<2, <<33, 64, 35, 36, 37, 94, 38, 42, 40, 41, 95, 43>>>>, <<26, <<123, 125>>>>, <<39, <<58, 34, 126>>>>,
    <<43, <<124>>>>, <<51, <<60, 62, 63>>>>>>

map_key(k, code) ==
  LET hits == {i \in DOMAIN k : code >= k[i][1] /\ code < k[i][1] + Len(k[i][2])}
  IN IF hits = {} THEN NoChar ELSE LET i == CHOOSE i \in hits : TRUE IN k[i][2][code - k[i][1] + 1]

\* The key of the table that a code stands for: the prefix counts.
ShiftKey(code) == code

shift == {42, 54} \cap shift_state # {}
alt == {56, 57400} \cap shift_state # {}
ctrl == {29, 57373} \cap shift_state # {}
tolower(c) == IF c \in 65 .. 90 THEN c + 32 ELSE c

Mapped(code) ==
  LET c == map_key(invariant_keymap, code)
  IN IF c # NoChar THEN c ELSE map_key(IF shift THEN shifted_keymap ELSE unshifted_keymap, code)

\* Ctrl overrides Shift; Alt sets the high bit.
Interpret(c) ==
  LET base == IF ctrl /\ c >= 64 /\ c < 96 THEN c - 64 ELSE IF shift = caps_lock THEN tolower(c) ELSE c
  IN IF c = 127 /\ ctrl /\ alt THEN Reboot ELSE IF alt THEN base + 128 ELSE base

\* The interrupt for one key; full is whether the input buffer has no room.
keyboard_int(code, release, full) ==
  /\ IF code = CapsLock
     THEN caps_lock' = (IF release THEN caps_lock ELSE ~caps_lock) /\ stored' = NoChar /\ UNCHANGED shift_state
     ELSE IF Mapped(code) # NoChar
     THEN /\ stored' = IF release THEN NoChar
                       ELSE IF full /\ Interpret(Mapped(code)) # Reboot THEN NoChar ELSE Interpret(Mapped(code))
          /\ UNCHANGED <<shift_state, caps_lock>>
     ELSE LET key == ShiftKey(code)
          IN /\ shift_state' = IF key \notin ShiftKeys THEN shift_state
                               ELSE IF release THEN shift_state \ {key} ELSE shift_state \cup {key}
             /\ stored' = NoChar /\ UNCHANGED caps_lock

KbNext ==
  \E code \in KeyCodes, release, full \in BOOLEAN :
    /\ stored # Reboot /\ release <=> code \in held_keys
    /\ keyboard_int(code, release, full)
    /\ held_keys' = IF release THEN held_keys \ {code} ELSE held_keys \cup {code}
    /\ caps_presses' = IF code = CapsLock /\ ~release THEN 1 - caps_presses ELSE caps_presses

-----------------------------------------------------------------------------
\* What is stored is what the keys that are down say, however they were pressed
\* and released: a letter is a capital when a Shift key is down or Caps Lock
\* is on, not both; releasing one of two Shift, Alt or Ctrl keys changes
\* nothing; and only Ctrl+Alt+Del reboots.
CharsAsTyped ==
  LET Down(keys) == keys \cap held_keys # {}
      letter == stored % 128
  IN /\ (stored \in 0 .. 255 /\ letter \in 65 .. 90) => Down({42, 54}) # (caps_presses = 1)
     /\ (stored \in 0 .. 255 /\ letter \in 97 .. 122) => Down({42, 54}) = (caps_presses = 1)
     /\ stored \in 0 .. 255 => (stored >= 128 <=> Down({56, 57400})) /\ (letter \in 1 .. 6 => Down({29, 57373}))
     /\ stored = Reboot => Down({56, 57400}) /\ Down({29, 57373}) /\ 83 \in held_keys
=============================================================================
