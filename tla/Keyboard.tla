------------------------------ MODULE Keyboard ------------------------------
(***************************************************************************)
(* The keyboard's scancodes (keyboard.c): the modifier keys, the map from  *)
(* scancodes to characters, and which edit of LineInput a code comes to.   *)
(*                                                                         *)
(* The user holds modifier keys and strikes others; a held key repeats its *)
(* code.  The right Alt and Control keys send their left twin's code after *)
(* a prefix the handler ignores, so that they are that key here.           *)
(***************************************************************************)
EXTENDS LineInputEditor

CONSTANTS
  scancode_map,   \* its rows: per scancode what the key types without
                  \* modifiers, with shift, with caps lock and with both
  Modifiers       \* the shift, Alt and Control keys on the user's keyboard

CAPSLOCK_PRESSED == 58
LEFT_SHIFT_PRESSED == 42
RIGHT_SHIFT_PRESSED == 54
LEFT_ALT_PRESSED == 56
LEFT_CTRL_PRESSED == 29
TAB == 15
BAKCSPACE == 14
F1 == 59

Released(key) == key + 128
ShiftKeys == {LEFT_SHIFT_PRESSED, RIGHT_SHIFT_PRESSED}

ASSUME KeyboardAssumption ==
  /\ DOMAIN scancode_map \subseteq 0..57
  /\ \A s \in DOMAIN scancode_map :
       scancode_map[s] \in [1..4 -> Typed \cup {NL}]
  /\ Modifiers \subseteq ShiftKeys \cup {LEFT_ALT_PRESSED, LEFT_CTRL_PRESSED}

\* Capslock_pressed and Bakcspace_pressed are never read and left out.
VARIABLES
  Shift_pressed, Ctrl_pressed, Alt_pressed, Capslock_state,
  held    \* the keys of Modifiers that are down

flags == <<Shift_pressed, Ctrl_pressed, Alt_pressed, Capslock_state>>
keyboardVars == <<vars, flags, held>>

KeyboardInit ==
  /\ Init
  /\ Shift_pressed = FALSE /\ Ctrl_pressed = FALSE
  /\ Alt_pressed = FALSE /\ Capslock_state = FALSE
  /\ held = {}

------------------------------------------------------------------------------
(* handle_keyboard_irq()                                                   *)

\* A flag after code s: the keys' codes set it, their releases clear it.
After(flag, s, keys) ==
  s \in keys \/ (flag /\ s \notin {Released(k) : k \in keys})

\* Mutant: the right shift key's release falls to the default case.
ModifierKey_LeftOnly(s) ==
  /\ Shift_pressed' = (s \in ShiftKeys
                        \/ (Shift_pressed /\ s # Released(LEFT_SHIFT_PRESSED)))
  /\ Alt_pressed' = After(Alt_pressed, s, {LEFT_ALT_PRESSED})
  /\ Ctrl_pressed' = After(Ctrl_pressed, s, {LEFT_CTRL_PRESSED})
  /\ Capslock_state' = (Capslock_state # (s = CAPSLOCK_PRESSED))
  /\ UNCHANGED vars

\* handle_special_key() for the codes of modifiers.  A caps lock key that
\* repeats toggles each time.
ModifierKey(s) ==
  /\ Shift_pressed' = After(Shift_pressed, s, ShiftKeys)
  /\ Alt_pressed' = After(Alt_pressed, s, {LEFT_ALT_PRESSED})
  /\ Ctrl_pressed' = After(Ctrl_pressed, s, {LEFT_CTRL_PRESSED})
  /\ Capslock_state' = (Capslock_state # (s = CAPSLOCK_PRESSED))
  /\ UNCHANGED vars

\* The column of scancode_map, from 1.
Column == CASE ~Shift_pressed /\ ~Capslock_state -> 1
            [] Shift_pressed /\ ~Capslock_state -> 2
            [] ~Shift_pressed /\ Capslock_state -> 3
            [] Shift_pressed /\ Capslock_state -> 4

\* A character on a full line is dropped.
Dropped == Press /\ buffer_position = MAX_BUFFER_SIZE /\ UNCHANGED vars

\* Mutant: Enter is kept like any other character.
CharacterKey_Any(s) ==
  /\ (TypeChar(scancode_map[s][Column]) \/ Dropped)
  /\ UNCHANGED flags

CharacterKey(s) ==
  LET key_pressed == scancode_map[s][Column]
      clears == Ctrl_pressed /\ key_pressed \in {"l", "L"}
  IN  /\ \/ clears /\ CtrlL
         \/ ~clears /\ key_pressed = NL /\ TypeEnter
         \/ ~clears /\ key_pressed # NL /\ (TypeChar(key_pressed) \/ Dropped)
      /\ UNCHANGED flags

EditingKey(s) ==
  /\ \/ s = BAKCSPACE /\ Backspace
     \/ s = BAKCSPACE /\ Press /\ buffer_position = 0 /\ UNCHANGED vars
     \/ s = TAB /\ TypeTab
  /\ UNCHANGED flags

\* Without Alt, and for the terminal shown, nothing happens.
FunctionKey(s) ==
  /\ s - F1 \in Terminals
  /\ IF Alt_pressed /\ s - F1 # current_terminal_id
     THEN SwitchReturns(s - F1) \/ SwitchToFresh(s - F1)
     ELSE UNCHANGED vars
  /\ UNCHANGED flags

------------------------------------------------------------------------------
(* The user and the program                                                *)

\* Caps lock's release does nothing.
CapsLock == ModifierKey(CAPSLOCK_PRESSED) /\ UNCHANGED held

\* Pressing a modifier key, or going on to hold it.
Hold(key) == ModifierKey(key) /\ held' = held \cup {key}
LetGo(key) == key \in held /\ ModifierKey(Released(key)) /\ held' = held \ {key}

Strike ==
  /\ \/ \E s \in DOMAIN scancode_map : CharacterKey(s)
     \/ \E s \in {BAKCSPACE, TAB} : EditingKey(s)
     \/ \E t \in Terminals : FunctionKey(F1 + t)
  /\ UNCHANGED held

KeyboardNext ==
  \/ \E key \in Modifiers : Hold(key) \/ LetGo(key)
  \/ CapsLock
  \/ Strike
  \/ (Read \/ Call) /\ UNCHANGED <<flags, held>>

\* terminal_read() keeps executing.
KeyboardSpec ==
  /\ KeyboardInit /\ [][KeyboardNext]_keyboardVars
  /\ WF_keyboardVars(Read /\ UNCHANGED <<flags, held>>)
------------------------------------------------------------------------------
(* Properties                                                              *)

\* No modifier sticks: a key's flag is set only while one of its keys is down,
\* however keys are rolled over, repeated or held while a terminal switch starts
\* a shell out of the interrupt and never returns to it.  Alt and Control are
\* also never forgotten; shift is, when one of two shift keys is let go.
ModifiersFollowKeys ==
  /\ Shift_pressed => held \cap ShiftKeys # {}
  /\ Alt_pressed <=> LEFT_ALT_PRESSED \in held
  /\ Ctrl_pressed <=> LEFT_CTRL_PRESSED \in held
=============================================================================
